CONSTANTS
    a = a
    b = b
    c = c
    bad = bad
    k1 = k1
    k2 = k2
    k3 = k3
    w1 = w1
    w2 = w2
    Stmts <- MCStmts
    Good <- MCGood
    Keys <- MCKeys
    KeysOf <- MCKeysOf
    Inputs <- MCInputs
    Peers <- MCPeers
    Found <- MCFound
    Workers <- MCWorkers
    QueueCap = 1
    KeyBatch = 2
    StmtBatch = 2
SPECIFICATION FairSpec
INVARIANTS
    SuccessIsComplete
    SuccessIsWhole
    CountsReported
    NoWorkerLeft
PROPERTIES
    ImplementsMerge
    Terminates
