CONSTANTS
    i1 = i1
    i2 = i2
    n1 = n1
    n2 = n2
    w1 = w1
    w2 = w2
    p1 = p1
    p2 = p2
    AnyNs = AnyNs
    None = None
    MaxSeq = 2
    Procs <- MCProcs
    Stmts <- MCStmts
    Batches <- MCBatches
    Queries <- MCQueries
SPECIFICATION FairSpec
INVARIANTS
    TypeOK
    TablesAgree
    StoredIsServed
PROPERTIES
    CountsStatements
    InsertionOrder
    LockReleased
    ImplementsStore
