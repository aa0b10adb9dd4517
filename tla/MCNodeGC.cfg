CONSTANTS
    k1 = k1
    k2 = k2
    k3 = k3
    Keys <- MCKeys
    Batch = 2
    Stmts <- MCStmts
    Faults = {"cancel", "read"}
    Clients = TRUE
SPECIFICATION FairSpec
PROPERTIES
    SnapshotKept
    OrphansCollected
    GCTerminates
