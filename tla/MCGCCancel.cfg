CONSTANTS
    k1 = k1
    k2 = k2
    k3 = k3
    Keys <- MCKeys
    Batch = 2
    Stmts <- MCWellFormed
    Faults = {"cancel"}
    Clients = FALSE
SPECIFICATION Spec
PROPERTIES
    DeletesOnlyUnreferenced
