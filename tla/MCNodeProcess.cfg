CONSTANTS
    r1 = r1
    r2 = r2
    Empty = Empty
    NoNAT = NoNAT
    auto = auto
    long = long
    dirs = dirs
    Broken = Broken
    NoFile = NoFile
    None = None
    Reqs = {r1, r2}
    Values <- MCValues
    ValuesOf <- MCValuesOf
    Width <- MCWidth
    MaxBatch = 2
    MaxRequests = 3
    MaxEnds = 2
    MaxClock = 1
SPECIFICATION Spec
INVARIANTS
    BrokenByAccident
    IdsUnique
PROPERTIES
    RestartRestores
SYMMETRY MCSymmetry
CHECK_DEADLOCK FALSE
