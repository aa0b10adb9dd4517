CONSTANTS
    c1 = c1
    c2 = c2
    d1 = d1
    None = None
    Callers = {c1, c2}
    Dirs = {d1}
    MaxNets = 2
SPECIFICATION FairSpec
INVARIANTS
    StatusTrue
    CrashByTakedown
    LastRound
PROPERTIES
    OldLoopsEnd
CHECK_DEADLOCK FALSE
