CONSTANTS
    s1 = s1
    s2 = s2
    s3 = s3
    n1 = n1
    n2 = n2
    exact = exact
    star = star
    None = None
    Window = 1
    Stmts <- MCStmts
    NsOf <- MCNsOf
    Rules <- MCRules
    Covers <- MCCovers
    Found <- MCFound
    Limits <- MCLimits
SPECIFICATION FairSpec
INVARIANTS
    OnlyAuthorized
    PushIsComplete
    ReportTrue
PROPERTIES
    ImplementsMerge
    PushEnds
CHECK_DEADLOCK FALSE
