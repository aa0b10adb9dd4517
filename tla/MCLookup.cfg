CONSTANTS
    d1 = d1
    d2 = d2
    me = me
    p1 = p1
    na = na
    nb = nb
    pre = pre
    m1 = m1
    All = All
    DHT = DHT
    Dirs = {d1, d2}
    Peers <- MCPeers
    Self = me
    Wanted = p1
    NamesOf <- MCNamesOf
    ManifestsOf <- MCManifestsOf
    EntityOf <- MCEntityOf
    Questions <- MCQuestions
    Names = {All, na, pre}
    Covers <- MCCovers
    MaxChanges = 1
SPECIFICATION FairSpec
INVARIANTS
    LookupSound
    CollectSound
PROPERTIES
    RequestEnds
CHECK_DEADLOCK FALSE
