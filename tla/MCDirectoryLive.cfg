CONSTANTS
    p1 = p1
    p2 = p2
    r1 = r1
    r2 = r2
    rbad = rbad
    m1 = m1
    m2 = m2
    kid = kid
    None = None
    Peers <- MCPeers
    Regs <- MCRegs
    BadRegs = {rbad}
    RegsOf <- MCRegsOfFew
    Manifests <- MCManifests
    ManifestsOf <- MCManifestsOf
    KeyOf <- MCKeyOf
    Verified = {m1}
    MaxConns <- MCMaxConns
    MaxChanges = 0
    MaxRestarts = 0
SPECIFICATION FairSpec
PROPERTIES
    EventuallyListed
    EventuallyForgotten
CHECK_DEADLOCK FALSE
