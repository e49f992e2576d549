CONSTANTS
    p1 = p1
    p2 = p2
    u = u
    Nobody = Nobody
    Project = {p1, p2, u}
    Managed = {p1, p2}
    Allocation <- MCAllocation
    Precedence <- MCPrecedence
    Limit = 3
    Window = 1
    Grace = 1
    RetryDelay = 1
    MaxForeign = 1
SPECIFICATION FairSpec
INVARIANTS
    OvershootIsBounded
    AdmittedFindRoom
PROPERTIES
    EveryProjectIsServed
CHECK_DEADLOCK FALSE
