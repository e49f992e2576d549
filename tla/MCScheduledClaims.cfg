CONSTANTS
    a = a
    b = b
    c = c
    d = d
    h = h
    r1 = r1
    r2 = r2
    NoTask = NoTask
    NoLease = NoLease
    Task <- MCTask
    Deps <- MCDeps
    Rank <- MCRank
    LeaseTask <- MCTask
    Owner = {r1, r2}
    TTL = 1
    MaxTime = 3
SPECIFICATION ComposedSpec
INVARIANTS
    DependencySafety
    WorkConserving
    LeaseExclusive
PROPERTIES
    PlanCompletes
