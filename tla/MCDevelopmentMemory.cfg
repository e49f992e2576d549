CONSTANTS
    MaxKills = 3
    MaxErrors = 1
    MaxForeign = 1
SPECIFICATION FairSpec
INVARIANTS
    GraduationIsEarned
    ChainIsOne
PROPERTIES
    ProofsFollow
    MemoryStands
CHECK_DEADLOCK FALSE
