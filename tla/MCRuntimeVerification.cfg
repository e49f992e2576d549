CONSTANTS
    N = 2
    MaxProfile = 1
    MaxFault = 1
    MaxCrash = 2
    MaxLost = 1
SPECIFICATION FairSpec
INVARIANTS
    VerdictsStand
    HumanWaitHolds
PROPERTIES
    ArmedIsServed
CHECK_DEADLOCK FALSE
