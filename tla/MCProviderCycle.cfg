CONSTANTS
    TTL = 2
    JobTime = 1
    MaxRetries = 1
    MaxSession = 4
    MaxFault = 2
    MaxCrash = 1
    MaxDuplicate = 1
SPECIFICATION FairCycleSpec
INVARIANTS
    SessionsAreAccountedFor
PROPERTIES
    RecordsHold
    Settles
CHECK_DEADLOCK FALSE
