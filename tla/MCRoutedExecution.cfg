CONSTANTS
    Providers <- ProvidersDef
    Descriptors <- DescriptorsDef
    Request <- RequestDef
    Reusers = {1}
    MaxRetries = 1
    MaxReplans = 1
    Upserts <- UpsertsDef
    MaxTime = 1
    MaxChanges = 1
    MaxFaults = 1
    MaxKills = 2
    None = None
SPECIFICATION FairSpec
INVARIANTS
    RecordsAreTrue
    SessionsAreExplained
PROPERTIES
    TaskEndsOnce
CHECK_DEADLOCK FALSE
