CONSTANTS
    a = a
    b = b
    c = c
    d = d
    x = x
    w1 = w1
    w2 = w2
    NoTask = NoTask
    Gate = Gate
    MainWorker = w1
    First = a
    Task = {a, b, c, d, x}
    Managed = {a, b, c, d}
    CampaignTask = {a, b, c, d}
    Deps <- PlanDeps
    Rank <- PlanRank
    Fifo <- QueueX
    Worker = {w1}
    Targets = {"external", "self"}
    Budget <- DefaultBudget
    RepeatLimit = 3
    MaxRed = 1
    MaxCrash = 2
    MaxLost = 1
SPECIFICATION FairSpec
INVARIANTS
    FilesInStep
PROPERTIES
    NoTaskIsLost
    AllDone
CHECK_DEADLOCK FALSE
