CONSTANTS
    a = a
    b = b
    c = c
    d = d
    x = x
    w1 = w1
    w2 = w2
    NoTask = NoTask
    Gate = Gate
    MainWorker = w1
    First = a
    Task = {a, b}
    Managed = {a, b}
    CampaignTask = {a, b}
    Deps <- TwinDeps
    Rank <- PairRank
    Fifo <- NoQueue
    Worker = {w1, w2}
    Targets = {"external", "self"}
    Budget <- DefaultBudget
    RepeatLimit = 3
    MaxRed = 5
    MaxCrash = 1
    MaxLost = 0
SPECIFICATION Spec
INVARIANTS
    RecoveryCounted
PROPERTIES
    GraphImplementsDag
    CompletionsStand
CHECK_DEADLOCK FALSE
