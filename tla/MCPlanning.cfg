CONSTANTS
    Paths <- MCPaths
    Trusted <- MCTrusted
    Protected <- MCProtected
    MinTasks = 1
    MaxTasks = 2
    MaxPaths = 2
    Groups = {key, ref}
    Cron = ref
    First = 1
    MaxRequests = 3
    Proposals <- MCProposals
    Known <- MCKnown
    StepLists <- MCStepLists
    MaxAttempts = 2
    OffMain = {}
    MaxFaults = 1
SPECIFICATION FairPlanningSpec
PROPERTIES
    PlanningConsistent
    NothingIsDisplaced
    GoalsAreServed
CHECK_DEADLOCK FALSE
