SPECIFICATION FairLoopSpec
CONSTANTS
    Signals = {1, 2, 3, 4, 5, 6, 7}
    About <- MCAbout
    MaxGeneration = 2
    MaxCycles = 2
    MaxKills = 1
CHECK_DEADLOCK FALSE
INVARIANTS
    LoopConsistent
PROPERTIES
    CyclesComplete
    LoopGoesForward
