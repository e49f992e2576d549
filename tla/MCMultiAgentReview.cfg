SPECIFICATION Spec
CONSTANTS
    MaxHeads = 2
    MaxRounds = 2
    MaxKills = 2
    MaxQuotas = 1
    MaxDispatches = 2
    None = None
CHECK_DEADLOCK FALSE
INVARIANTS
    ClearanceIsEarned
    GraduatedAsReviewed
    SessionsAccounted
PROPERTIES
    ReviewSettles
