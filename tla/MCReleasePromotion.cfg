SPECIFICATION Spec
CONSTANTS
    Sources = {c1, c2}
    c1 = c1
    c2 = c2
    Nobody = Nobody
    MaxVersions = 2
    Stages = 2
    MaxRegistries = 2
    MaxRequests = 3
SYMMETRY Commits
INVARIANTS
    DeployedOnceAsApproved
    VerdictNamesItsDeployment
PROPERTIES
    NothingGoesBack
CHECK_DEADLOCK FALSE
