SPECIFICATION Spec
CONSTANTS
    NoState = NoState
    MaxDeploys = 2
    MaxFaults = 1
    MaxOutside = 1
INVARIANTS
    TypeOK
    PassedMeansGone
    SmoothCleanupLeavesNothing
PROPERTIES
    OwnResourcesOnly
CHECK_DEADLOCK FALSE
