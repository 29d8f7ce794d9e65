SPECIFICATION Spec
CONSTANTS
    NoState = NoState
    MaxDeploys = 2
    MaxFaults = 0
    MaxOutside = 0
PROPERTIES
    StateFileKeepsIdentifiers
CHECK_DEADLOCK FALSE
