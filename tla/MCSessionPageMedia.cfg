SPECIFICATION Spec
CONSTANTS
    Item = {i1, i2}
    None = None
    Media = {TRUE}
    MaxSessions = 1
    MaxEdits = 2
    MaxPolls = 1
    MaxFailures = 0
    MaxAge = 3
SYMMETRY Symmetry
PROPERTIES
    NeverOlder
CHECK_DEADLOCK FALSE
