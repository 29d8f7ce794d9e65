SPECIFICATION FairSpec
CONSTANTS
    Item = {i1, i2}
    None = None
    Media = {TRUE, FALSE}
    MaxSessions = 2
    MaxEdits = 3
    MaxPolls = 2
    MaxFailures = 2
    MaxAge = 3
INVARIANTS
    TypeOK
    SettledPageIsCurrent
PROPERTIES
    CoordinatedNeverOlder
    DecisionReachesPage
CHECK_DEADLOCK FALSE
