SPECIFICATION Spec
CONSTANTS
    Session = {s1, s2}
    Provider = {p1, p2}
    Key = {k1, k2, k3, k4}
    Start = {1, 2}
    CaseId = {1, 2}
    MaxNow = 1
    Lag = 0
    NoRecord = NoRecord
SYMMETRY Symmetry
INVARIANTS
    TypeOK
    OneActiveCasePerSession
    OneCasePerProvider
    ActiveCaseIsLatest
    HistoryMatchesStatus
    WrittenOnce
    ContactDisclosure
PROPERTIES
    DecisionsAreFinal
