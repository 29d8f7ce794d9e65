SPECIFICATION Spec
CONSTANTS
    Branch = {b1, b2}
    Location = {l1, l2}
    Answer = {a1}
    Provider = {p1}
    Key = {k1, k2}
    Start = {1}
    CaseId = {1}
    MaxNow = 1
    NoRecord = NoRecord
    ChecklistKey = {"consultation"}
    None = None
    MaxTask = 2
    MaxId = 2
    MaxMedia = 1
SYMMETRY Symmetry
INVARIANTS
    TypeOK
    SentAsApproved
    SummaryIsWhatWasSaved
    CaseImageKept
PROPERTIES
    SafetyStopHolds
    DispatchedFormIsFrozen
