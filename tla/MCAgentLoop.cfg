SPECIFICATION Spec
CONSTANTS
    Branch = {b1, b2}
    County = {c1, c2}
    District = {d1, d2}
    c1 = c1
    c2 = c2
    d1 = d1
    d2 = d2
    None = None
    Utterance <- Utterances
    Window = 2
    MaxSteps = 2
    MaxCalls = 2
    MaxTexts = 3
SYMMETRY Symmetry
INVARIANTS
    TypeOK
    MemoryMatchesRecord
PROPERTIES
    AdoptedDistrictIsTheLastCaptured
    TurnAsPromised
CHECK_DEADLOCK FALSE
