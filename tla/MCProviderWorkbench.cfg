SPECIFICATION Spec
CONSTANTS
    Case = {c1, c2}
    Provider = {p1, p2}
    None = None
    MaxFailures = 1
SYMMETRY Symmetry
INVARIANTS
    TypeOK
    ImageIsOfTheCaseShown
    DecisionIsForTheCaseShown
