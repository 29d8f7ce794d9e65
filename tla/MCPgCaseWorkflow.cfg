SPECIFICATION FairSpec
CONSTANTS
    Worker = {w1, w2}
    Session = {s1}
    Provider = {p1}
    Key = {k1, k2, k3}
    Start = {2}
    CaseId = {1}
    MaxNow = 1
    MaxCalls = 3
    NoRecord = NoRecord
INVARIANTS
    TypeOK
    ChecksHoldUntilCommit
    TornReadsAreSafe
    NoDeadlock
PROPERTIES
    AtomicSpec
    EveryCallEnds
