SPECIFICATION Spec
CONSTANTS
    Sessions = {s1, s2}
    NoSession = NoSession
    Requests = {r1, r2}
    Files <- GoodAndBad
    CommitBatchSize = 2
    MaxStops = 2
    MaxFaults = 1
INVARIANTS TypeOK CommittedOnceInOrder EndedHasAll ShownIsStored StopsOneAtMost
SYMMETRY Symmetry
CHECK_DEADLOCK FALSE
