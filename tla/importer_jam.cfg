SPECIFICATION FairSpec
CONSTANTS
    Sessions = {s1, s2}
    NoSession = NoSession
    Requests = {r1, r2}
    Files <- OneFile
    CommitBatchSize = 2
    MaxStops = 1
    MaxFaults = 0
PROPERTY StopReturns
CHECK_DEADLOCK FALSE
