SPECIFICATION FairSpec
CONSTANTS
    Sessions = {s1, s2}
    NoSession = NoSession
    Requests = {r1}
    Files <- LongAndEmpty
    CommitBatchSize = 2
    MaxStops = 2
    MaxFaults = 1
CHECK_DEADLOCK FALSE
PROPERTIES EverySessionEnds ImportingPasses
