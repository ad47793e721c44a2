SPECIFICATION FairSpec
CONSTANTS
    NoPipe = NoPipe
    Campaigns = {c1}
    NoMessenger = {}
    Broken = {}
    Targets = {"draft", "scheduled", "running", "paused", "finished", "cancelled"}
    MaxSub = 2
    Workers = {w1}
    Requests = {r1}
    PipeIds = {p1, p2}
    BatchSize = 1
    MsgCap = 2
    NextCap = 1
    MaxSendErrors = 1
    InitStatus <- OneScheduled
    InitTimed = {c1}
    Outside = {"request", "edit", "delete", "test", "sendfail", "fault", "crash"}
    MaxEvents = 1
PROPERTIES EveryPipeEnds RunningSettles
