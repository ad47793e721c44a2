SPECIFICATION Spec
CONSTANTS
    NoPipe = NoPipe
    Campaigns = {c1}
    NoMessenger = {}
    Broken = {}
    Targets = {"draft", "scheduled", "running", "paused", "finished", "cancelled"}
    MaxSub = 2
    Workers = {w1}
    Requests = {r1}
    PipeIds = {p1, p2}
    BatchSize = 2
    MsgCap = 2
    NextCap = 1
    MaxSendErrors = 1
    InitStatus <- AllRunning
    InitTimed = {}
    Outside = {"sendfail"}
    MaxEvents = 1
INVARIANT ThresholdPauses
