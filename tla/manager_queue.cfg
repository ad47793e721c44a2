SPECIFICATION Spec
CONSTANTS
    NoPipe = NoPipe
    Campaigns = {c1, c2}
    NoMessenger = {}
    Broken = {}
    Targets = {"draft", "scheduled", "running", "paused", "finished", "cancelled"}
    MaxSub = 1
    Workers = {w1}
    Requests = {r1}
    PipeIds = {p1, p2, p3}
    BatchSize = 1
    MsgCap = 2
    NextCap = 1
    MaxSendErrors = 1
    InitStatus <- AllRunning
    InitTimed = {}
    Outside = {}
    MaxEvents = 0
SYMMETRY Symmetry
VIEW View
INVARIANTS WaitGroupExact TypeOK
