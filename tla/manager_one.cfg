SPECIFICATION Spec
CONSTANTS
    NoPipe = NoPipe
    Campaigns = {c1}
    NoMessenger = {}
    Broken = {}
    Targets = {"draft", "scheduled", "running", "paused", "finished", "cancelled"}
    MaxSub = 2
    Workers = {w1, w2}
    Requests = {r1}
    PipeIds = {p1, p2, p3}
    BatchSize = 1
    MsgCap = 2
    NextCap = 1
    MaxSendErrors = 1
    InitStatus <- AllRunning
    InitTimed = {}
    Outside = {"request", "edit", "delete", "test", "churn", "sendfail", "renderfail", "fault", "crash"}
    MaxEvents = 1
SYMMETRY Symmetry
VIEW View
INVARIANTS WaitGroupExact CleanupAfterDrain OnePipePerCampaign CheckpointNotSkipped QuietWithoutPipes
PROPERTY PipesDrain
