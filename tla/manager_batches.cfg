SPECIFICATION Spec
CONSTANTS
    NoPipe = NoPipe
    Campaigns = {c1, c2, c3}
    NoMessenger = {c2}
    Broken = {c3}
    Targets = {"draft", "scheduled", "running", "paused", "finished", "cancelled"}
    MaxSub = 4
    Workers = {w1}
    Requests = {r1}
    PipeIds = {p1, p2}
    BatchSize = 3
    MsgCap = 2
    NextCap = 1
    MaxSendErrors = 1
    InitStatus <- OneScheduled
    InitTimed = {c1}
    Outside = {"request", "edit", "test", "sendfail"}
    MaxEvents = 1
SYMMETRY Symmetry
VIEW View
INVARIANTS FetchedOnceInOrder UndisturbedExactlyOnce FewLateMessages
