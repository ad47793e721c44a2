--------------------------- MODULE CampaignManager ---------------------------
(***************************************************************************)
(* The campaign engine (internal/manager/{manager,pipe}.go), the database  *)
(* rows it shares with the HTTP handlers (queries/campaigns.sql,           *)
(* cmd/manager_store.go) and the handlers that change a campaign's status  *)
(* (cmd/campaigns.go, internal/core/campaigns.go).                         *)
(*                                                                         *)
(* One goroutine scans the database for campaigns and opens a "pipe" for   *)
(* each; one goroutine (Run) pops pipes, fetches the next batch of         *)
(* subscribers, queues a message for each and queues the pipe again; a     *)
(* pool of workers sends the messages; one goroutine per pipe waits for    *)
(* the pipe's WaitGroup to drain and then records the outcome (cleanup).   *)
(* Every access to shared state is a step of its own wherever another      *)
(* goroutine can come in between; one SQL statement is one step.           *)
(*                                                                         *)
(* A subscriber is its numeric id, which is what batches are ordered by.   *)
(***************************************************************************)
EXTENDS Integers, FiniteSets, Sequences

CONSTANTS
    Campaigns,      \* rows of the campaigns table
    NoMessenger,    \* campaigns whose messenger is not registered
    Broken,         \* campaigns whose template or media fail to load
    MaxSub,         \* subscriber ids are 1..MaxSub
    Workers,        \* worker goroutines (cfg.Concurrency)
    Requests,       \* HTTP requests that can be in progress at once
    PipeIds,        \* identities for pipe objects in memory
    NoPipe,         \* a nil *pipe
    BatchSize,      \* cfg.BatchSize
    MsgCap,         \* capacity of campMsgQ
    NextCap,        \* capacity of nextPipes
    MaxSendErrors,  \* cfg.MaxSendErrors, 0 = never pause
    InitStatus,     \* the status each row starts with
    InitTimed,      \* rows that start with a send_at
    Targets,        \* the statuses that requests ask for
    Outside,        \* the kinds of outside events that happen
    MaxEvents       \* bound on the number of outside events

Subs == 1 .. MaxSub
Statuses == {"draft", "scheduled", "running", "paused", "finished", "cancelled"}
Deleted == "deleted"            \* the row is gone
Events == {"request", "edit", "delete", "test", "churn", "sendfail", "renderfail", "fault", "crash"}

ASSUME CapAssumption ==
    /\ MaxSub \in Nat
    /\ BatchSize \in Nat \ {0}
    /\ MsgCap \in Nat \ {0}
    /\ NextCap \in Nat \ {0}
    /\ MaxSendErrors \in Nat
    /\ NoPipe \notin PipeIds
ASSUME SetAssumption ==
    /\ Campaigns # {}
    /\ IsFiniteSet(PipeIds)
    /\ IsFiniteSet(Workers)
    /\ NoMessenger \subseteq Campaigns
    /\ Broken \subseteq Campaigns
    /\ InitTimed \subseteq Campaigns
    /\ InitStatus \in [Campaigns -> Statuses]
    /\ Targets \subseteq Statuses
    /\ Outside \subseteq Events
    /\ MaxEvents \in Nat

VARIABLES
    \* --- the database ---
    status,     \* campaigns.status
    timed,      \* rows with a send_at
    due,        \* rows whose send_at has passed
    last,       \* campaigns.last_subscriber_id, the checkpoint
    maxID,      \* campaigns.max_subscriber_id
    sentDB,     \* campaigns.sent
    audience,   \* who the fetch query would accept now, per campaign
    \* --- Manager ---
    pipes,      \* m.pipes
    nextPipes,  \* m.nextPipes
    campMsgQ,   \* m.campMsgQ, messages [pipe, camp, sub]
    \* --- pipe objects ---
    camp, wg, sent, lastID, errors, stopped, withErrors,
    stage,      \* where the pipe's wait-and-cleanup goroutine is
    \* --- the Run goroutine ---
    runPc, runPipe, runFrom, runTo, runBatch,
    \* --- the scanCampaigns goroutine ---
    scanPc, scanIds, scanTodo, scanCur, scanCount, scanList,
    \* --- worker goroutines ---
    wpc, wmsg,
    \* --- HTTP requests ---
    reqPc, reqCamp, reqTo,
    \* --- history, read by properties only ---
    delivered,  \* messages of a campaign accepted by the messenger, per subscriber
    failed,     \* <<campaign, subscriber>> whose message failed to render or to send
    late,       \* messages a pipe sent after it was stopped
    disturbed,  \* campaigns someone or something interfered with
    used        \* outside events so far

db == <<status, timed, due, last, maxID, sentDB, audience>>
mgr == <<pipes, nextPipes, campMsgQ>>
obj == <<camp, wg, sent, lastID, errors, stopped, withErrors, stage>>
runVars == <<runPc, runPipe, runFrom, runTo, runBatch>>
scanVars == <<scanPc, scanIds, scanTodo, scanCur, scanCount, scanList>>
workVars == <<wpc, wmsg>>
reqVars == <<reqPc, reqCamp, reqTo>>
hist == <<delivered, failed, late, disturbed, used>>
vars == <<db, mgr, obj, runVars, scanVars, workVars, reqVars, hist>>

Messages == [pipe : PipeIds \cup {NoPipe}, camp : Campaigns, sub : Subs]
NoMsg == [pipe |-> NoPipe, camp |-> NoPipe, sub |-> 0]

RunPcs == {"idle", "batch", "new", "send"}
ScanPcs == {"idle", "count", "reset", "query", "start"}
WorkerPcs == {"idle", "check", "push", "doneOk", "doneErr", "onError", "load", "store", "add"}
Stages == {"free", "open", "checkErrors", "pausing", "checkStopped", "load", "finishing", "remove"}

MaxOf(S) == CHOOSE x \in S : \A y \in S : y <= x
MinOf(S) == CHOOSE x \in S : \A y \in S : x <= y
FirstOf(S, n) == {x \in S : Cardinality({y \in S : y < x}) < n}

Spend(e) == e \in Outside /\ used < MaxEvents /\ used' = used + 1

\* A pipe object is garbage, and its identity free again, when its goroutine has
\* ended and no worker refers to it.
FreePipes == {p \in PipeIds : stage[p] = "free" /\ \A w \in Workers : wmsg[w].pipe # p}

-----------------------------------------------------------------------------
(* The statements that change a campaign's row.                            *)

\* update-campaign-status: a campaign with a send_at that is told to run is
\* scheduled instead; a missing row is left missing.
StatusAfter(c, to) ==
    IF status[c] = Deleted THEN Deleted
    ELSE IF c \in timed /\ to = "running" THEN "scheduled" ELSE to
SetStatus(c, to) == status' = [status EXCEPT ![c] = StatusAfter(c, to)]

\* update-campaign-counts
AddCounts(c, n, id) ==
    IF status[c] = Deleted THEN UNCHANGED <<sentDB, last>>
    ELSE /\ sentDB' = [sentDB EXCEPT ![c] = @ + n]
         /\ last' = [last EXCEPT ![c] = IF id > 0 THEN id ELSE @]

\* Room in a bounded channel.
RoomForOneMore(q, n) == Len(q) <= n     \* variant: off by one
Room(q, n) == Len(q) < n

\* The pipe object's methods. Stop on a pipe that is already stopped does nothing.
Stop(p, withErr) ==
    /\ withErrors' = [withErrors EXCEPT ![p] = @ \/ (withErr /\ ~stopped[p])]
    /\ stopped' = [stopped EXCEPT ![p] = TRUE]
    /\ disturbed' = disturbed \cup {camp[p]}
Keep(p) == UNCHANGED wg             \* variant: Done is forgotten
Done(p) == wg' = [wg EXCEPT ![p] = @ - 1]
Uncounted(p) == UNCHANGED wg        \* variant: newMessage does not count its message
Add(p) == wg' = [wg EXCEPT ![p] = @ + 1]

\* Run gives up on a pipe.
ReleaseTwice(p) ==                  \* variant: Run goes on to the release for "no more"
    Stop(p, FALSE) /\ wg' = [wg EXCEPT ![p] = @ - 2]
Release(p) == Stop(p, FALSE) /\ Done(p)

-----------------------------------------------------------------------------
Init ==
    /\ status = InitStatus
    /\ timed = InitTimed
    /\ due = {}
    /\ last = [c \in Campaigns |-> 0]
    /\ maxID = [c \in Campaigns |-> 0]
    /\ sentDB = [c \in Campaigns |-> 0]
    /\ audience = [c \in Campaigns |-> Subs]
    /\ pipes = [c \in Campaigns |-> NoPipe]
    /\ nextPipes = <<>>
    /\ campMsgQ = <<>>
    /\ camp = [p \in PipeIds |-> CHOOSE c \in Campaigns : TRUE]
    /\ wg = [p \in PipeIds |-> 0]
    /\ sent = [p \in PipeIds |-> 0]
    /\ lastID = [p \in PipeIds |-> 0]
    /\ errors = [p \in PipeIds |-> 0]
    /\ stopped = [p \in PipeIds |-> FALSE]
    /\ withErrors = [p \in PipeIds |-> FALSE]
    /\ stage = [p \in PipeIds |-> "free"]
    /\ runPc = "idle" /\ runPipe = NoPipe /\ runFrom = 0 /\ runTo = 0 /\ runBatch = {}
    /\ scanPc = "idle" /\ scanIds = {} /\ scanTodo = {} /\ scanList = {}
    /\ scanCur = NoPipe /\ scanCount = [c \in Campaigns |-> 0]
    /\ wpc = [w \in Workers |-> "idle"]
    /\ wmsg = [w \in Workers |-> NoMsg]
    /\ reqPc = [r \in Requests |-> "idle"]
    /\ reqCamp = [r \in Requests |-> CHOOSE c \in Campaigns : TRUE]
    /\ reqTo = [r \in Requests |-> "draft"]
    /\ delivered = [c \in Campaigns |-> [s \in Subs |-> 0]]
    /\ failed = {}
    /\ late = [p \in PipeIds |-> 0]
    /\ disturbed = {}
    /\ used = 0

-----------------------------------------------------------------------------
(* scanCampaigns: on every tick collect and reset the counts of the live   *)
(* pipes, ask the database for campaigns to run, and open a pipe for each. *)

\* getCurrentCampaigns takes the read lock: no pipe leaves m.pipes until the
\* scanner has been through all of them.
ScanTick ==
    /\ scanPc = "idle"
    /\ scanIds' = {c \in Campaigns : pipes[c] # NoPipe}
    /\ scanTodo' = scanIds'
    /\ scanCount' = [c \in Campaigns |-> 0]
    /\ scanPc' = IF scanIds' = {} THEN "query" ELSE "count"
    /\ UNCHANGED <<db, mgr, obj, runVars, scanCur, scanList, workVars, reqVars, hist>>

ScanLoad ==
    /\ scanPc = "count"
    /\ \E c \in scanTodo :
        /\ scanCur' = c
        /\ scanCount' = [scanCount EXCEPT ![c] = sent[pipes[c]]]
    /\ scanPc' = "reset"
    /\ UNCHANGED <<db, mgr, obj, runVars, scanIds, scanTodo, scanList, workVars, reqVars, hist>>

ScanReset ==
    /\ scanPc = "reset"
    /\ sent' = [sent EXCEPT ![pipes[scanCur]] = 0]
    /\ scanTodo' = scanTodo \ {scanCur}
    /\ scanCur' = NoPipe
    /\ scanPc' = IF scanTodo' = {} THEN "query" ELSE "count"
    /\ UNCHANGED <<db, mgr, camp, wg, lastID, errors, stopped, withErrors, stage, runVars,
                   scanIds, scanCount, scanList, workVars, reqVars, hist>>

\* next-campaigns: running campaigns, and scheduled ones that are due, that are
\* not in ids. A campaign somebody is eligible for is set to running and gets its
\* upper subscriber id; one without subscribers is returned as it is.
PickedAgain == {c \in Campaigns :   \* variant: live campaigns are not left out
              status[c] = "running" \/ (status[c] = "scheduled" /\ c \in due)}
Picked == {c \in Campaigns \ scanIds :
              status[c] = "running" \/ (status[c] = "scheduled" /\ c \in due)}
ScanQuery ==
    /\ scanPc = "query"
    /\ LET fill == {c \in Picked : audience[c] # {}} IN
        /\ status' = [c \in Campaigns |-> IF c \in fill THEN "running" ELSE status[c]]
        /\ maxID' = [c \in Campaigns |-> IF c \in fill THEN MaxOf(audience[c]) ELSE maxID[c]]
        /\ sentDB' = [c \in Campaigns |->
               IF status[c] = Deleted THEN sentDB[c] ELSE sentDB[c] + scanCount[c]]
    /\ scanList' = Picked
    /\ scanIds' = {}
    /\ scanCount' = [c \in Campaigns |-> 0]
    /\ scanPc' = IF Picked = {} THEN "idle" ELSE "start"
    /\ UNCHANGED <<timed, due, last, audience, mgr, obj, runVars, scanTodo, scanCur,
                   workVars, reqVars, hist>>

\* The statement fails: the counts that were reset are gone.
ScanQueryFails ==
    /\ scanPc = "query"
    /\ Spend("fault")
    /\ scanPc' = "idle"
    /\ scanIds' = {}
    /\ scanCount' = [c \in Campaigns |-> 0]
    /\ UNCHANGED <<db, mgr, obj, runVars, scanTodo, scanCur, scanList, workVars, reqVars,
                   delivered, failed, late, disturbed>>

ScanNext(c) ==
    /\ scanPc = "start"
    /\ c \in scanList
    /\ scanList' = scanList \ {c}
    /\ scanPc' = IF scanList' = {} THEN "idle" ELSE "start"
    /\ UNCHANGED <<scanIds, scanTodo, scanCur, scanCount>>

\* newPipe refuses the campaign: with no messenger it is cancelled, with a broken
\* template or attachment it is left as it is.
ScanRefuse(c) ==
    /\ ScanNext(c)
    /\ c \in NoMessenger \cup Broken
    /\ IF c \in NoMessenger THEN SetStatus(c, "cancelled") ELSE UNCHANGED status
    /\ UNCHANGED <<timed, due, last, maxID, sentDB, audience, mgr, obj, runVars, workVars,
                   reqVars, hist>>

NoFirstCount(full) == 0             \* variant: newPipe does not count itself
CountAnyway(full) == 1              \* variant: a pipe that is not queued is not released
FirstCount(full) == IF full THEN 0 ELSE 1

\* newPipe and the push to nextPipes: the WaitGroup starts at one; when the
\* queue is full the pipe is stopped and that one released at once.
ScanStart(c) ==
    /\ ScanNext(c)
    /\ c \notin NoMessenger \cup Broken
    /\ \E p \in FreePipes :
        LET full == ~Room(nextPipes, NextCap) IN
        /\ camp' = [camp EXCEPT ![p] = c]
        /\ sent' = [sent EXCEPT ![p] = 0]
        /\ lastID' = [lastID EXCEPT ![p] = 0]
        /\ errors' = [errors EXCEPT ![p] = 0]
        /\ withErrors' = [withErrors EXCEPT ![p] = FALSE]
        /\ stage' = [stage EXCEPT ![p] = "open"]
        /\ late' = [late EXCEPT ![p] = 0]
        /\ pipes' = [pipes EXCEPT ![c] = p]
        /\ stopped' = [stopped EXCEPT ![p] = full]
        /\ wg' = [wg EXCEPT ![p] = FirstCount(full)]
        /\ nextPipes' = IF full THEN nextPipes ELSE Append(nextPipes, p)
        /\ disturbed' = IF full THEN disturbed \cup {c} ELSE disturbed
    /\ UNCHANGED <<db, campMsgQ, runVars, workVars, reqVars, delivered, failed, used>>

-----------------------------------------------------------------------------
(* Run: pop a pipe, fetch a batch, queue its messages, queue the pipe.     *)

RunStay == UNCHANGED <<runFrom, runTo, runBatch>>

\* NextSubscribers, first statement (get-running-campaign): the checkpoint and
\* the upper id of the campaign, if it is running. If not, the pipe is released.
RunPop ==
    /\ runPc = "idle"
    /\ nextPipes # <<>>
    /\ LET p == Head(nextPipes)
           running == status[camp[p]] = "running"
       IN  /\ runPc' = IF running THEN "batch" ELSE "idle"
           /\ runPipe' = IF running THEN p ELSE NoPipe
           /\ runFrom' = IF running THEN last[camp[p]] ELSE 0
           /\ runTo' = IF running THEN maxID[camp[p]] ELSE 0
           /\ IF running THEN UNCHANGED wg ELSE Done(p)
    /\ nextPipes' = Tail(nextPipes)
    /\ UNCHANGED <<db, pipes, campMsgQ, camp, sent, lastID, errors, stopped, withErrors, stage,
                   runBatch, scanVars, workVars, reqVars, hist>>

\* Second statement (next-campaign-subscribers): the next BatchSize eligible ids
\* above the checkpoint read before; the checkpoint moves to the last of them.
BatchFromCheckpoint ==              \* variant: >= the checkpoint instead of >
    IF status[camp[runPipe]] = Deleted THEN {}
    ELSE FirstOf({s \in audience[camp[runPipe]] : runFrom <= s /\ s <= runTo}, BatchSize)
Batch == IF status[camp[runPipe]] = Deleted THEN {}
         ELSE FirstOf({s \in audience[camp[runPipe]] : runFrom < s /\ s <= runTo}, BatchSize)
NoCheckpoint(c, ids) == UNCHANGED last      \* variant: the checkpoint is not moved
CheckpointAtEnd(c, ids) == last' = [last EXCEPT ![c] = runTo]   \* variant: moved to the end
Checkpoint(c, ids) == last' = [last EXCEPT ![c] = MaxOf(ids)]
RunFetch ==
    /\ runPc = "batch"
    /\ IF Batch = {}
       THEN /\ Done(runPipe)
            /\ runPc' = "idle" /\ runPipe' = NoPipe /\ runBatch' = {}
            /\ UNCHANGED last
       ELSE /\ Checkpoint(camp[runPipe], Batch)
            /\ runPc' = "new" /\ runBatch' = Batch
            /\ UNCHANGED <<runPipe, wg>>
    /\ runFrom' = 0 /\ runTo' = 0
    /\ UNCHANGED <<status, timed, due, maxID, sentDB, audience, mgr, camp, sent, lastID, errors,
                   stopped, withErrors, stage, scanVars, workVars, reqVars, hist>>

\* Either statement fails: Run stops the pipe and releases it.
RunFetchFails ==
    /\ Spend("fault")
    /\ \/ /\ runPc = "idle" /\ nextPipes # <<>>
          /\ Release(Head(nextPipes))
          /\ nextPipes' = Tail(nextPipes)
       \/ /\ runPc = "batch"
          /\ Release(runPipe)
          /\ UNCHANGED nextPipes
    /\ runPc' = "idle" /\ runPipe' = NoPipe /\ runFrom' = 0 /\ runTo' = 0
    /\ UNCHANGED <<db, pipes, campMsgQ, camp, sent, lastID, errors, stage, runBatch, scanVars,
                   workVars, reqVars, delivered, failed, late>>

\* newMessage for the next subscriber of the batch: counted on the WaitGroup
\* before it waits for room in the queue.
RunNewMessage ==
    /\ runPc = "new"
    /\ runBatch # {}
    /\ Add(runPipe)
    /\ runPc' = "send"
    /\ UNCHANGED <<db, mgr, camp, sent, lastID, errors, stopped, withErrors, stage, runPipe,
                   runFrom, runTo, runBatch, scanVars, workVars, reqVars, hist>>

\* The message fails to render: the subscriber is passed over.
RunRenderFails ==
    /\ runPc = "new"
    /\ runBatch # {}
    /\ Spend("renderfail")
    /\ runBatch' = runBatch \ {MinOf(runBatch)}
    /\ failed' = failed \cup {<<camp[runPipe], MinOf(runBatch)>>}
    /\ UNCHANGED <<db, mgr, obj, runPc, runPipe, runFrom, runTo, scanVars, workVars, reqVars,
                   delivered, late, disturbed>>

RunSend ==
    /\ runPc = "send"
    /\ Room(campMsgQ, MsgCap)
    /\ campMsgQ' = Append(campMsgQ,
           [pipe |-> runPipe, camp |-> camp[runPipe], sub |-> MinOf(runBatch)])
    /\ runBatch' = runBatch \ {MinOf(runBatch)}
    /\ runPc' = "new"
    /\ UNCHANGED <<db, pipes, nextPipes, obj, runPipe, runFrom, runTo, scanVars, workVars,
                   reqVars, hist>>

\* The batch is queued: queue the pipe for its next batch, or, when nextPipes is
\* full, stop it and release it.
RunRequeue ==
    /\ runPc = "new"
    /\ runBatch = {}
    /\ IF Room(nextPipes, NextCap)
       THEN /\ nextPipes' = Append(nextPipes, runPipe)
            /\ UNCHANGED <<wg, stopped, withErrors, disturbed>>
       ELSE /\ Release(runPipe)
            /\ UNCHANGED nextPipes
    /\ runPc' = "idle" /\ runPipe' = NoPipe
    /\ RunStay
    /\ UNCHANGED <<db, pipes, campMsgQ, camp, sent, lastID, errors, stage, scanVars, workVars,
                   reqVars, delivered, failed, late, used>>

-----------------------------------------------------------------------------
(* worker: the campaign arm of its select. A message without a pipe is a   *)
(* test message of the campaign editor.                                    *)

Goto(w, pc) == wpc' = [wpc EXCEPT ![w] = pc]
Finish(w) == Goto(w, "idle") /\ wmsg' = [wmsg EXCEPT ![w] = NoMsg]

WorkerTake(w) ==
    /\ wpc[w] = "idle"
    /\ campMsgQ # <<>>
    /\ wmsg' = [wmsg EXCEPT ![w] = Head(campMsgQ)]
    /\ campMsgQ' = Tail(campMsgQ)
    /\ Goto(w, "check")
    /\ UNCHANGED <<db, pipes, nextPipes, obj, runVars, scanVars, reqVars, hist>>

Never(p) == FALSE                   \* variant: the worker does not look at stopped
Dropped(p) == p # NoPipe /\ stopped[p]

WorkerCheckSettles(w) ==            \* variant: a message is marked done before it is sent
    /\ wpc[w] = "check"
    /\ IF wmsg[w].pipe = NoPipe THEN UNCHANGED wg ELSE Done(wmsg[w].pipe)
    /\ Goto(w, "push")
    /\ UNCHANGED <<db, mgr, camp, sent, lastID, errors, stopped, withErrors, stage, runVars,
                   scanVars, wmsg, reqVars, hist>>

\* A message of a stopped pipe is dropped.
WorkerCheck(w) ==
    /\ wpc[w] = "check"
    /\ LET p == wmsg[w].pipe IN
        IF Dropped(p)
        THEN Done(p) /\ Finish(w)
        ELSE Goto(w, "push") /\ UNCHANGED <<wg, wmsg>>
    /\ UNCHANGED <<db, mgr, camp, sent, lastID, errors, stopped, withErrors, stage, runVars,
                   scanVars, reqVars, hist>>

\* The messenger's Push, which may take any time and succeed or fail.
WorkerPush(w) ==
    /\ wpc[w] = "push"
    /\ LET m == wmsg[w] IN
        /\ late' = IF m.pipe # NoPipe /\ stopped[m.pipe]
                   THEN [late EXCEPT ![m.pipe] = @ + 1] ELSE late
        /\ \/ /\ delivered' = IF m.pipe = NoPipe THEN delivered
                              ELSE [delivered EXCEPT ![m.camp][m.sub] = @ + 1]
              /\ Goto(w, "doneOk")
              /\ UNCHANGED <<failed, used>>
           \/ /\ Spend("sendfail")
              /\ failed' = IF m.pipe = NoPipe THEN failed ELSE failed \cup {<<m.camp, m.sub>>}
              /\ Goto(w, "doneErr")
              /\ UNCHANGED delivered
    /\ UNCHANGED <<db, mgr, obj, runVars, scanVars, wmsg, reqVars, disturbed>>

\* The message is marked done before its outcome is recorded.
WorkerDone(w) ==
    /\ wpc[w] \in {"doneOk", "doneErr"}
    /\ IF wmsg[w].pipe = NoPipe
       THEN Finish(w) /\ UNCHANGED wg
       ELSE /\ Done(wmsg[w].pipe)
            /\ Goto(w, IF wpc[w] = "doneOk" THEN "load" ELSE "onError")
            /\ UNCHANGED wmsg
    /\ UNCHANGED <<db, mgr, camp, sent, lastID, errors, stopped, withErrors, stage, runVars,
                   scanVars, reqVars, hist>>

\* pipe.OnError
WorkerOnError(w) ==
    /\ wpc[w] = "onError"
    /\ LET p == wmsg[w].pipe IN
        IF MaxSendErrors = 0
        THEN UNCHANGED <<errors, stopped, withErrors, disturbed>>
        ELSE /\ errors' = [errors EXCEPT ![p] = @ + 1]
             /\ IF errors[p] + 1 < MaxSendErrors
                THEN UNCHANGED <<stopped, withErrors, disturbed>>
                ELSE Stop(p, TRUE)
    /\ Finish(w)
    /\ UNCHANGED <<db, mgr, camp, wg, sent, lastID, stage, runVars, scanVars, reqVars,
                   delivered, failed, late, used>>

\* lastID is raised in two steps, a load and a store ...
WorkerLoad(w) ==
    /\ wpc[w] = "load"
    /\ Goto(w, IF wmsg[w].sub > lastID[wmsg[w].pipe] THEN "store" ELSE "add")
    /\ UNCHANGED <<db, mgr, obj, runVars, scanVars, wmsg, reqVars, hist>>

WorkerStore(w) ==
    /\ wpc[w] = "store"
    /\ lastID' = [lastID EXCEPT ![wmsg[w].pipe] = wmsg[w].sub]
    /\ Goto(w, "add")
    /\ UNCHANGED <<db, mgr, camp, wg, sent, errors, stopped, withErrors, stage, runVars, scanVars,
                   wmsg, reqVars, hist>>

\* ... and the sent count in one.
WorkerAdd(w) ==
    /\ wpc[w] = "add"
    /\ sent' = [sent EXCEPT ![wmsg[w].pipe] = @ + 1]
    /\ Finish(w)
    /\ UNCHANGED <<db, mgr, camp, wg, lastID, errors, stopped, withErrors, stage, runVars,
                   scanVars, reqVars, hist>>

-----------------------------------------------------------------------------
(* The goroutine of a pipe: wait for the WaitGroup, then cleanup().        *)

GoStage(p, st) == stage' = [stage EXCEPT ![p] = st]
StageOnly == UNCHANGED <<mgr, camp, wg, sent, lastID, errors, stopped, withErrors, runVars,
                         scanVars, workVars, reqVars, delivered, failed, late>>

CleanupCounts(p) ==
    /\ stage[p] = "open"
    /\ wg[p] = 0
    /\ GoStage(p, "checkErrors")
    /\ \/ AddCounts(camp[p], sent[p], lastID[p]) /\ UNCHANGED <<disturbed, used>>
       \/ Spend("fault") /\ disturbed' = disturbed \cup {camp[p]} /\ UNCHANGED <<sentDB, last>>
    /\ StageOnly
    /\ UNCHANGED <<status, timed, due, maxID, audience>>

CleanupCheckErrors(p) ==
    /\ stage[p] = "checkErrors"
    /\ GoStage(p, IF withErrors[p] THEN "pausing" ELSE "checkStopped")
    /\ StageOnly
    /\ UNCHANGED <<db, disturbed, used>>

CleanupCheckStopped(p) ==
    /\ stage[p] = "checkStopped"
    /\ GoStage(p, IF stopped[p] THEN "remove" ELSE "load")
    /\ StageOnly
    /\ UNCHANGED <<db, disturbed, used>>

Unfinished == {"running", "scheduled"}

\* GetCampaign: finish only what is running or scheduled in the database now. A
\* deleted row is an error, as is a failing statement.
CleanupLoad(p) ==
    /\ stage[p] = "load"
    /\ \/ /\ GoStage(p, IF status[camp[p]] \in Unfinished
                        THEN "finishing" ELSE "remove")
          /\ UNCHANGED <<disturbed, used>>
       \/ /\ Spend("fault")
          /\ GoStage(p, "remove")
          /\ disturbed' = disturbed \cup {camp[p]}
    /\ StageOnly
    /\ UNCHANGED db

\* The status cleanup decided on, written whatever the status is by now.
CleanupWrite(p) ==
    /\ stage[p] \in {"pausing", "finishing"}
    /\ GoStage(p, "remove")
    /\ \/ /\ SetStatus(camp[p], IF stage[p] = "pausing" THEN "paused" ELSE "finished")
          /\ UNCHANGED <<disturbed, used>>
       \/ /\ Spend("fault")
          /\ disturbed' = disturbed \cup {camp[p]}
          /\ UNCHANGED status
    /\ StageOnly
    /\ UNCHANGED <<timed, due, last, maxID, sentDB, audience>>

\* The deferred delete from m.pipes, which waits for the scanner's read lock.
CleanupRemove(p) ==
    /\ stage[p] = "remove"
    /\ scanPc \notin {"count", "reset"}
    /\ pipes' = [pipes EXCEPT ![camp[p]] = NoPipe]
    /\ GoStage(p, "free")
    /\ UNCHANGED <<db, nextPipes, campMsgQ, camp, wg, sent, lastID, errors, stopped, withErrors,
                   runVars, scanVars, workVars, reqVars, hist>>

-----------------------------------------------------------------------------
(* HTTP requests.                                                          *)

\* The transition table of core.UpdateCampaignStatus. A status the switch does
\* not name ("finished") is let through.
Allowed(c, to) ==
    CASE to = "draft"     -> status[c] = "scheduled"
      [] to = "scheduled" -> status[c] \in {"draft", "paused"} /\ c \in timed
      [] to = "running"   -> status[c] \in {"paused", "draft"}
      [] to = "paused"    -> status[c] = "running"
      [] to = "cancelled" -> status[c] \in {"running", "paused"}
      [] OTHER            -> TRUE

\* The request reads the campaign and checks the transition against what it read.
StatusCheck(r, c, to) ==
    /\ reqPc[r] = "idle"
    /\ status[c] # Deleted
    /\ Allowed(c, to)
    /\ Spend("request")
    /\ reqPc' = [reqPc EXCEPT ![r] = "write"]
    /\ reqCamp' = [reqCamp EXCEPT ![r] = c]
    /\ reqTo' = [reqTo EXCEPT ![r] = to]
    /\ UNCHANGED <<db, mgr, obj, runVars, scanVars, workVars, delivered, failed, late, disturbed>>

\* Starting a campaign for the first time is no interference with it.
FirstStart(c, to) == status[c] \in {"draft", "scheduled"} /\ to \in {"running", "scheduled"}

StatusWrite(r) ==
    /\ reqPc[r] = "write"
    /\ LET c == reqCamp[r]
           to == reqTo[r]
       IN  /\ SetStatus(c, to)
           /\ disturbed' = IF FirstStart(c, to) THEN disturbed ELSE disturbed \cup {c}
           /\ reqPc' = [reqPc EXCEPT ![r] =
                  IF status[c] # Deleted /\ to \in {"paused", "cancelled"} THEN "stop" ELSE "idle"]
    /\ UNCHANGED <<timed, due, last, maxID, sentDB, audience, mgr, obj, runVars, scanVars,
                   workVars, reqCamp, reqTo, delivered, failed, late, used>>

\* StopCampaign: stop the campaign's pipe, if there is one by now.
StatusStop(r) ==
    /\ reqPc[r] = "stop"
    /\ LET p == pipes[reqCamp[r]] IN
        IF p = NoPipe THEN UNCHANGED <<stopped, withErrors, disturbed>> ELSE Stop(p, FALSE)
    /\ reqPc' = [reqPc EXCEPT ![r] = "idle"]
    /\ UNCHANGED <<db, mgr, camp, wg, sent, lastID, errors, stage, runVars, scanVars, workVars,
                   reqCamp, reqTo, delivered, failed, late, used>>

\* UpdateCampaign: the status is checked first ...
EditCheck(r, c) ==
    /\ reqPc[r] = "idle"
    /\ status[c] \in {"draft", "paused", "scheduled"}
    /\ Spend("edit")
    /\ reqPc' = [reqPc EXCEPT ![r] = "edit"]
    /\ reqCamp' = [reqCamp EXCEPT ![r] = c]
    /\ UNCHANGED <<db, mgr, obj, runVars, scanVars, workVars, reqTo, delivered, failed, late,
                   disturbed>>

\* ... then update-campaign is run: without a send_at a scheduled campaign is a
\* draft again; a send_at is a new one, in the future.
EditWrite(r) ==
    /\ reqPc[r] = "edit"
    /\ LET c == reqCamp[r] IN
        /\ \E sendAt \in BOOLEAN :
            /\ timed' = IF sendAt THEN timed \cup {c} ELSE timed \ {c}
            /\ status' = [status EXCEPT ![c] =
                   IF @ = "scheduled" /\ ~sendAt THEN "draft" ELSE @]
        /\ due' = due \ {c}
        /\ disturbed' = disturbed \cup {c}
    /\ reqPc' = [reqPc EXCEPT ![r] = "idle"]
    /\ UNCHANGED <<last, maxID, sentDB, audience, mgr, obj, runVars, scanVars, workVars, reqCamp,
                   reqTo, delivered, failed, late, used>>

\* DeleteCampaign: whatever its status, and without a word to the manager.
Delete(c) ==
    /\ status[c] # Deleted
    /\ Spend("delete")
    /\ status' = [status EXCEPT ![c] = Deleted]
    /\ disturbed' = disturbed \cup {c}
    /\ UNCHANGED <<timed, due, last, maxID, sentDB, audience, mgr, obj, runVars, scanVars, workVars,
                   reqVars, delivered, failed, late>>

\* PushCampaignMessage for a test message; when the queue stays full the request
\* times out and nothing has changed.
TestMessage(c, s) ==
    /\ Spend("test")
    /\ status[c] # Deleted
    /\ Room(campMsgQ, MsgCap)
    /\ campMsgQ' = Append(campMsgQ, [pipe |-> NoPipe, camp |-> c, sub |-> s])
    /\ UNCHANGED <<db, pipes, nextPipes, obj, runVars, scanVars, workVars, reqVars, delivered,
                   failed, late, disturbed>>

-----------------------------------------------------------------------------
(* The rest of the world.                                                  *)

\* A subscriber joins or leaves a campaign's audience: subscribed, unsubscribed,
\* confirmed, blocklisted, deleted.
Churn(c, s) ==
    /\ Spend("churn")
    /\ audience' = [audience EXCEPT ![c] = IF s \in @ THEN @ \ {s} ELSE @ \cup {s}]
    /\ disturbed' = disturbed \cup {c}
    /\ UNCHANGED <<status, timed, due, last, maxID, sentDB, mgr, obj, runVars, scanVars, workVars,
                   reqVars, delivered, failed, late>>

SendAtPasses(c) ==
    /\ c \in timed \ due
    /\ due' = due \cup {c}
    /\ UNCHANGED <<status, timed, last, maxID, sentDB, audience, mgr, obj, runVars, scanVars,
                   workVars, reqVars, hist>>

\* The process ends, by a crash or by the reload that replaces it with a new one,
\* and starts again: only the database survives.
Restart ==
    /\ Spend("crash")
    /\ pipes' = [c \in Campaigns |-> NoPipe]
    /\ nextPipes' = <<>> /\ campMsgQ' = <<>>
    /\ stage' = [p \in PipeIds |-> "free"]
    /\ wg' = [p \in PipeIds |-> 0]
    /\ runPc' = "idle" /\ runPipe' = NoPipe /\ runFrom' = 0 /\ runTo' = 0 /\ runBatch' = {}
    /\ scanPc' = "idle" /\ scanIds' = {} /\ scanTodo' = {} /\ scanList' = {}
    /\ scanCur' = NoPipe /\ scanCount' = [c \in Campaigns |-> 0]
    /\ wpc' = [w \in Workers |-> "idle"]
    /\ wmsg' = [w \in Workers |-> NoMsg]
    /\ reqPc' = [r \in Requests |-> "idle"]
    /\ disturbed' = Campaigns
    /\ UNCHANGED <<db, camp, sent, lastID, errors, stopped, withErrors, reqCamp, reqTo, delivered,
                   failed, late>>

-----------------------------------------------------------------------------
Scanner == ScanTick \/ ScanLoad \/ ScanReset \/ ScanQuery
           \/ \E c \in Campaigns : ScanRefuse(c) \/ ScanStart(c)
Runner == RunPop \/ RunFetch \/ RunNewMessage \/ RunSend \/ RunRequeue
Worker(w) == WorkerTake(w) \/ WorkerCheck(w) \/ WorkerPush(w) \/ WorkerDone(w)
             \/ WorkerOnError(w) \/ WorkerLoad(w) \/ WorkerStore(w) \/ WorkerAdd(w)
Cleanup(p) == CleanupCounts(p) \/ CleanupCheckErrors(p) \/ CleanupCheckStopped(p)
              \/ CleanupLoad(p) \/ CleanupWrite(p) \/ CleanupRemove(p)
Request(r) == \/ \E c \in Campaigns : EditCheck(r, c) \/ \E to \in Targets : StatusCheck(r, c, to)
              \/ StatusWrite(r) \/ StatusStop(r) \/ EditWrite(r)
World == \/ ScanQueryFails \/ RunFetchFails \/ RunRenderFails \/ Restart
         \/ \E c \in Campaigns : Delete(c) \/ SendAtPasses(c)
                                 \/ \E s \in Subs : TestMessage(c, s) \/ Churn(c, s)

Next == \/ Scanner \/ Runner \/ World
        \/ \E w \in Workers : Worker(w)
        \/ \E p \in PipeIds : Cleanup(p)
        \/ \E r \in Requests : Request(r)

Spec == Init /\ [][Next]_vars

\* Every goroutine that can take a step is scheduled eventually, a messenger's
\* Push returns, the ticker ticks. A goroutine waiting for the write lock of m.pipes
\* gets it although the scanner keeps taking the read lock: a waiting writer of a
\* sync.RWMutex keeps new readers out. Requests in progress are served to their
\* end; nobody has to make one.
Fairness ==
    /\ WF_vars(Scanner)
    /\ WF_vars(Runner)
    /\ \A w \in Workers : WF_vars(Worker(w))
    /\ \A p \in PipeIds : WF_vars(Cleanup(p)) /\ SF_vars(CleanupRemove(p))
    /\ \A r \in Requests : WF_vars(StatusWrite(r) \/ StatusStop(r) \/ EditWrite(r))
    /\ \A c \in Campaigns : WF_vars(SendAtPasses(c))

FairSpec == Spec /\ Fairness

-----------------------------------------------------------------------------
(* Properties.                                                             *)

\* A pipe that a campaign is worked on by, until it has left m.pipes.
Live(p) == stage[p] # "free"

\* Messages of p on their way to a messenger: in the queue, in Run's hands, or with
\* a worker that has not yet marked them done.
Queued(p) == {i \in DOMAIN campMsgQ : campMsgQ[i].pipe = p}
InHand(p) == {w \in Workers : wmsg[w].pipe = p /\ wpc[w] \in {"check", "push", "doneOk", "doneErr"}}
Creating(p) == IF runPc = "send" /\ runPipe = p THEN 1 ELSE 0

\* The count a pipe is created with: p waits in nextPipes or Run is busy with it.
Waiting(p) == {i \in DOMAIN nextPipes : nextPipes[i] = p}
Token(p) == Cardinality(Waiting(p)) + (IF runPipe = p THEN 1 ELSE 0)

TypeDB ==
    /\ status \in [Campaigns -> Statuses \cup {Deleted}]
    /\ timed \subseteq Campaigns /\ due \subseteq Campaigns
    /\ last \in [Campaigns -> 0 .. MaxSub] /\ maxID \in [Campaigns -> 0 .. MaxSub]
    /\ sentDB \in [Campaigns -> Nat]
    /\ audience \in [Campaigns -> SUBSET Subs]
TypeManager ==
    /\ pipes \in [Campaigns -> PipeIds \cup {NoPipe}]
    /\ nextPipes \in Seq(PipeIds) /\ Len(nextPipes) <= NextCap
    /\ campMsgQ \in Seq(Messages) /\ Len(campMsgQ) <= MsgCap
TypePipes ==
    /\ camp \in [PipeIds -> Campaigns]
    /\ wg \in [PipeIds -> Int] /\ sent \in [PipeIds -> Nat] /\ errors \in [PipeIds -> Nat]
    /\ lastID \in [PipeIds -> 0 .. MaxSub]
    /\ stopped \in [PipeIds -> BOOLEAN] /\ withErrors \in [PipeIds -> BOOLEAN]
    /\ stage \in [PipeIds -> Stages]
TypeRun ==
    /\ runPc \in RunPcs /\ runPipe \in PipeIds \cup {NoPipe} /\ (runPipe = NoPipe <=> runPc = "idle")
    /\ runFrom \in 0 .. MaxSub /\ runTo \in 0 .. MaxSub
    /\ runBatch \subseteq Subs /\ (runPc = "send" => runBatch # {})
TypeScan ==
    /\ scanPc \in ScanPcs /\ scanIds \subseteq Campaigns /\ scanTodo \subseteq scanIds
    /\ (scanPc = "reset" => scanCur \in scanTodo) /\ (scanPc \notin {"count", "reset"} => scanTodo = {})
    /\ scanList \subseteq Campaigns
    /\ scanCount \in [Campaigns -> Nat]
TypeWorkers ==
    /\ wpc \in [Workers -> WorkerPcs] /\ wmsg \in [Workers -> Messages \cup {NoMsg}]
    /\ \A w \in Workers : /\ wmsg[w] = NoMsg <=> wpc[w] = "idle"
                          /\ wpc[w] \in {"onError", "load", "store", "add"} => wmsg[w].pipe \in PipeIds
TypeRequests ==
    /\ reqPc \in [Requests -> {"idle", "write", "stop", "edit"}]
    /\ reqCamp \in [Requests -> Campaigns] /\ reqTo \in [Requests -> Statuses]
TypeHistory ==
    /\ delivered \in [Campaigns -> [Subs -> Nat]] /\ failed \subseteq Campaigns \X Subs
    /\ late \in [PipeIds -> Nat] /\ disturbed \subseteq Campaigns /\ used \in Nat

TypeOK == TypeDB /\ TypeManager /\ TypePipes /\ TypeRun /\ TypeScan /\ TypeWorkers
          /\ TypeRequests /\ TypeHistory

\* The WaitGroup of a live pipe counts exactly the pipe's outstanding messages plus
\* the one it was created with: it never goes negative (which panics), no message
\* is forgotten (which ends the pipe early) and none is counted twice (which would
\* leave it waiting forever). newPipe, newMessage, worker and Run each do a part.
WaitGroupExact ==
    \A p \in PipeIds : Live(p) =>
        wg[p] = Cardinality(Queued(p)) + Cardinality(InHand(p)) + Creating(p) + Token(p)

\* While a pipe's cleanup runs, or after it, none of its messages is queued or being
\* sent and Run does not have it: the counts and the status that cleanup writes are
\* about a campaign that has stopped sending.
CleanupAfterDrain ==
    \A p \in PipeIds : stage[p] # "open" =>
        Queued(p) = {} /\ InHand(p) = {} /\ Token(p) = 0

\* A campaign is worked on by at most one pipe, the one in m.pipes, although the
\* scanner decides what to start from a list of ids it read earlier.
OnePipePerCampaign ==
    /\ \A p \in PipeIds : Live(p) => pipes[camp[p]] = p
    /\ \A c \in Campaigns : pipes[c] # NoPipe => Live(pipes[c]) /\ camp[pipes[c]] = c

\* Why: from the moment the scanner lists the live pipes to the moment it starts the
\* last campaign it was given, only the scanner itself adds to m.pipes.
ScanKnowsPipes ==
    /\ scanPc \in {"count", "reset"} => \A c \in scanTodo : pipes[c] # NoPipe
    /\ scanPc \in {"count", "reset", "query"} => \A c \in Campaigns \ scanIds : pipes[c] = NoPipe
    /\ scanPc = "start" => \A c \in scanList : pipes[c] = NoPipe

\* What a pipe still has to send it has fetched, once and in order: within a pipe the
\* ids in the queue increase, those Run has yet to queue are above them, those the
\* workers hold are below them, and none is above the campaign's checkpoint.
FetchedOnceInOrder ==
    /\ \A i, j \in DOMAIN campMsgQ :
          i < j /\ campMsgQ[i].pipe = campMsgQ[j].pipe /\ campMsgQ[i].pipe # NoPipe
              => campMsgQ[i].sub < campMsgQ[j].sub
    /\ \A i \in DOMAIN campMsgQ : LET m == campMsgQ[i] IN m.pipe # NoPipe =>
          /\ m.sub <= last[m.camp]
          /\ m.pipe = runPipe => \A s \in runBatch : m.sub < s
          /\ \A w \in Workers : wmsg[w].pipe = m.pipe => wmsg[w].sub < m.sub

\* cleanup's write of the checkpoint can only take it back, never past a subscriber
\* that was not fetched.
CheckpointNotSkipped ==
    \A p \in PipeIds : stage[p] = "open" /\ status[camp[p]] # Deleted => lastID[p] <= last[camp[p]]

\* Once a pipe is stopped, each worker sends at most the one message it had already
\* picked up and checked.
FewLateMessages == \A p \in PipeIds : late[p] <= Cardinality(Workers)

\* A campaign nobody interferes with has, when it is finished, handed one message for
\* every subscriber of its audience to the messenger: none skipped, none repeated.
UndisturbedExactlyOnce ==
    \A c \in Campaigns \ disturbed :
        status[c] = "finished" /\ InitStatus[c] # "finished" =>
            \A s \in audience[c] :
                delivered[c][s] + (IF <<c, s>> \in failed THEN 1 ELSE 0) = 1

\* When m.pipes is empty, which is what HasRunningCampaigns() asks before the settings
\* handler restarts the process, no campaign message is queued or being sent.
QuietWithoutPipes ==
    (\A c \in Campaigns : pipes[c] = NoPipe) =>
        /\ \A i \in DOMAIN campMsgQ : campMsgQ[i].pipe = NoPipe
        /\ \A w \in Workers : wpc[w] = "push" => wmsg[w].pipe = NoPipe

\* The pipes keep the promise of PipeLifetime: messages are settled once each and a
\* pipe's cleanup starts only when it takes on no more and all are settled.
PendingSubs(p) == {campMsgQ[i].sub : i \in Queued(p)} \cup {wmsg[w].sub : w \in InHand(p)}
                  \cup {s \in runBatch : Creating(p) = 1 /\ s = MinOf(runBatch)}
Phase(p) == CASE stage[p] = "free"                  -> "none"
              [] stage[p] # "free" /\ stage[p] # "open" -> "ended"
              [] stage[p] = "open"                  -> IF Token(p) > 0 THEN "open" ELSE "closed"
Lifetime == INSTANCE PipeLifetime WITH
                Pipes <- PipeIds,
                phase <- [p \in PipeIds |-> Phase(p)],
                pending <- [p \in PipeIds |-> PendingSubs(p)]
PipesDrain == Lifetime!Spec

\* Documented of the program, and not so: see the findings.

\* "pauses the campaign if the error threshold is met" (pipe.go): a campaign whose
\* messages failed to send as often as MaxSendErrors allows does not end up finished.
ThresholdPauses ==
    \A c \in Campaigns :
        MaxSendErrors > 0 /\ Cardinality({s \in Subs : <<c, s>> \in failed}) >= MaxSendErrors
            => status[c] # "finished"

\* "fetches batches of subscribers and pushes messages to them for each queued campaign
\* until all subscribers are exhausted, at which point, a campaign is marked as
\* "finished"" (manager.go): a finished campaign has tried everyone in its audience.
FinishedTriedAll ==
    \A c \in Campaigns : status[c] = "finished" =>
        \A s \in audience[c] : delivered[c][s] > 0 \/ <<c, s>> \in failed

\* "Only 'running' campaigns can change status to 'cancelled' and 'paused'" (the API's
\* documentation), here of the pauses that the manager itself makes.
PausedOnlyFromRunning ==
    [][\A c \in Campaigns : status'[c] = "paused" => status[c] \in {"running", "paused"}]_status

\* Every pipe ends: no message is stuck, no pipe waits for a count that never comes.
EveryPipeEnds == \A p \in PipeIds : stage[p] = "open" ~> stage[p] = "free"

\* A campaign does not stay in "running": it finishes, pauses or is cancelled, unless
\* its template or its media cannot be loaded.
RunningSettles ==
    \A c \in Campaigns \ Broken : status[c] = "running" ~> status[c] # "running"
=============================================================================
