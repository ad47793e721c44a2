-------------------------- MODULE ExactlyOnce_proofs --------------------------
(***************************************************************************)
(* A campaign that nobody interferes with tries each of its subscribers    *)
(* once: UndisturbedExactlyOnce of CampaignManager, for every value of its *)
(* constants.                                                              *)
(***************************************************************************)
EXTENDS PipeOrder_proofs

-----------------------------------------------------------------------------
(* Exactly once. Of a campaign that nobody interferes with every subscriber *)
(* up to the checkpoint has been tried once, except those that are still on *)
(* their way to a messenger, and nobody above it has; its pipe is neither   *)
(* stopped nor in error, and while Run does not have the pipe and it does   *)
(* not wait for Run, everybody has been fetched.                            *)

InBatch(p, s) == runPipe = p /\ s \in runBatch
InQueue(p, s) == \E i \in DOMAIN campMsgQ : campMsgQ[i].pipe = p /\ campMsgQ[i].sub = s
AtWorker(p, s) == \E w \in Workers :
                      wmsg[w].pipe = p /\ wmsg[w].sub = s /\ wpc[w] \in {"check", "push"}
Ahead(p, s) == InBatch(p, s) \/ InQueue(p, s) \/ AtWorker(p, s)
Held(p) == runPipe = p \/ Waiting(p) # {}

Untried(c, s) == delivered[c][s] = 0 /\ <<c, s>> \notin failed
TriedOnce(c, s) == \/ delivered[c][s] = 1 /\ <<c, s>> \notin failed
                   \/ delivered[c][s] = 0 /\ <<c, s>> \in failed
AllTried(c) == \A s \in Subs : TriedOnce(c, s)
Unstarted(c) == last[c] = 0 /\ \A s \in Subs : Untried(c, s)
Progress(c, p) == \A s \in Subs : /\ s <= last[c] /\ ~ Ahead(p, s) => TriedOnce(c, s)
                                  /\ s > last[c] \/ Ahead(p, s) => Untried(c, s)

Sending(c, p) ==
    /\ status[c] = "running" /\ maxID[c] = MaxSub
    /\ Progress(c, p)
    /\ Held(p) \/ last[c] = MaxSub
    /\ runPc = "batch" /\ runPipe = p => runTo = MaxSub
Ending(c, p) == AllTried(c) /\ status[c] = IF stage[p] = "remove" THEN "finished" ELSE "running"
Healthy(p) == ~ stopped[p] /\ ~ withErrors[p] /\ stage[p] # "pausing"

Piped(c) == pipes[c] # NoPipe => /\ Healthy(pipes[c])
                                 /\ stage[pipes[c]] = "open" => Sending(c, pipes[c])
                                 /\ stage[pipes[c]] # "open" => Ending(c, pipes[c])
AtRest(c) == pipes[c] = NoPipe =>
                 \/ status[c] = "finished" /\ (InitStatus[c] = "finished" \/ AllTried(c))
                 \/ status[c] # "finished" /\ Unstarted(c)
Listed(c) == scanPc = "start" /\ c \in scanList => status[c] = "running" /\ maxID[c] = MaxSub

Exact(c) == audience[c] = Subs /\ Listed(c) /\ AtRest(c) /\ Piped(c)
ExactInv == \A c \in Campaigns \ disturbed : Exact(c)

\* A worker's message is of the campaign that its pipe works for.
HeldCamp == \A w \in Workers : wmsg[w].pipe # NoPipe => wmsg[w].camp = camp[wmsg[w].pipe]

Sound == TypeInv /\ CountInv /\ OnePipePerCampaign /\ OrderInv /\ HeldCamp

\* A step that leaves a campaign's row and what it has tried alone.
SameRow(c) == /\ status'[c] = status[c] /\ last'[c] = last[c] /\ maxID'[c] = maxID[c]
              /\ audience'[c] = audience[c] /\ delivered'[c] = delivered[c]
              /\ \A s \in Subs : <<c, s>> \in failed' <=> <<c, s>> \in failed

\* A step that leaves alone what Exact says of a pipe.
SamePipe(p) == /\ stage'[p] = stage[p] /\ stopped'[p] = stopped[p] /\ withErrors'[p] = withErrors[p]
               /\ \A s \in Subs : Ahead(p, s)' <=> Ahead(p, s)
               /\ Held(p) => Held(p)'
               /\ runPc' = "batch" /\ runPipe' = p => runPc = "batch" /\ runPipe = p /\ runTo' = runTo

\* A step that leaves a campaign and its pipe alone keeps what is true of them.
LEMMA ExactKept ==
    ASSUME NEW c \in Campaigns, Exact(c), SameRow(c), pipes'[c] = pipes[c],
           pipes[c] # NoPipe => SamePipe(pipes[c]),
           scanPc' = "start" /\ c \in scanList' => scanPc = "start" /\ c \in scanList
    PROVE  Exact(c)'
<1>1. \A s \in Subs : (TriedOnce(c, s)' <=> TriedOnce(c, s)) /\ (Untried(c, s)' <=> Untried(c, s))
  BY DEF SameRow, TriedOnce, Untried
<1>2. AtRest(c)'
  BY <1>1 DEF Exact, AtRest, SameRow, AllTried, Unstarted
<1>3. ASSUME pipes[c] # NoPipe, stage[pipes[c]] = "open" PROVE Sending(c, pipes[c])'
  <2>1. Sending(c, pipes[c])
    BY <1>3 DEF Exact, Piped
  <2>2. \A s \in Subs : Ahead(pipes[c], s)' <=> Ahead(pipes[c], s)
    BY <1>3 DEF SamePipe
  <2>3. Progress(c, pipes[c])'
    <3>1. Progress(c, pipes[c]) /\ last'[c] = last[c] /\ pipes'[c] = pipes[c]
      BY <2>1 DEF Sending, SameRow
    <3> QED BY <1>1, <2>2, <3>1 DEF Progress
  <2> QED BY <1>3, <2>1, <2>3 DEF Sending, SameRow, SamePipe
<1>4. Piped(c)'
  BY <1>1, <1>3 DEF Exact, Piped, Healthy, Ending, AllTried, SameRow, SamePipe
<1> QED BY <1>2, <1>4 DEF Exact, Listed, SameRow

\* Steps that touch neither the queues nor Run nor what workers have not yet tried.
LEMMA SamePipeKept ==
    ASSUME NEW p, stage'[p] = stage[p], stopped'[p] = stopped[p], withErrors'[p] = withErrors[p],
           UNCHANGED <<runPipe, runBatch, runTo, campMsgQ, nextPipes>>,
           runPc' = "batch" => runPc = "batch",
           \A w \in Workers : /\ wpc'[w] \in {"check", "push"} <=> wpc[w] \in {"check", "push"}
                              /\ wpc[w] \in {"check", "push"} => wmsg'[w] = wmsg[w]
    PROVE  SamePipe(p)
<1>1. \A s : (InBatch(p, s)' <=> InBatch(p, s)) /\ (InQueue(p, s)' <=> InQueue(p, s))
  BY DEF InBatch, InQueue
<1>2. \A s : AtWorker(p, s)' <=> AtWorker(p, s)
  BY DEF AtWorker
<1> QED BY <1>1, <1>2 DEF SamePipe, Ahead, Held, Waiting

\* Workers keep to the campaign of their pipe: a pipe's identity is not used again while
\* a worker refers to it.
LEMMA HeldCampNext ==
    ASSUME TypeInv, CountInv, OnePipePerCampaign, OrderInv, HeldCamp, [Next]_vars PROVE HeldCamp'
<1>0. /\ wmsg \in [Workers -> Messages \cup {NoMsg}] /\ NoMsg.pipe = NoPipe
      /\ \A w \in Workers : wmsg[w].pipe \in PipeIds \cup {NoPipe}
      /\ camp \in [PipeIds -> Campaigns]
  BY OrderTypes DEF NoMsg
<1>1. CASE camp' = camp /\ \A w \in Workers : wmsg'[w] = wmsg[w] \/ wmsg'[w] = NoMsg
  BY <1>0, <1>1 DEF HeldCamp
<1>2. ASSUME NEW c \in Campaigns, ScanStart(c) PROVE HeldCamp'
  <2>1. wmsg' = wmsg
    BY <1>2 DEF ScanStart, workVars
  <2>2. \A w \in Workers : wmsg[w].pipe # NoPipe => camp'[wmsg[w].pipe] = camp[wmsg[w].pipe]
    BY <1>0, <1>2 DEF ScanStart, FreePipes
  <2> QED BY <2>1, <2>2 DEF HeldCamp
<1>3. ASSUME NEW w \in Workers, WorkerTake(w) PROVE HeldCamp'
  <2>1. campMsgQ \in Seq(Messages) /\ campMsgQ # <<>> /\ camp' = camp
        /\ wmsg' = [wmsg EXCEPT ![w] = Head(campMsgQ)]
    BY <1>3, OrderTypes DEF WorkerTake, obj
  <2>2. 1 \in DOMAIN campMsgQ /\ Head(campMsgQ) = campMsgQ[1]
    BY <2>1, TailPlaces
  <2>3. Head(campMsgQ).pipe # NoPipe => Head(campMsgQ).camp = camp[Head(campMsgQ).pipe]
    BY <2>2 DEF OrderInv, OrderQueue
  <2> QED BY <1>0, <2>1, <2>3 DEF HeldCamp
<1>4. CASE Scanner
  <2>1. CASE ScanTick \/ ScanLoad \/ ScanReset \/ ScanQuery \/ \E c \in Campaigns : ScanRefuse(c)
    BY <1>1, <2>1 DEF ScanTick, ScanLoad, ScanReset, ScanQuery, ScanRefuse, obj, workVars
  <2> QED BY <1>2, <1>4, <2>1 DEF Scanner
<1>5. CASE Runner
  BY <1>1, <1>5 DEF Runner, RunPop, RunFetch, RunNewMessage, RunSend, RunRequeue, obj, workVars
<1>6. CASE World
  <2>1. CASE Restart
    <3>1. camp' = camp /\ wmsg' = [w \in Workers |-> NoMsg]
      BY <2>1 DEF Restart
    <3> QED BY <1>1, <3>1
  <2>2. CASE ~ Restart
    BY <1>1, <1>6, <2>2 DEF World, ScanQueryFails, RunFetchFails, RunRenderFails, Delete, SendAtPasses, TestMessage,
                            Churn, obj, workVars
  <2> QED BY <2>1, <2>2
<1>7. ASSUME NEW w \in Workers, Worker(w) PROVE HeldCamp'
  <2>1. CASE ~ WorkerTake(w)
    <3>1. camp' = camp /\ (wmsg' = wmsg \/ wmsg' = [wmsg EXCEPT ![w] = NoMsg])
      BY <1>7, <2>1 DEF Worker, WorkerCheck, WorkerPush, WorkerDone, WorkerOnError, WorkerLoad, WorkerStore,
                        WorkerAdd, Finish, obj
    <3> QED BY <1>0, <1>1, <3>1
  <2> QED BY <1>3, <2>1
<1>8. ASSUME NEW p \in PipeIds, Cleanup(p) PROVE HeldCamp'
  BY <1>1, <1>8 DEF Cleanup, CleanupCounts, CleanupCheckErrors, CleanupCheckStopped, CleanupLoad,
                    CleanupWrite, CleanupRemove, StageOnly, workVars
<1>9. ASSUME NEW r \in Requests, Request(r) PROVE HeldCamp'
  BY <1>1, <1>9 DEF Request, StatusCheck, StatusWrite, StatusStop, EditCheck, EditWrite, obj, workVars
<1>10. CASE UNCHANGED vars
  BY <1>1, <1>10 DEF vars, obj, workVars
<1> QED BY <1>4, <1>5, <1>6, <1>7, <1>8, <1>9, <1>10 DEF Next

\* The pipe of a campaign is one, and its own.
LEMMA PipeOf ==
    ASSUME Sound, NEW c \in Campaigns, pipes[c] # NoPipe
    PROVE  pipes[c] \in PipeIds /\ camp[pipes[c]] = c /\ stage[pipes[c]] # "free"
BY DEF Sound, OnePipePerCampaign, Live, TypeInv, TypeOK, TypeManager

\* Steps that leave the rows, what was tried, m.pipes and the queues alone, and stop no
\* pipe of the campaign.
LEMMA ExactQuiet ==
    ASSUME NEW c \in Campaigns, Exact(c),
           UNCHANGED <<status, last, maxID, audience, delivered, failed, pipes, stage>>,
           UNCHANGED <<runPipe, runBatch, runTo, campMsgQ, nextPipes>>,
           runPc' = "batch" => runPc = "batch",
           \A w \in Workers : /\ wpc'[w] \in {"check", "push"} <=> wpc[w] \in {"check", "push"}
                              /\ wpc[w] \in {"check", "push"} => wmsg'[w] = wmsg[w],
           pipes[c] # NoPipe => stopped'[pipes[c]] = stopped[pipes[c]] /\ withErrors'[pipes[c]] = withErrors[pipes[c]],
           scanPc' = "start" /\ c \in scanList' => scanPc = "start" /\ c \in scanList
    PROVE  Exact(c)'
<1>1. SameRow(c) /\ pipes'[c] = pipes[c]
  BY DEF SameRow
<1>2. stage'[pipes[c]] = stage[pipes[c]]
  OBVIOUS
<1>3. pipes[c] # NoPipe => SamePipe(pipes[c])
  BY <1>2, SamePipeKept
<1> QED BY <1>1, <1>3, ExactKept

\* A pipe that is stopped is that of a campaign which is from then on disturbed.
LEMMA StopDisturbs ==
    ASSUME Sound, NEW p \in PipeIds, NEW b \in BOOLEAN, Stop(p, b), NEW c \in Campaigns \ disturbed',
           pipes[c] # NoPipe
    PROVE  pipes[c] # p /\ stopped'[pipes[c]] = stopped[pipes[c]] /\ withErrors'[pipes[c]] = withErrors[pipes[c]]
<1>1. pipes[c] \in PipeIds /\ camp[pipes[c]] = c
  BY PipeOf
<1>2. pipes[c] # p
  BY <1>1 DEF Stop
<1> QED BY <1>1, <1>2 DEF Stop, Sound, TypeInv, TypeOK, TypePipes

\* The scanner's steps that only read, and the requests' steps that only check.
LEMMA ExactScan ==
    ASSUME Sound, ExactInv, NEW c \in Campaigns \ disturbed',
           \/ ScanTick \/ ScanLoad \/ ScanReset \/ ScanQueryFails
           \/ \E d \in Campaigns : SendAtPasses(d)
           \/ \E r \in Requests, d \in Campaigns : EditCheck(r, d) \/ \E to \in Targets : StatusCheck(r, d, to)
           \/ UNCHANGED vars
    PROVE  Exact(c)'
<1>1. /\ UNCHANGED <<status, last, maxID, audience, delivered, failed, pipes, stage>>
      /\ UNCHANGED <<runPipe, runBatch, runTo, runPc, campMsgQ, nextPipes, stopped, withErrors, wpc, wmsg, disturbed>>
  BY DEF ScanTick, ScanLoad, ScanReset, ScanQueryFails, SendAtPasses, EditCheck, StatusCheck, vars, db, mgr, obj,
         runVars, workVars, hist
<1>2. scanPc' = "start" => scanPc = "start" /\ scanList' = scanList
  BY DEF ScanTick, ScanLoad, ScanReset, ScanQueryFails, SendAtPasses, EditCheck, StatusCheck, vars, scanVars
<1>3. Exact(c)
  BY <1>1 DEF ExactInv
<1> QED BY <1>1, <1>2, <1>3, ExactQuiet

\* newMessage: the message is counted, the subscriber stays in the batch.
LEMMA ExactRunNewMessage ==
    ASSUME Sound, ExactInv, NEW c \in Campaigns \ disturbed', RunNewMessage
    PROVE  Exact(c)'
<1>1. /\ UNCHANGED <<status, last, maxID, audience, delivered, failed, pipes, stage>>
      /\ UNCHANGED <<runPipe, runBatch, runTo, campMsgQ, nextPipes, stopped, withErrors, wpc, wmsg, disturbed>>
      /\ UNCHANGED <<scanPc, scanList>> /\ runPc' # "batch"
  BY DEF RunNewMessage, db, mgr, scanVars, workVars, hist
<1>2. Exact(c)
  BY <1>1 DEF ExactInv
<1> QED BY <1>1, <1>2, ExactQuiet

\* StopCampaign disturbs the campaign whose pipe it stops, and no other.
LEMMA ExactStatusStop ==
    ASSUME Sound, ExactInv, NEW c \in Campaigns \ disturbed', NEW r \in Requests, StatusStop(r)
    PROVE  Exact(c)'
<1>1. /\ UNCHANGED <<status, last, maxID, audience, delivered, failed, pipes, stage>>
      /\ UNCHANGED <<runPipe, runBatch, runTo, runPc, campMsgQ, nextPipes, wpc, wmsg, scanPc, scanList>>
  BY DEF StatusStop, db, mgr, runVars, scanVars, workVars
<1>2. UNCHANGED <<stopped, withErrors, disturbed>> \/ \E p \in PipeIds : Stop(p, FALSE)
  BY DEF StatusStop, Sound, TypeInv, TypeOK, TypeManager, TypeRequests
<1>3. Exact(c)
  BY <1>2 DEF ExactInv, Stop
<1>4. pipes[c] # NoPipe => stopped'[pipes[c]] = stopped[pipes[c]] /\ withErrors'[pipes[c]] = withErrors[pipes[c]]
  BY <1>2, StopDisturbs
<1> QED BY <1>1, <1>3, <1>4, ExactQuiet

\* What a worker does after its Push: the message is no longer ahead, and the only pipe
\* it may stop is its own.
LEMMA ExactWorkerSettles ==
    ASSUME Sound, ExactInv, NEW c \in Campaigns \ disturbed', NEW w \in Workers,
           WorkerDone(w) \/ WorkerOnError(w) \/ WorkerLoad(w) \/ WorkerStore(w) \/ WorkerAdd(w)
    PROVE  Exact(c)'
<1>0. wpc \in [Workers -> WorkerPcs] /\ wmsg \in [Workers -> Messages \cup {NoMsg}]
  BY DEF Sound, TypeInv, TypeOK, TypeWorkers
<1>1. /\ UNCHANGED <<status, last, maxID, audience, delivered, failed, pipes, stage>>
      /\ UNCHANGED <<runPipe, runBatch, runTo, runPc, campMsgQ, nextPipes, scanPc, scanList>>
  BY DEF WorkerDone, WorkerOnError, WorkerLoad, WorkerStore, WorkerAdd, db, mgr, obj, runVars, scanVars, hist
<1>2. /\ \A v \in Workers \ {w} : wpc'[v] = wpc[v] /\ wmsg'[v] = wmsg[v]
      /\ wpc[w] \notin {"check", "push"} /\ wpc'[w] \notin {"check", "push"}
  BY <1>0 DEF WorkerDone, WorkerOnError, WorkerLoad, WorkerStore, WorkerAdd, Goto, Finish
<1>3. UNCHANGED <<stopped, withErrors, disturbed>> \/ \E p \in PipeIds : Stop(p, TRUE)
  <2>1. CASE WorkerOnError(w)
    <3>1. wmsg[w].pipe \in PipeIds
      BY <2>1 DEF WorkerOnError, Sound, TypeInv, TypeOK, TypeWorkers
    <3> QED BY <2>1, <3>1 DEF WorkerOnError
  <2>2. CASE ~ WorkerOnError(w)
    BY <2>2 DEF WorkerDone, WorkerLoad, WorkerStore, WorkerAdd, obj, hist
  <2> QED BY <2>1, <2>2
<1>4. Exact(c)
  BY <1>3 DEF ExactInv, Stop
<1>5. pipes[c] # NoPipe => stopped'[pipes[c]] = stopped[pipes[c]] /\ withErrors'[pipes[c]] = withErrors[pipes[c]]
  BY <1>3, StopDisturbs
<1> QED BY <1>1, <1>2, <1>4, <1>5, ExactQuiet

\* A worker drops the messages of stopped pipes only, and those are of campaigns that
\* were disturbed.
LEMMA ExactWorkerCheck ==
    ASSUME Sound, ExactInv, NEW c \in Campaigns \ disturbed', NEW w \in Workers, WorkerCheck(w)
    PROVE  Exact(c)'
<1>0. wpc \in [Workers -> WorkerPcs] /\ wmsg \in [Workers -> Messages \cup {NoMsg}]
  BY DEF Sound, TypeInv, TypeOK, TypeWorkers
<1>1. /\ UNCHANGED <<status, last, maxID, audience, delivered, failed, pipes, stage, stopped, withErrors, disturbed>>
      /\ UNCHANGED <<runPipe, runBatch, runTo, runPc, campMsgQ, nextPipes, scanPc, scanList>>
  BY DEF WorkerCheck, db, mgr, runVars, scanVars, hist
<1>2. \A v \in Workers \ {w} : wpc'[v] = wpc[v] /\ wmsg'[v] = wmsg[v]
  BY <1>0 DEF WorkerCheck, Goto, Finish
<1>3. Exact(c)
  BY <1>1 DEF ExactInv
<1>4. ASSUME pipes[c] # NoPipe PROVE SamePipe(pipes[c])
  <2>1. pipes[c] \in PipeIds /\ ~ stopped[pipes[c]]
    BY <1>3, <1>4, PipeOf DEF Exact, Piped, Healthy
  <2>2. CASE wmsg[w].pipe = pipes[c]
    <3>1. wpc[w] = "check" /\ wpc'[w] = "push" /\ wmsg' = wmsg
      BY <1>0, <2>1, <2>2 DEF WorkerCheck, Dropped, Goto
    <3> QED BY <1>1, <1>2, <3>1, SamePipeKept
  <2>3. CASE wmsg[w].pipe # pipes[c]
    <3>1. wmsg'[w].pipe # pipes[c]
      BY <1>0, <2>1, <2>3, CapAssumption DEF WorkerCheck, Goto, Finish, NoMsg
    <3>2. \A s : AtWorker(pipes[c], s)' <=> AtWorker(pipes[c], s)
      BY <1>1, <1>2, <2>3, <3>1 DEF AtWorker
    <3>3. \A s : (InBatch(pipes[c], s)' <=> InBatch(pipes[c], s)) /\ (InQueue(pipes[c], s)' <=> InQueue(pipes[c], s))
      BY <1>1 DEF InBatch, InQueue
    <3> QED BY <1>1, <3>2, <3>3 DEF SamePipe, Ahead, Held, Waiting
  <2> QED BY <2>2, <2>3
<1> QED BY <1>1, <1>3, <1>4, ExactKept DEF SameRow

\* A message that a worker takes is ahead as it was in the queue.
LEMMA ExactWorkerTake ==
    ASSUME Sound, ExactInv, NEW c \in Campaigns \ disturbed', NEW w \in Workers, WorkerTake(w)
    PROVE  Exact(c)'
<1>0. wpc \in [Workers -> WorkerPcs] /\ wmsg \in [Workers -> Messages \cup {NoMsg}]
  BY DEF Sound, TypeInv, TypeOK, TypeWorkers
<1>1. /\ UNCHANGED <<status, last, maxID, audience, delivered, failed, pipes, stage, stopped, withErrors, disturbed>>
      /\ UNCHANGED <<runPipe, runBatch, runTo, runPc, nextPipes, scanPc, scanList>>
      /\ campMsgQ # <<>> /\ campMsgQ' = Tail(campMsgQ) /\ wpc[w] = "idle"
  BY DEF WorkerTake, db, obj, runVars, scanVars, hist
<1>2. /\ \A v \in Workers \ {w} : wpc'[v] = wpc[v] /\ wmsg'[v] = wmsg[v]
      /\ wpc'[w] = "check" /\ wmsg'[w] = Head(campMsgQ)
  BY <1>0 DEF WorkerTake, Goto
<1>3. PICK n \in Nat : /\ DOMAIN campMsgQ = 1 .. (n + 1) /\ DOMAIN campMsgQ' = 1 .. n
                       /\ \A i \in 1 .. n : campMsgQ'[i] = campMsgQ[i + 1]
                       /\ Head(campMsgQ) = campMsgQ[1]
  BY <1>1, OrderTypes, TailPlaces DEF Sound
<1>4. \A p, s : InQueue(p, s) <=> InQueue(p, s)' \/ (campMsgQ[1].pipe = p /\ campMsgQ[1].sub = s)
  <2> SUFFICES ASSUME NEW p, NEW s
               PROVE  InQueue(p, s) <=> InQueue(p, s)' \/ (campMsgQ[1].pipe = p /\ campMsgQ[1].sub = s)
    OBVIOUS
  <2>1. ASSUME InQueue(p, s) PROVE InQueue(p, s)' \/ (campMsgQ[1].pipe = p /\ campMsgQ[1].sub = s)
    <3>1. PICK i \in 1 .. (n + 1) : campMsgQ[i].pipe = p /\ campMsgQ[i].sub = s
      BY <1>3, <2>1 DEF InQueue
    <3>2. CASE i # 1
      <4>1. i - 1 \in 1 .. n /\ (i - 1) + 1 = i
        BY <3>2
      <4>2. campMsgQ'[i - 1] = campMsgQ[i]
        BY <1>3, <4>1
      <4> QED BY <1>3, <3>1, <4>1, <4>2 DEF InQueue
    <3> QED BY <3>1, <3>2
  <2>2. ASSUME InQueue(p, s)' PROVE InQueue(p, s)
    <3>1. PICK i \in 1 .. n : campMsgQ'[i].pipe = p /\ campMsgQ'[i].sub = s
      BY <1>3, <2>2 DEF InQueue
    <3>2. i + 1 \in 1 .. (n + 1)
      OBVIOUS
    <3> QED BY <1>3, <3>1, <3>2 DEF InQueue
  <2>3. 1 \in DOMAIN campMsgQ
    BY <1>3
  <2> QED BY <2>1, <2>2, <2>3 DEF InQueue
<1>5. \A p, s : AtWorker(p, s)' <=> AtWorker(p, s) \/ (campMsgQ[1].pipe = p /\ campMsgQ[1].sub = s)
  BY <1>1, <1>2, <1>3 DEF AtWorker
<1>6. \A p, s : InBatch(p, s)' <=> InBatch(p, s)
  BY <1>1 DEF InBatch
<1>7. \A p, s : Ahead(p, s)' <=> Ahead(p, s)
  BY <1>4, <1>5, <1>6 DEF Ahead
<1>8. ASSUME pipes[c] # NoPipe PROVE SamePipe(pipes[c])
  BY <1>1, <1>7 DEF SamePipe, Held, Waiting
<1>9. Exact(c)
  BY <1>1 DEF ExactInv
<1> QED BY <1>1, <1>8, <1>9, ExactKept DEF SameRow

\* A worker that refers to a pipe which has not ended has a message of an open pipe, of
\* its campaign.
LEMMA ToPush ==
    ASSUME Sound, NEW w \in Workers, wpc[w] \in {"check", "push"}, wmsg[w].pipe # NoPipe
    PROVE  /\ wmsg[w] \in Messages /\ wmsg[w].pipe \in PipeIds /\ wmsg[w].sub \in Subs
           /\ wmsg[w].camp \in Campaigns /\ wmsg[w].camp = camp[wmsg[w].pipe]
           /\ stage[wmsg[w].pipe] = "open" /\ pipes[wmsg[w].camp] = wmsg[w].pipe
<1>1. wmsg[w] \in Messages /\ wmsg[w].pipe \in PipeIds
  BY DEF Sound, TypeInv, TypeOK, TypeWorkers, NoMsg, Messages
<1>2. wmsg[w].sub \in Subs /\ wmsg[w].camp \in Campaigns
  BY <1>1 DEF Messages
<1>3. wmsg[w].camp = camp[wmsg[w].pipe]
  BY DEF Sound, HeldCamp
<1>4. stage[wmsg[w].pipe] = "open"
  BY <1>1, BusyOpen DEF Sound, InHand
<1> QED BY <1>1, <1>2, <1>3, <1>4 DEF Sound, OnePipePerCampaign, Live

\* The message that is tried was untried, and is ahead nowhere else.
LEMMA ExactWorkerPush ==
    ASSUME Sound, ExactInv, NEW c \in Campaigns \ disturbed', NEW w \in Workers, WorkerPush(w)
    PROVE  Exact(c)'
<1>0. wpc \in [Workers -> WorkerPcs] /\ wmsg \in [Workers -> Messages \cup {NoMsg}]
  BY DEF Sound, TypeInv, TypeOK, TypeWorkers
<1>1. /\ UNCHANGED <<status, last, maxID, audience, pipes, stage, stopped, withErrors, disturbed>>
      /\ UNCHANGED <<runPipe, runBatch, runTo, runPc, campMsgQ, nextPipes, scanPc, scanList, wmsg>>
      /\ wpc[w] = "push"
  BY DEF WorkerPush, db, mgr, obj, runVars, scanVars
<1>2. (\A v \in Workers \ {w} : wpc'[v] = wpc[v]) /\ wpc'[w] \notin {"check", "push"}
  BY <1>0 DEF WorkerPush, Goto
<1>3. Exact(c)
  BY <1>1 DEF ExactInv
<1>4. \A p, s : (InBatch(p, s)' <=> InBatch(p, s)) /\ (InQueue(p, s)' <=> InQueue(p, s))
  BY <1>1 DEF InBatch, InQueue
<1>5. \A p, s : p # wmsg[w].pipe => (AtWorker(p, s)' <=> AtWorker(p, s))
  BY <1>1, <1>2 DEF AtWorker
<1>6. CASE wmsg[w].pipe = NoPipe
  <2>1. delivered' = delivered /\ failed' = failed
    BY <1>6 DEF WorkerPush
  <2>2. ASSUME pipes[c] # NoPipe PROVE SamePipe(pipes[c])
    BY <1>1, <1>4, <1>5, <1>6, <2>2 DEF SamePipe, Ahead, Held, Waiting
  <2> QED BY <1>1, <1>3, <2>1, <2>2, ExactKept DEF SameRow
<1>7. CASE wmsg[w].pipe # NoPipe
  <2>1. PICK p \in PipeIds, d \in Campaigns, s \in Subs :
            /\ wmsg[w].pipe = p /\ wmsg[w].camp = d /\ wmsg[w].sub = s
            /\ camp[p] = d /\ stage[p] = "open" /\ pipes[d] = p
    BY <1>1, <1>7, ToPush
  <2>2. \/ delivered' = [delivered EXCEPT ![d][s] = @ + 1] /\ failed' = failed
        \/ delivered' = delivered /\ failed' = failed \cup {<<d, s>>}
    BY <1>7, <2>1 DEF WorkerPush
  <2>3. delivered \in [Campaigns -> [Subs -> Nat]]
    BY DEF Sound, TypeInv, TypeOK, TypeHistory
  <2>4. CASE c # d
    <3>1. SameRow(c)
      BY <1>1, <2>2, <2>3, <2>4 DEF SameRow
    <3>2. ASSUME pipes[c] # NoPipe PROVE SamePipe(pipes[c])
      <4>1. pipes[c] # p
        BY <2>1, <2>4, <3>2, PipeOf
      <4> QED BY <1>1, <1>4, <1>5, <2>1, <4>1 DEF SamePipe, Ahead, Held, Waiting
    <3> QED BY <1>1, <1>3, <3>1, <3>2, ExactKept
  <2>5. CASE c = d
    <3>1. Sending(c, p) /\ Healthy(p)
      BY <1>3, <2>1, <2>5, CapAssumption DEF Exact, Piped
    <3>2. AtWorker(p, s) /\ s <= last[c]
      <4>1. s <= last[c]
        BY <1>7, <2>1, <2>5 DEF Sound, OrderInv, OrderWorkers
      <4> QED BY <1>1, <2>1, <4>1 DEF AtWorker
    <3>3. Untried(c, s)
      BY <3>1, <3>2 DEF Sending, Progress, Ahead
    <3>4. TriedOnce(c, s)'
      BY <2>2, <2>3, <2>5, <3>3 DEF Untried, TriedOnce
    <3>5. \A t \in Subs \ {s} : (TriedOnce(c, t)' <=> TriedOnce(c, t)) /\ (Untried(c, t)' <=> Untried(c, t))
      BY <2>2, <2>3, <2>5 DEF Untried, TriedOnce
    <3>6. \A t \in Subs \ {s} : Ahead(p, t)' <=> Ahead(p, t)
      <4>1. \A t \in Subs \ {s} : AtWorker(p, t)' <=> AtWorker(p, t)
        BY <1>1, <1>2, <2>1 DEF AtWorker
      <4> QED BY <1>4, <4>1 DEF Ahead
    <3>7. ~ Ahead(p, s)'
      <4>0. s \in Nat
        BY CapAssumption DEF Subs
      <4>1. ~ InBatch(p, s)
        <5>1. ASSUME runPipe = p, s \in runBatch PROVE FALSE
          <6>1. wmsg[w].pipe # NoPipe /\ wmsg[w].pipe = runPipe
            BY <1>7, <2>1, <5>1
          <6>2. wmsg[w].sub < s
            BY <5>1, <6>1 DEF Sound, OrderInv, OrderWorkers
          <6> QED BY <2>1, <4>0, <6>2
        <5> QED BY <5>1 DEF InBatch
      <4>2. ~ InQueue(p, s)
        BY <1>7, <2>1, <4>0 DEF Sound, OrderInv, OrderWorkers, InQueue
      <4>3. \A v \in Workers \ {w} : wmsg[v].pipe = p => wmsg[v].sub # s
        BY <1>7, <2>1 DEF Sound, OrderInv, OrderWorkers
      <4>4. ~ AtWorker(p, s)'
        BY <1>1, <1>2, <4>3 DEF AtWorker
      <4> QED BY <1>4, <4>1, <4>2, <4>4 DEF Ahead
    <3>8. Progress(c, p)'
      <4>1. s <= last[c] /\ last' = last
        BY <1>1, <3>2
      <4>2. ~ (s > last[c])
        BY <4>1, OrderTypes DEF Sound, Subs
      <4>3. Progress(c, p)
        BY <3>1 DEF Sending
      <4> QED BY <3>4, <3>5, <3>6, <3>7, <4>1, <4>2, <4>3 DEF Progress
    <3>9. Sending(c, p)'
      BY <1>1, <3>1, <3>8 DEF Sending, Held, Waiting
    <3>10. Piped(c)'
      BY <1>1, <2>1, <2>5, <3>1, <3>9 DEF Piped, Healthy
    <3>11. AtRest(c)' /\ Listed(c)' /\ audience'[c] = Subs
      BY <1>1, <1>3, <2>1, <2>5, CapAssumption DEF AtRest, Listed, Exact
    <3> QED BY <3>10, <3>11 DEF Exact
  <2> QED BY <2>4, <2>5
<1> QED BY <1>6, <1>7

\* The pipe that Run has is open, and the one pipe of its campaign.
LEMMA RunsOne ==
    ASSUME Sound, runPc # "idle" \/ runPipe # NoPipe
    PROVE  \E d \in Campaigns : /\ runPipe \in PipeIds /\ runPipe # NoPipe
                                /\ camp[runPipe] = d /\ pipes[d] = runPipe /\ stage[runPipe] = "open"
<1>1. runPipe \in PipeIds
  BY DEF Sound, TypeInv, TypeOK, TypeRun
<1>2. camp[runPipe] \in Campaigns
  BY <1>1, OrderTypes DEF Sound
<1>3. stage[runPipe] = "open"
  BY <1>1, RunningOpen DEF Sound
<1> QED BY <1>1, <1>2, <1>3, CapAssumption DEF Sound, OnePipePerCampaign, Live

\* A step of Run with its pipe leaves the campaigns of the other pipes alone.
LEMMA ExactRunOther ==
    ASSUME Sound, NEW c \in Campaigns, Exact(c), SameRow(c),
           UNCHANGED <<pipes, stage, wpc, wmsg, scanPc, scanList>>,
           pipes[c] # NoPipe =>
               /\ pipes[c] # runPipe /\ pipes[c] # runPipe'
               /\ stopped'[pipes[c]] = stopped[pipes[c]] /\ withErrors'[pipes[c]] = withErrors[pipes[c]]
               /\ Waiting(pipes[c]) # {} => Waiting(pipes[c])' # {}
               /\ \A s : InQueue(pipes[c], s)' <=> InQueue(pipes[c], s)
    PROVE  Exact(c)'
<1>1. ASSUME pipes[c] # NoPipe PROVE SamePipe(pipes[c])
  <2>1. \A s : ~ InBatch(pipes[c], s) /\ ~ InBatch(pipes[c], s)'
    BY <1>1 DEF InBatch
  <2>2. \A s : AtWorker(pipes[c], s)' <=> AtWorker(pipes[c], s)
    BY DEF AtWorker
  <2> QED BY <1>1, <2>1, <2>2 DEF SamePipe, Ahead, Held
<1> QED BY <1>1, ExactKept

\* Where a pipe waits after one is queued or taken.
LEMMA WaitingPushed ==
    ASSUME Sound, NEW q \in PipeIds, nextPipes' = Append(nextPipes, q)
    PROVE  Waiting(q)' # {} /\ \A p : Waiting(p) # {} => Waiting(p)' # {}
<1>1. nextPipes \in Seq(PipeIds)
  BY DEF Sound, TypeInv, TypeOK, TypeManager
<1>2. PICK n \in Nat : /\ DOMAIN nextPipes = 1 .. n /\ DOMAIN nextPipes' = 1 .. (n + 1)
                       /\ \A i \in DOMAIN nextPipes : nextPipes'[i] = nextPipes[i]
                       /\ nextPipes'[n + 1] = q
  <2>1. PICK queue \in Seq(PipeIds) : queue = nextPipes
    BY <1>1
  <2>2. \E n \in Nat : /\ DOMAIN queue = 1 .. n /\ DOMAIN Append(queue, q) = 1 .. (n + 1)
                       /\ \A i \in DOMAIN queue : Append(queue, q)[i] = queue[i]
                       /\ Append(queue, q)[n + 1] = q
    BY AppendPlaces
  <2> QED BY <2>1, <2>2
<1>3. n + 1 \in DOMAIN nextPipes' /\ DOMAIN nextPipes \subseteq DOMAIN nextPipes'
  BY <1>2
<1> QED BY <1>2, <1>3 DEF Waiting

\* A pipe taken from nextPipes was waiting; the others still are.
LEMMA WaitingPopped ==
    ASSUME Sound, nextPipes # <<>>, nextPipes' = Tail(nextPipes)
    PROVE  /\ Head(nextPipes) \in PipeIds
           /\ Waiting(Head(nextPipes)) # {}
           /\ \A p : p # Head(nextPipes) /\ Waiting(p) # {} => Waiting(p)' # {}
<1>1. nextPipes \in Seq(PipeIds)
  BY DEF Sound, TypeInv, TypeOK, TypeManager
<1>2. PICK n \in Nat : /\ DOMAIN nextPipes = 1 .. (n + 1) /\ DOMAIN nextPipes' = 1 .. n
                       /\ \A i \in 1 .. n : nextPipes'[i] = nextPipes[i + 1]
                       /\ Head(nextPipes) = nextPipes[1]
  BY <1>1, TailPlaces
<1>3. 1 \in Waiting(Head(nextPipes)) /\ Head(nextPipes) \in PipeIds
  <2>1. 1 \in DOMAIN nextPipes
    BY <1>2
  <2> QED BY <1>1, <1>2, <2>1, ElementOfSeq, LenProperties DEF Waiting
<1>4. ASSUME NEW p, p # Head(nextPipes), NEW i \in Waiting(p) PROVE Waiting(p)' # {}
  <2>1. i \in 1 .. (n + 1) /\ nextPipes[i] = p /\ i # 1
    BY <1>2, <1>4 DEF Waiting
  <2>2. i - 1 \in 1 .. n /\ (i - 1) + 1 = i
    BY <2>1
  <2>3. nextPipes'[i - 1] = p
    BY <1>2, <2>1, <2>2
  <2> QED BY <1>2, <2>2, <2>3 DEF Waiting
<1> QED BY <1>3, <1>4

\* Run takes a pipe: of a campaign that nobody disturbed it reads "running", its
\* checkpoint and the upper id. A pipe that it releases is that of another campaign.
LEMMA ExactRunPop ==
    ASSUME Sound, ExactInv, NEW c \in Campaigns \ disturbed', RunPop
    PROVE  Exact(c)'
<1>1. /\ UNCHANGED <<status, last, maxID, audience, delivered, failed, pipes, stage, stopped, withErrors, disturbed>>
      /\ UNCHANGED <<campMsgQ, runBatch, scanPc, scanList, wpc, wmsg>>
      /\ nextPipes # <<>> /\ nextPipes' = Tail(nextPipes) /\ runPc = "idle"
  BY DEF RunPop, db, scanVars, workVars, hist
<1>2. PICK q \in PipeIds : q = Head(nextPipes)
  BY <1>1, WaitingPopped
<1>3. /\ runPipe = NoPipe /\ runBatch = {}
      /\ status[camp[q]] = "running" => runPc' = "batch" /\ runPipe' = q /\ runTo' = maxID[camp[q]]
      /\ status[camp[q]] # "running" => runPc' = "idle" /\ runPipe' = NoPipe
  BY <1>1, <1>2 DEF RunPop, Sound, TypeInv, TypeOK, TypeRun, OrderInv, OrderRun
<1>4. Exact(c)
  BY <1>1 DEF ExactInv
<1>5. Waiting(q) # {} /\ \A p : p # q /\ Waiting(p) # {} => Waiting(p)' # {}
  BY <1>1, <1>2, WaitingPopped
<1>6. \A p, s : InQueue(p, s)' <=> InQueue(p, s)
  BY <1>1 DEF InQueue
<1>7. CASE pipes[c] # q
  <2>1. SameRow(c)
    BY <1>1 DEF SameRow
  <2> QED BY <1>1, <1>3, <1>4, <1>5, <1>6, <1>7, <2>1, ExactRunOther
<1>8. CASE pipes[c] = q
  <2>1. stage[q] = "open" /\ camp[q] = c /\ q # NoPipe
    <3>1. Token(q) # 0
      <4>1. nextPipes \in Seq(PipeIds) /\ Waiting(q) = PlacesIn(nextPipes, {q})
        BY DEF Sound, TypeInv, TypeOK, TypeManager, Waiting, PlacesIn
      <4>2. Cardinality(Waiting(q)) \in Nat /\ Cardinality(Waiting(q)) # 0
        BY <1>5, <4>1, PlacesFinite, FS_EmptySet
      <4> QED BY <4>2 DEF Token
    <3>2. Out(q) # 0
      BY <3>1, NothingLeft DEF Sound
    <3>3. stage[q] = "open"
      BY <3>2 DEF Sound, CountInv
    <3>4. q # NoPipe
      BY CapAssumption
    <3> QED BY <1>8, <3>3, <3>4, PipeOf
  <2>2. Sending(c, q) /\ Healthy(q)
    BY <1>4, <1>8, <2>1 DEF Exact, Piped
  <2>3. runPc' = "batch" /\ runPipe' = q /\ runTo' = MaxSub
    BY <1>3, <2>1, <2>2 DEF Sending
  <2>4. \A s : Ahead(q, s)' <=> Ahead(q, s)
    <3>1. \A s : ~ InBatch(q, s) /\ ~ InBatch(q, s)'
      BY <1>1, <1>3 DEF InBatch
    <3>2. \A s : AtWorker(q, s)' <=> AtWorker(q, s)
      BY <1>1 DEF AtWorker
    <3> QED BY <1>6, <3>1, <3>2 DEF Ahead
  <2>5. Progress(c, q)'
    <3>1. Progress(c, q)
      BY <2>2 DEF Sending
    <3> QED BY <1>1, <2>4, <3>1 DEF Progress, TriedOnce, Untried
  <2>6. Sending(c, q)'
    BY <1>1, <2>2, <2>3, <2>5 DEF Sending, Held
  <2>7. Piped(c)'
    BY <1>1, <1>8, <2>1, <2>2, <2>6 DEF Piped, Healthy
  <2>8. AtRest(c)' /\ Listed(c)' /\ audience'[c] = Subs
    BY <1>1, <1>4, <1>8, <2>1 DEF AtRest, Listed, Exact
  <2> QED BY <2>7, <2>8 DEF Exact
<1> QED BY <1>7, <1>8

\* The first n of a set of numbers are some, if the set has any, and nothing of the set
\* is below one of them that is not among them.
LEMMA FirstOfProperty ==
    ASSUME NEW k \in Nat, NEW S, S \subseteq 0 .. k, NEW n \in Nat \ {0}
    PROVE  /\ FirstOf(S, n) \subseteq S
           /\ S # {} => FirstOf(S, n) # {}
           /\ \A x \in FirstOf(S, n), y \in S : y < x => y \in FirstOf(S, n)
<1> DEFINE Below(x) == {y \in S : y < x}
<1>1. \A x : IsFiniteSet(Below(x)) /\ Cardinality(Below(x)) \in Nat
  <2>1. IsFiniteSet(0 .. k)
    BY FS_Interval
  <2>2. \A x : Below(x) \in SUBSET (0 .. k)
    OBVIOUS
  <2> QED BY <2>1, <2>2, FS_Subset, FS_CardinalityType
<1>2. FirstOf(S, n) = {x \in S : Cardinality(Below(x)) < n}
  BY DEF FirstOf
<1>3. ASSUME S # {} PROVE FirstOf(S, n) # {}
  <2>1. MinOf(S) \in S /\ \A y \in S : MinOf(S) <= y
    <3>1. S \subseteq Nat
      OBVIOUS
    <3> QED BY <1>3, <3>1, MinOfProperty
  <2>2. Below(MinOf(S)) = {}
    <3>1. PICK m \in S : m = MinOf(S) /\ \A y \in S : m <= y
      BY <2>1
    <3>2. \A y \in S : y \in Nat /\ ~ (y < m)
      BY <3>1
    <3> QED BY <3>1, <3>2
  <2>3. Cardinality(Below(MinOf(S))) = 0
    BY <2>2, FS_EmptySet
  <2> QED BY <1>2, <2>1, <2>3
<1>4. ASSUME NEW x \in FirstOf(S, n), NEW y \in S, y < x PROVE y \in FirstOf(S, n)
  <2>1. x \in S /\ Cardinality(Below(x)) < n
    BY <1>2
  <2>2. Below(y) \subseteq Below(x)
    <3>1. \A z \in S : z < y => z < x
      <4>1. x \in Nat /\ y \in Nat /\ \A z \in S : z \in Nat
        BY <2>1
      <4> QED BY <1>4, <4>1
    <3> QED BY <3>1
  <2>3. Cardinality(Below(y)) <= Cardinality(Below(x))
    BY <1>1, <2>2, FS_Subset
  <2>4. Cardinality(Below(y)) < n
    <3> HIDE DEF Below
    <3> QED BY <1>1, <2>1, <2>3
  <2> QED BY <1>2, <2>4
<1> QED BY <1>2, <1>3, <1>4

\* Of an undisturbed campaign the batch is the next of its subscribers above the
\* checkpoint: none only when there are none, and leaving out none below its last.
LEMMA BatchNext ==
    ASSUME Sound, NEW c \in Campaigns, camp[runPipe] = c, status[c] = "running", audience[c] = Subs,
           runPc = "batch", runPipe \in PipeIds, runTo = MaxSub
    PROVE  /\ Batch = {} => last[c] = MaxSub
           /\ Batch # {} => /\ MaxOf(Batch) \in Subs /\ last[c] < MaxOf(Batch)
                            /\ \A s \in Subs : s <= MaxOf(Batch) <=> s <= last[c] \/ s \in Batch
           /\ \A s \in Batch : s \in Subs /\ last[c] < s
<1> DEFINE S == {s \in Subs : runFrom < s /\ s <= runTo}
<1>1. Batch = FirstOf(S, BatchSize)
  BY DEF Batch, Deleted
<1>2. runFrom = last[c] /\ last[c] \in 0 .. MaxSub /\ MaxSub \in Nat
  BY OrderTypes DEF Sound, OrderInv, OrderRun
<1>3. S = {s \in 1 .. MaxSub : last[c] < s}
  BY <1>2 DEF Subs
<1>4. S \subseteq 0 .. MaxSub /\ BatchSize \in Nat \ {0}
  BY <1>2, <1>3, CapAssumption
<1>5. /\ Batch \subseteq S
      /\ S # {} => Batch # {}
      /\ \A x \in Batch, y \in S : y < x => y \in Batch
  <2> HIDE DEF S
  <2> QED BY <1>1, <1>2, <1>4, FirstOfProperty
<1>6. Batch = {} => last[c] = MaxSub
  <2>1. last[c] # MaxSub => MaxSub \in S
    BY <1>2, <1>3
  <2> QED BY <1>5, <2>1
<1>7. \A s \in Batch : s \in Subs /\ last[c] < s
  BY <1>3, <1>5 DEF Subs
<1>8. ASSUME Batch # {}
      PROVE  /\ MaxOf(Batch) \in Subs /\ last[c] < MaxOf(Batch)
             /\ \A s \in Subs : s <= MaxOf(Batch) <=> s <= last[c] \/ s \in Batch
  <2>1. Batch \subseteq 0 .. MaxSub
    BY <1>4, <1>5
  <2>2. MaxOf(Batch) \in Batch /\ \A s \in Batch : s <= MaxOf(Batch)
    BY <1>2, <1>8, <2>1, MaxOfProperty
  <2>3. MaxOf(Batch) \in Subs /\ last[c] < MaxOf(Batch)
    BY <1>7, <2>2
  <2>4. PICK m \in Batch : m = MaxOf(Batch) /\ m \in 1 .. MaxSub /\ last[c] < m /\ \A s \in Batch : s <= m
    BY <2>2, <2>3 DEF Subs
  <2>5. ASSUME NEW s \in Subs, s <= m, ~ (s <= last[c]) PROVE s \in Batch
    <3>1. s \in S
      BY <1>2, <1>3, <2>5 DEF Subs
    <3>2. s = m \/ s < m
      BY <2>4, <2>5 DEF Subs
    <3> QED BY <1>5, <2>4, <3>1, <3>2
  <2>6. ASSUME NEW s \in Subs, s <= last[c] PROVE s <= m
    BY <1>2, <2>4, <2>6 DEF Subs
  <2> QED BY <2>3, <2>4, <2>5, <2>6
<1> QED BY <1>6, <1>7, <1>8

\* A batch is fetched: its subscribers are untried, ahead now and not above the
\* checkpoint any more; when there is none everybody has been fetched.
LEMMA ExactRunFetch ==
    ASSUME Sound, ExactInv, NEW c \in Campaigns \ disturbed', RunFetch
    PROVE  Exact(c)'
<1>1. /\ UNCHANGED <<status, maxID, audience, delivered, failed, pipes, stage, stopped, withErrors, disturbed>>
      /\ UNCHANGED <<campMsgQ, nextPipes, scanPc, scanList, wpc, wmsg, camp>> /\ runPc = "batch"
  BY DEF RunFetch, mgr, scanVars, workVars, hist
<1>2. PICK d \in Campaigns : /\ runPipe \in PipeIds /\ runPipe # NoPipe
                             /\ camp[runPipe] = d /\ pipes[d] = runPipe /\ stage[runPipe] = "open"
  BY <1>1, RunsOne
<1>3. /\ Batch = {} => runPipe' = NoPipe /\ runPc' = "idle" /\ runBatch' = {} /\ last' = last
      /\ Batch # {} => /\ runPipe' = runPipe /\ runPc' = "new" /\ runBatch' = Batch
                       /\ last' = [last EXCEPT ![d] = MaxOf(Batch)]
  BY <1>2 DEF RunFetch, Checkpoint
<1>4. Exact(c)
  BY <1>1 DEF ExactInv
<1>5. last \in [Campaigns -> 0 .. MaxSub] /\ MaxSub \in Nat
  BY OrderTypes DEF Sound
<1>6. CASE c # d
  <2>1. SameRow(c)
    BY <1>1, <1>3, <1>5, <1>6 DEF SameRow
  <2>2. pipes[c] # NoPipe => pipes[c] # runPipe /\ pipes[c] # runPipe'
    BY <1>2, <1>3, <1>6, PipeOf
  <2>3. \A s : InQueue(pipes[c], s)' <=> InQueue(pipes[c], s)
    BY <1>1 DEF InQueue
  <2>4. Waiting(pipes[c])' = Waiting(pipes[c])
    BY <1>1 DEF Waiting
  <2> QED BY <1>1, <1>4, <2>1, <2>2, <2>3, <2>4, ExactRunOther
<1>7. CASE c = d
  <2>0. PICK q \in PipeIds : q = runPipe
    BY <1>2
  <2>1. Sending(c, q) /\ Healthy(q)
    BY <1>2, <1>4, <1>7, <2>0 DEF Exact, Piped
  <2>2. /\ Batch = {} => last[c] = MaxSub
        /\ Batch # {} => /\ MaxOf(Batch) \in Subs /\ last[c] < MaxOf(Batch)
                         /\ \A s \in Subs : s <= MaxOf(Batch) <=> s <= last[c] \/ s \in Batch
        /\ \A s \in Batch : s \in Subs /\ last[c] < s
    <3>1. status[c] = "running" /\ runTo = MaxSub /\ audience[c] = Subs
      BY <1>1, <1>4, <2>0, <2>1 DEF Sending, Exact
    <3> QED BY <1>1, <1>2, <1>7, <3>1, BatchNext
  <2>3. \A s : Ahead(q, s)' <=> Ahead(q, s) \/ s \in Batch
    <3>1. runBatch = {}
      BY <1>1 DEF Sound, OrderInv, OrderRun
    <3>2. \A s : ~ InBatch(q, s) /\ (InBatch(q, s)' <=> s \in Batch)
      BY <1>2, <1>3, <2>0, <3>1 DEF InBatch
    <3>3. \A s : (AtWorker(q, s)' <=> AtWorker(q, s)) /\ (InQueue(q, s)' <=> InQueue(q, s))
      BY <1>1 DEF AtWorker, InQueue
    <3> QED BY <3>2, <3>3 DEF Ahead
  <2>4. \A s \in Subs : (TriedOnce(c, s)' <=> TriedOnce(c, s)) /\ (Untried(c, s)' <=> Untried(c, s))
    BY <1>1 DEF TriedOnce, Untried
  <2>5. Progress(c, q)
    BY <2>1 DEF Sending
  <2>6. Progress(c, q)' /\ (Held(q)' \/ last'[c] = MaxSub)
    <3>1. CASE Batch = {}
      BY <1>3, <2>2, <2>3, <2>4, <2>5, <3>1 DEF Progress
    <3>2. CASE Batch # {}
      <4>1. last'[c] = MaxOf(Batch) /\ runPipe' = q
        BY <1>3, <1>5, <1>7, <2>0, <3>2
      <4>2. ASSUME NEW s \in Subs, s <= last'[c], ~ Ahead(q, s)' PROVE TriedOnce(c, s)'
        <5>1. s <= last[c] /\ ~ Ahead(q, s)
          BY <2>2, <2>3, <3>2, <4>1, <4>2
        <5> QED BY <2>4, <2>5, <5>1 DEF Progress
      <4>3. ASSUME NEW s \in Subs, s > last'[c] \/ Ahead(q, s)' PROVE Untried(c, s)'
        <5>0. s \in Nat /\ last[c] \in Nat /\ MaxOf(Batch) \in Nat /\ last[c] < MaxOf(Batch)
          BY <1>5, <2>2, <3>2 DEF Subs
        <5>1. s > last[c] \/ Ahead(q, s)
          BY <2>2, <2>3, <4>1, <4>3, <5>0
        <5> QED BY <2>4, <2>5, <5>1 DEF Progress
      <4> QED BY <4>1, <4>2, <4>3 DEF Progress, Held
    <3> QED BY <3>1, <3>2
  <2>7. Sending(c, q)'
    BY <1>1, <1>3, <2>1, <2>6 DEF Sending
  <2>8. Piped(c)'
    BY <1>1, <1>2, <1>7, <2>0, <2>1, <2>7 DEF Piped, Healthy
  <2>9. AtRest(c)' /\ Listed(c)' /\ audience'[c] = Subs
    BY <1>1, <1>2, <1>4, <1>7 DEF AtRest, Listed, Exact
  <2> QED BY <2>8, <2>9 DEF Exact
<1> QED BY <1>6, <1>7

\* The least of Run's batch is above everything that its pipe has queued or in hand.
LEMMA LeastOfBatch ==
    ASSUME Sound, runBatch # {}, runPipe # NoPipe
    PROVE  /\ MinOf(runBatch) \in runBatch /\ MinOf(runBatch) \in Subs
           /\ ~ InQueue(runPipe, MinOf(runBatch)) /\ ~ AtWorker(runPipe, MinOf(runBatch))
<1>1. PICK m \in runBatch : m = MinOf(runBatch) /\ m \in Nat /\ m \in Subs
  BY MinOfProperty, OrderTypes DEF Sound
<1>2. ASSUME NEW i \in DOMAIN campMsgQ, campMsgQ[i].pipe = runPipe PROVE campMsgQ[i].sub # m
  <2>1. campMsgQ[i].sub < m /\ campMsgQ[i].sub \in Nat
    BY <1>1, <1>2, OrderTypes DEF Sound, OrderInv, OrderQueue
  <2> QED BY <1>1, <2>1
<1>3. ASSUME NEW w \in Workers, wmsg[w].pipe = runPipe PROVE wmsg[w].sub # m
  <2>1. wmsg[w].sub < m
    BY <1>1, <1>3 DEF Sound, OrderInv, OrderWorkers
  <2>2. wmsg[w].sub \in Nat
    BY OrderTypes DEF Sound
  <2> QED BY <1>1, <2>1, <2>2
<1> QED BY <1>1, <1>2, <1>3 DEF InQueue, AtWorker

\* The message that Run queues stays ahead.
LEMMA ExactRunSend ==
    ASSUME Sound, ExactInv, NEW c \in Campaigns \ disturbed', RunSend
    PROVE  Exact(c)'
<1>1. /\ UNCHANGED <<status, last, maxID, audience, delivered, failed, pipes, stage, stopped, withErrors, disturbed>>
      /\ UNCHANGED <<runPipe, runTo, nextPipes, scanPc, scanList, wpc, wmsg, camp>>
      /\ runPc = "send" /\ runPc' = "new" /\ runBatch' = runBatch \ {MinOf(runBatch)} /\ runBatch # {}
  BY DEF RunSend, db, obj, scanVars, workVars, hist, Sound, TypeInv, TypeOK, TypeRun
<1>2. PICK d \in Campaigns : /\ runPipe \in PipeIds /\ runPipe # NoPipe
                             /\ camp[runPipe] = d /\ pipes[d] = runPipe /\ stage[runPipe] = "open"
  BY <1>1, RunsOne
<1>3. PICK m \in Subs : m = MinOf(runBatch) /\ m \in runBatch
  BY <1>1, <1>2, LeastOfBatch
<1>4. PICK e \in Messages : /\ e.pipe = runPipe /\ e.sub = m /\ campMsgQ' = Append(campMsgQ, e)
  <2>1. [pipe |-> runPipe, camp |-> camp[runPipe], sub |-> m] \in Messages
    BY <1>2 DEF Messages
  <2> QED BY <1>3, <2>1 DEF RunSend
<1>5. \A p, s : InQueue(p, s)' <=> InQueue(p, s) \/ (p = runPipe /\ s = m)
  <2>1. PICK n \in Nat : /\ DOMAIN campMsgQ = 1 .. n /\ DOMAIN Append(campMsgQ, e) = 1 .. (n + 1)
                         /\ \A i \in DOMAIN campMsgQ : Append(campMsgQ, e)[i] = campMsgQ[i]
                         /\ Append(campMsgQ, e)[n + 1] = e
    <3>1. campMsgQ \in Seq(Messages)
      BY OrderTypes DEF Sound
    <3> QED BY <3>1, AppendPlaces
  <2>2. DOMAIN campMsgQ' = DOMAIN campMsgQ \cup {n + 1} /\ campMsgQ'[n + 1] = e
        /\ \A i \in DOMAIN campMsgQ : campMsgQ'[i] = campMsgQ[i]
    BY <1>4, <2>1
  <2> QED BY <1>4, <2>2 DEF InQueue
<1>6. Exact(c)
  BY <1>1 DEF ExactInv
<1>7. \A p, s : Ahead(p, s)' <=> Ahead(p, s)
  <2>1. \A p, s : InBatch(p, s) <=> InBatch(p, s)' \/ (p = runPipe /\ s = m)
    BY <1>1, <1>3 DEF InBatch
  <2>2. \A p, s : AtWorker(p, s)' <=> AtWorker(p, s)
    BY <1>1 DEF AtWorker
  <2> QED BY <1>5, <2>1, <2>2 DEF Ahead
<1>8. ASSUME pipes[c] # NoPipe PROVE SamePipe(pipes[c])
  BY <1>1, <1>7 DEF SamePipe, Held, Waiting
<1> QED BY <1>1, <1>6, <1>8, ExactKept DEF SameRow

\* A message that fails to render has been tried, and its subscriber is ahead no more.
LEMMA ExactRunRenderFails ==
    ASSUME Sound, ExactInv, NEW c \in Campaigns \ disturbed', RunRenderFails
    PROVE  Exact(c)'
<1>1. /\ UNCHANGED <<status, last, maxID, audience, delivered, pipes, stage, stopped, withErrors, disturbed>>
      /\ UNCHANGED <<runPc, runPipe, runTo, campMsgQ, nextPipes, scanPc, scanList, wpc, wmsg>>
      /\ runPc = "new" /\ runBatch' = runBatch \ {MinOf(runBatch)} /\ runBatch # {}
      /\ failed' = failed \cup {<<camp[runPipe], MinOf(runBatch)>>}
  BY DEF RunRenderFails, db, mgr, obj, scanVars, workVars
<1>2. PICK d \in Campaigns : /\ runPipe \in PipeIds /\ runPipe # NoPipe
                             /\ camp[runPipe] = d /\ pipes[d] = runPipe /\ stage[runPipe] = "open"
  BY <1>1, RunsOne
<1>3. PICK m \in Subs : /\ m = MinOf(runBatch) /\ m \in runBatch
                        /\ ~ InQueue(runPipe, m) /\ ~ AtWorker(runPipe, m)
  BY <1>1, <1>2, LeastOfBatch
<1>4. Exact(c)
  BY <1>1 DEF ExactInv
<1>5. \A p, s : (InQueue(p, s)' <=> InQueue(p, s)) /\ (AtWorker(p, s)' <=> AtWorker(p, s))
  BY <1>1 DEF InQueue, AtWorker
<1>6. CASE c # d
  <2>1. SameRow(c)
    BY <1>1, <1>2, <1>6 DEF SameRow
  <2>2. pipes[c] # NoPipe => pipes[c] # runPipe
    BY <1>2, <1>6, PipeOf
  <2>3. Waiting(pipes[c])' = Waiting(pipes[c])
    BY <1>1 DEF Waiting
  <2> QED BY <1>1, <1>4, <1>5, <2>1, <2>2, <2>3, ExactRunOther
<1>7. CASE c = d
  <2>0. PICK q \in PipeIds : q = runPipe
    BY <1>2
  <2>1. Sending(c, q) /\ Healthy(q) /\ Progress(c, q)
    BY <1>2, <1>4, <1>7, <2>0 DEF Exact, Piped, Sending
  <2>2. \A s : s # m => (Ahead(q, s)' <=> Ahead(q, s))
    BY <1>1, <1>3, <1>5 DEF Ahead, InBatch
  <2>3. Ahead(q, m) /\ ~ Ahead(q, m)'
    BY <1>1, <1>3, <1>5, <2>0 DEF Ahead, InBatch
  <2>4. Untried(c, m)
    BY <2>1, <2>3 DEF Progress
  <2>5. TriedOnce(c, m)'
    BY <1>1, <1>2, <1>3, <1>7, <2>4 DEF TriedOnce, Untried
  <2>6. \A s \in Subs : s # m => (TriedOnce(c, s)' <=> TriedOnce(c, s)) /\ (Untried(c, s)' <=> Untried(c, s))
    BY <1>1, <1>2, <1>3, <1>7 DEF TriedOnce, Untried
  <2>7. ~ (m > last[c])
    <3>1. m <= last[c] /\ m \in Nat /\ last[c] \in Nat
      BY <1>2, <1>3, <1>7, OrderTypes DEF Sound, OrderInv, OrderRun
    <3> QED BY <3>1
  <2>8. Progress(c, q)'
    BY <1>1, <2>1, <2>2, <2>3, <2>5, <2>6, <2>7 DEF Progress
  <2>9. Sending(c, q)'
    BY <1>1, <2>1, <2>8 DEF Sending, Held, Waiting
  <2>10. Piped(c)'
    BY <1>1, <1>2, <1>7, <2>0, <2>1, <2>9 DEF Piped, Healthy
  <2>11. AtRest(c)' /\ Listed(c)' /\ audience'[c] = Subs
    BY <1>1, <1>2, <1>4, <1>7 DEF AtRest, Listed, Exact
  <2> QED BY <2>10, <2>11 DEF Exact
<1> QED BY <1>6, <1>7

\* The batch is queued: the pipe waits for its next one, or it is stopped and its
\* campaign disturbed.
LEMMA ExactRunRequeue ==
    ASSUME Sound, ExactInv, NEW c \in Campaigns \ disturbed', RunRequeue
    PROVE  Exact(c)'
<1>1. /\ UNCHANGED <<status, last, maxID, audience, delivered, failed, pipes, stage>>
      /\ UNCHANGED <<runTo, runBatch, campMsgQ, scanPc, scanList, wpc, wmsg, camp>>
      /\ runPc = "new" /\ runPc' = "idle" /\ runPipe' = NoPipe /\ runBatch = {}
  BY DEF RunRequeue, RunStay, db, scanVars, workVars
<1>2. PICK d \in Campaigns : /\ runPipe \in PipeIds /\ runPipe # NoPipe
                             /\ camp[runPipe] = d /\ pipes[d] = runPipe /\ stage[runPipe] = "open"
  BY <1>1, RunsOne
<1>3. \/ nextPipes' = Append(nextPipes, runPipe) /\ UNCHANGED <<stopped, withErrors, disturbed>>
      \/ Stop(runPipe, FALSE) /\ UNCHANGED nextPipes
  BY DEF RunRequeue, Release
<1>4. Exact(c)
  BY <1>3 DEF ExactInv, Stop
<1>5. \A p, s : Ahead(p, s)' <=> Ahead(p, s)
  BY <1>1 DEF Ahead, InBatch, InQueue, AtWorker
<1>6. \A p : Waiting(p) # {} => Waiting(p)' # {}
  BY <1>2, <1>3, WaitingPushed DEF Waiting
<1>7. ASSUME pipes[c] # NoPipe PROVE SamePipe(pipes[c])
  <2>1. CASE Stop(runPipe, FALSE)
    <3>1. pipes[c] # runPipe /\ stopped'[pipes[c]] = stopped[pipes[c]]
          /\ withErrors'[pipes[c]] = withErrors[pipes[c]]
      BY <1>2, <1>7, <2>1, StopDisturbs
    <3> QED BY <1>1, <1>5, <1>6, <3>1 DEF SamePipe, Held
  <2>2. CASE nextPipes' = Append(nextPipes, runPipe) /\ UNCHANGED <<stopped, withErrors, disturbed>>
    <3>1. PICK q \in PipeIds : q = runPipe
      BY <1>2
    <3>2. Waiting(q)' # {}
      BY <2>2, <3>1, WaitingPushed
    <3> QED BY <1>1, <1>5, <1>6, <2>2, <3>1, <3>2 DEF SamePipe, Held
  <2> QED BY <1>3, <2>1, <2>2
<1> QED BY <1>1, <1>4, <1>7, ExactKept DEF SameRow

\* A fetch that fails disturbs the campaign whose pipe it was for.
LEMMA ExactRunFetchFails ==
    ASSUME Sound, ExactInv, NEW c \in Campaigns \ disturbed', RunFetchFails
    PROVE  Exact(c)'
<1>1. /\ UNCHANGED <<status, last, maxID, audience, delivered, failed, pipes, stage>>
      /\ UNCHANGED <<runBatch, campMsgQ, scanPc, scanList, wpc, wmsg, camp>>
      /\ runPc' = "idle" /\ runPipe' = NoPipe
  BY DEF RunFetchFails, db, scanVars, workVars
<1>2. \E q \in PipeIds :
          /\ Stop(q, FALSE)
          /\ \A p : p # q /\ Waiting(p) # {} => Waiting(p)' # {}
          /\ runPipe \in {q, NoPipe}
  <2>1. CASE runPc = "idle" /\ nextPipes # <<>> /\ Release(Head(nextPipes)) /\ nextPipes' = Tail(nextPipes)
    <3>1. runPipe = NoPipe
      BY <2>1 DEF Sound, TypeInv, TypeOK, TypeRun
    <3> QED BY <2>1, <3>1, WaitingPopped DEF Release
  <2>2. CASE runPc = "batch" /\ Release(runPipe) /\ UNCHANGED nextPipes
    <3>1. runPipe \in PipeIds
      BY <2>2, RunsOne
    <3> QED BY <2>2, <3>1 DEF Release, Waiting
  <2> QED BY <2>1, <2>2 DEF RunFetchFails
<1>3. PICK q \in PipeIds :
          /\ Stop(q, FALSE)
          /\ \A p : p # q /\ Waiting(p) # {} => Waiting(p)' # {}
          /\ runPipe \in {q, NoPipe}
  BY <1>2
<1>4. Exact(c)
  BY <1>3 DEF ExactInv, Stop
<1>5. SameRow(c)
  BY <1>1 DEF SameRow
<1>6. pipes[c] # NoPipe =>
               /\ pipes[c] # runPipe /\ pipes[c] # runPipe'
               /\ stopped'[pipes[c]] = stopped[pipes[c]] /\ withErrors'[pipes[c]] = withErrors[pipes[c]]
               /\ Waiting(pipes[c]) # {} => Waiting(pipes[c])' # {}
  BY <1>1, <1>3, StopDisturbs
<1>7. \A s : InQueue(pipes[c], s)' <=> InQueue(pipes[c], s)
  BY <1>1 DEF InQueue
<1> QED BY <1>1, <1>4, <1>5, <1>6, <1>7, ExactRunOther

\* next-campaigns: a campaign that nobody disturbed and that has a pipe is not listed; one
\* that is listed has subscribers, so it is running and has its upper id.
LEMMA ExactScanQuery ==
    ASSUME Subs # {}, Sound, ExactInv, NEW c \in Campaigns \ disturbed', ScanQuery
    PROVE  Exact(c)'
<1>1. /\ UNCHANGED <<last, audience, delivered, failed, pipes, stage, stopped, withErrors, disturbed>>
      /\ UNCHANGED <<runPipe, runBatch, runTo, runPc, campMsgQ, nextPipes, wpc, wmsg>>
      /\ scanPc = "query" /\ scanList' = Picked
  BY DEF ScanQuery, mgr, obj, runVars, workVars, hist
<1>2. Exact(c)
  BY <1>1 DEF ExactInv
<1>3. audience[c] = Subs /\ MaxOf(Subs) = MaxSub
  <2>1. Subs \subseteq 0 .. MaxSub /\ MaxSub \in Nat /\ MaxSub \in Subs
    BY CapAssumption DEF Subs
  <2>2. MaxOf(Subs) \in Subs /\ \A s \in Subs : s <= MaxOf(Subs)
    BY <2>1, MaxOfProperty
  <2>3. MaxOf(Subs) = MaxSub
    BY <2>1, <2>2 DEF Subs
  <2> QED BY <1>2, <2>3 DEF Exact
<1>4. /\ c \in Picked => status'[c] = "running" /\ maxID'[c] = MaxSub
      /\ c \notin Picked => status'[c] = status[c] /\ maxID'[c] = maxID[c]
  BY <1>3 DEF ScanQuery
<1>5. Listed(c)'
  BY <1>1, <1>4 DEF Listed
<1>6. CASE c \in Picked
  <2>1. pipes[c] = NoPipe
    BY <1>1, <1>6 DEF Picked, Sound, TypeInv, ScanKnowsPipes
  <2>2. Unstarted(c)
    BY <1>2, <1>6, <2>1 DEF Exact, AtRest, Picked
  <2>3. AtRest(c)'
    BY <1>1, <1>4, <1>6, <2>2 DEF AtRest, Unstarted, Untried
  <2>4. Piped(c)'
    BY <1>1, <2>1 DEF Piped
  <2> QED BY <1>1, <1>3, <1>5, <2>3, <2>4 DEF Exact
<1>7. CASE c \notin Picked
  <2>1. SameRow(c)
    BY <1>1, <1>4, <1>7 DEF SameRow
  <2>2. ~ (c \in scanList')
    BY <1>1, <1>7
  <2>3. pipes[c] # NoPipe => SamePipe(pipes[c])
    BY <1>1, SamePipeKept
  <2> QED BY <1>1, <1>2, <2>1, <2>2, <2>3, ExactKept
<1> QED BY <1>6, <1>7

\* A campaign that newPipe refuses stays unstarted.
LEMMA ExactScanRefuse ==
    ASSUME Sound, ExactInv, NEW c \in Campaigns \ disturbed', NEW d \in Campaigns, ScanRefuse(d)
    PROVE  Exact(c)'
<1>1. /\ UNCHANGED <<last, maxID, audience, delivered, failed, pipes, stage, stopped, withErrors, disturbed>>
      /\ UNCHANGED <<runPipe, runBatch, runTo, runPc, campMsgQ, nextPipes, wpc, wmsg>>
      /\ scanPc = "start" /\ d \in scanList /\ scanList' = scanList \ {d}
  BY DEF ScanRefuse, ScanNext, mgr, obj, runVars, workVars, hist
<1>2. Exact(c)
  BY <1>1 DEF ExactInv
<1>3. status \in [Campaigns -> Statuses \cup {Deleted}]
  BY DEF Sound, TypeInv, TypeOK, TypeDB
<1>4. CASE c # d
  <2>1. SameRow(c)
    BY <1>1, <1>3, <1>4 DEF SameRow, ScanRefuse, SetStatus
  <2>2. pipes[c] # NoPipe => SamePipe(pipes[c])
    BY <1>1, SamePipeKept
  <2> QED BY <1>1, <1>2, <2>1, <2>2, ExactKept
<1>5. CASE c = d
  <2>1. pipes[c] = NoPipe /\ status[c] = "running"
    BY <1>1, <1>2, <1>5 DEF Exact, Listed, Sound, TypeInv, ScanKnowsPipes
  <2>2. Unstarted(c)
    BY <1>2, <2>1 DEF Exact, AtRest
  <2>3. status'[c] # "finished"
    BY <1>3, <1>5, <2>1 DEF ScanRefuse, SetStatus, StatusAfter, Deleted
  <2>4. AtRest(c)' /\ Piped(c)'
    BY <1>1, <2>1, <2>2, <2>3 DEF AtRest, Piped, Unstarted, Untried
  <2>5. Listed(c)'
    BY <1>1, <1>5 DEF Listed
  <2> QED BY <1>1, <1>2, <2>4, <2>5 DEF Exact
<1> QED BY <1>4, <1>5

\* A new pipe is opened for a campaign that is unstarted, and waits for Run; a pipe that is
\* not queued is that of a campaign which is from then on disturbed.
LEMMA ExactScanStart ==
    ASSUME Sound, ExactInv, NEW c \in Campaigns \ disturbed', NEW d \in Campaigns, ScanStart(d)
    PROVE  Exact(c)'
<1>1. /\ UNCHANGED <<status, last, maxID, audience, delivered, failed>>
      /\ UNCHANGED <<runPipe, runBatch, runTo, runPc, campMsgQ, wpc, wmsg>>
      /\ scanPc = "start" /\ d \in scanList /\ scanList' = scanList \ {d}
  BY DEF ScanStart, ScanNext, db, runVars, workVars
<1>2. PICK q \in PipeIds :
          /\ stage[q] = "free" /\ \A w \in Workers : wmsg[w].pipe # q
          /\ stage' = [stage EXCEPT ![q] = "open"]
          /\ withErrors' = [withErrors EXCEPT ![q] = FALSE]
          /\ pipes' = [pipes EXCEPT ![d] = q]
          /\ LET full == ~ Room(nextPipes, NextCap) IN
                /\ stopped' = [stopped EXCEPT ![q] = full]
                /\ nextPipes' = IF full THEN nextPipes ELSE Append(nextPipes, q)
                /\ disturbed' = IF full THEN disturbed \cup {d} ELSE disturbed
  BY DEF ScanStart, FreePipes
<1>3. /\ stage \in [PipeIds -> Stages] /\ withErrors \in [PipeIds -> BOOLEAN]
      /\ stopped \in [PipeIds -> BOOLEAN] /\ pipes \in [Campaigns -> PipeIds \cup {NoPipe}]
  BY DEF Sound, TypeInv, TypeOK, TypePipes, TypeManager
<1>4. Exact(c)
  BY <1>2 DEF ExactInv
<1>5. \A p : Waiting(p) # {} => Waiting(p)' # {}
  BY <1>2, WaitingPushed DEF Waiting
<1>6. \A p, s : Ahead(p, s)' <=> Ahead(p, s)
  BY <1>1 DEF Ahead, InBatch, InQueue, AtWorker
<1>7. CASE c # d
  <2>1. SameRow(c) /\ pipes'[c] = pipes[c]
    BY <1>1, <1>2, <1>3, <1>7 DEF SameRow
  <2>2. ASSUME pipes[c] # NoPipe PROVE SamePipe(pipes[c])
    <3>1. pipes[c] \in PipeIds \ {q}
      BY <1>2, <2>2, PipeOf
    <3>2. PICK p \in PipeIds \ {q} : p = pipes[c]
      BY <3>1
    <3>3. stage'[p] = stage[p] /\ withErrors'[p] = withErrors[p] /\ stopped'[p] = stopped[p]
      BY <1>2, <1>3, <3>2
    <3> QED BY <1>1, <1>5, <1>6, <2>1, <3>2, <3>3 DEF SamePipe, Held
  <2> QED BY <1>1, <1>4, <2>1, <2>2, ExactKept
<1>8. CASE c = d
  <2>1. pipes[c] = NoPipe /\ status[c] = "running" /\ maxID[c] = MaxSub
    BY <1>1, <1>4, <1>8 DEF Exact, Listed, Sound, TypeInv, ScanKnowsPipes
  <2>2. Unstarted(c)
    BY <1>4, <2>1 DEF Exact, AtRest
  <2>3. Room(nextPipes, NextCap) /\ nextPipes' = Append(nextPipes, q)
    BY <1>2, <1>8
  <2>4. pipes'[c] = q /\ q # NoPipe /\ stage'[q] = "open" /\ ~ stopped'[q] /\ ~ withErrors'[q]
    BY <1>2, <1>3, <1>8, <2>3, CapAssumption
  <2>5. Waiting(q)' # {}
    BY <2>3, WaitingPushed
  <2>6. Progress(c, q)'
    <3>1. \A s \in Subs : Untried(c, s)' /\ ~ (s <= last'[c])
      <4>1. \A s \in Subs : ~ (s <= 0)
        BY CapAssumption DEF Subs
      <4> QED BY <1>1, <2>2, <4>1 DEF Unstarted, Untried
    <3> QED BY <3>1 DEF Progress
  <2>7. Sending(c, q)'
    <3>1. ~ (runPc' = "batch" /\ runPipe' = q)
      BY <1>1, <1>2, RunningOpen DEF Sound
    <3> QED BY <1>1, <2>1, <2>5, <2>6, <3>1 DEF Sending, Held
  <2>8. Piped(c)'
    BY <2>4, <2>7 DEF Piped, Healthy
  <2>9. AtRest(c)' /\ Listed(c)' /\ audience'[c] = Subs
    BY <1>1, <1>4, <1>8, <2>1, <2>4 DEF AtRest, Listed, Exact
  <2> QED BY <2>8, <2>9 DEF Exact
<1> QED BY <1>7, <1>8

\* The steps of a pipe's cleanup leave the other campaigns alone.
LEMMA ExactCleanupOther ==
    ASSUME Sound, ExactInv, NEW c \in Campaigns \ disturbed', NEW p \in PipeIds, Cleanup(p), camp[p] # c
    PROVE  Exact(c)'
<1>1. /\ UNCHANGED <<audience, maxID, delivered, failed, stopped, withErrors>>
      /\ UNCHANGED <<runPipe, runBatch, runTo, runPc, campMsgQ, nextPipes, wpc, wmsg, scanPc, scanList>>
      /\ disturbed \subseteq disturbed'
  BY DEF Cleanup, CleanupCounts, CleanupCheckErrors, CleanupCheckStopped, CleanupLoad, CleanupWrite,
         CleanupRemove, StageOnly, mgr, runVars, scanVars, workVars, db, hist
<1>2. /\ stage \in [PipeIds -> Stages] /\ pipes \in [Campaigns -> PipeIds \cup {NoPipe}]
      /\ last \in [Campaigns -> 0 .. MaxSub] /\ status \in [Campaigns -> Statuses \cup {Deleted}]
  BY DEF Sound, TypeInv, TypeOK, TypePipes, TypeManager, TypeDB
<1>3. status'[c] = status[c]
  BY <1>2 DEF Cleanup, CleanupCounts, CleanupCheckErrors, CleanupCheckStopped, CleanupLoad, CleanupWrite,
         CleanupRemove, SetStatus, db
<1>4. last'[c] = last[c]
  BY <1>2 DEF Cleanup, CleanupCounts, CleanupCheckErrors, CleanupCheckStopped, CleanupLoad, CleanupWrite,
         CleanupRemove, AddCounts, db
<1>5. pipes'[c] = pipes[c]
  BY <1>2 DEF Cleanup, CleanupCounts, CleanupCheckErrors, CleanupCheckStopped, CleanupLoad, CleanupWrite,
         CleanupRemove, StageOnly, mgr
<1>6. \A q \in PipeIds \ {p} : stage'[q] = stage[q]
  BY <1>2 DEF Cleanup, CleanupCounts, CleanupCheckErrors, CleanupCheckStopped, CleanupLoad, CleanupWrite,
         CleanupRemove, GoStage
<1>7. Exact(c)
  BY <1>1 DEF ExactInv
<1>8. SameRow(c)
  BY <1>1, <1>3, <1>4 DEF SameRow
<1>9. ASSUME pipes[c] # NoPipe PROVE SamePipe(pipes[c])
  <2>1. PICK q \in PipeIds \ {p} : q = pipes[c]
    BY <1>9, PipeOf
  <2>2. stage'[q] = stage[q]
    BY <1>6
  <2>3. SamePipe(q)
    BY <1>1, <2>2, SamePipeKept
  <2> QED BY <1>5, <2>1, <2>3 DEF SamePipe
<1> QED BY <1>1, <1>5, <1>7, <1>8, <1>9, ExactKept

\* The WaitGroup of an undisturbed campaign's pipe drains only when everybody has been
\* tried: nothing is ahead, and a pipe that Run does not hold has fetched everybody.
LEMMA DrainedTried ==
    ASSUME Sound, NEW c \in Campaigns, NEW p \in PipeIds, Sending(c, p), wg[p] = 0, stage[p] = "open"
    PROVE  AllTried(c)
<1>1. Queued(p) = {} /\ InHand(p) = {} /\ Token(p) = 0
  BY NothingLeft DEF Sound, CountInv, Live
<1>2. runPipe # p
  BY RunningOpen DEF Sound
<1>3. Waiting(p) = {}
  <2>1. nextPipes \in Seq(PipeIds) /\ Waiting(p) = PlacesIn(nextPipes, {p})
    BY DEF Sound, TypeInv, TypeOK, TypeManager, Waiting, PlacesIn
  <2>2. IsFiniteSet(Waiting(p)) /\ Cardinality(Waiting(p)) = 0
    BY <1>1, <1>2, <2>1, PlacesFinite DEF Token
  <2> QED BY <2>2, FS_EmptySet
<1>4. last[c] = MaxSub
  BY <1>2, <1>3 DEF Sending, Held
<1>5. \A s : ~ Ahead(p, s)
  BY <1>1, <1>2 DEF Ahead, InBatch, InQueue, AtWorker, Queued, InHand
<1>6. \A s \in Subs : s <= last[c]
  BY <1>4, CapAssumption DEF Subs
<1> QED BY <1>5, <1>6 DEF Sending, Progress, AllTried

\* The cleanup of an undisturbed campaign's pipe goes from the counts through the checks
\* to the write, and finds it neither stopped nor in error, and the campaign running.
LEMMA ExactCleanup ==
    ASSUME Sound, ExactInv, NEW c \in Campaigns \ disturbed', NEW p \in PipeIds, Cleanup(p), camp[p] = c
    PROVE  Exact(c)'
<1>1. /\ UNCHANGED <<audience, maxID, delivered, failed, stopped, withErrors, scanPc, scanList>>
      /\ disturbed \subseteq disturbed' /\ stage[p] # "free"
  BY DEF Cleanup, CleanupCounts, CleanupCheckErrors, CleanupCheckStopped, CleanupLoad, CleanupWrite,
         CleanupRemove, StageOnly, mgr, runVars, scanVars, workVars, db, hist
<1>2. /\ stage \in [PipeIds -> Stages] /\ pipes \in [Campaigns -> PipeIds \cup {NoPipe}]
      /\ status \in [Campaigns -> Statuses \cup {Deleted}]
  BY DEF Sound, TypeInv, TypeOK, TypePipes, TypeManager, TypeDB
<1>3. pipes[c] = p /\ p # NoPipe /\ (c \notin scanList \/ scanPc # "start")
  BY <1>1, CapAssumption DEF Sound, OnePipePerCampaign, Live, TypeInv, ScanKnowsPipes
<1>4. pipes[c] = p /\ p # NoPipe
  BY <1>1, CapAssumption DEF Sound, OnePipePerCampaign, Live
<1>5. Exact(c) /\ Piped(c) /\ AtRest(c) /\ audience[c] = Subs
  BY <1>1 DEF ExactInv, Exact
<1>6. Healthy(p) /\ (stage[p] = "open" => Sending(c, p)) /\ (stage[p] # "open" => Ending(c, p))
  BY <1>4, <1>5 DEF Piped
<1>7. Listed(c)'
  BY <1>1, <1>3, <1>4 DEF Listed
<1>8. \A s \in Subs : TriedOnce(c, s)' <=> TriedOnce(c, s)
  BY <1>1 DEF TriedOnce
<1>9. ASSUME pipes' = pipes, stage'[p] \notin {"open", "pausing"}, AllTried(c),
             status'[c] = IF stage'[p] = "remove" THEN "finished" ELSE "running"
      PROVE  Exact(c)'
  <2>1. Ending(c, p)'
    BY <1>8, <1>9 DEF Ending, AllTried
  <2>2. Piped(c)' /\ AtRest(c)'
    BY <1>1, <1>4, <1>6, <1>9, <2>1 DEF Piped, AtRest, Healthy
  <2> QED BY <1>1, <1>5, <1>7, <2>2 DEF Exact
<1>10. CASE CleanupCounts(p)
  <2>1. stage[p] = "open" /\ wg[p] = 0 /\ stage'[p] = "checkErrors" /\ pipes' = pipes /\ status' = status
    BY <1>2, <1>10 DEF CleanupCounts, GoStage, StageOnly, mgr
  <2>2. AllTried(c) /\ status[c] = "running"
    BY <1>6, <2>1, DrainedTried DEF Sending
  <2> QED BY <1>9, <2>1, <2>2
<1>11. CASE CleanupCheckErrors(p)
  <2>1. stage[p] = "checkErrors" /\ stage'[p] = "checkStopped" /\ pipes' = pipes /\ status' = status
    BY <1>2, <1>6, <1>11 DEF CleanupCheckErrors, GoStage, StageOnly, Healthy, mgr, db
  <2> QED BY <1>6, <1>9, <2>1 DEF Ending
<1>12. CASE CleanupCheckStopped(p)
  <2>1. stage[p] = "checkStopped" /\ stage'[p] = "load" /\ pipes' = pipes /\ status' = status
    BY <1>2, <1>6, <1>12 DEF CleanupCheckStopped, GoStage, StageOnly, Healthy, mgr, db
  <2> QED BY <1>6, <1>9, <2>1 DEF Ending
<1>13. CASE CleanupLoad(p)
  <2>1. stage[p] = "load" /\ pipes' = pipes /\ status' = status
    BY <1>13 DEF CleanupLoad, StageOnly, mgr, db
  <2>2. status[c] = "running" /\ AllTried(c)
    BY <1>6, <2>1 DEF Ending
  <2>3. stage'[p] = "finishing"
    BY <1>2, <1>13, <2>2 DEF CleanupLoad, GoStage, Unfinished
  <2> QED BY <1>9, <2>1, <2>2, <2>3
<1>14. CASE CleanupWrite(p)
  <2>1. stage[p] = "finishing" /\ stage'[p] = "remove" /\ pipes' = pipes
    BY <1>2, <1>6, <1>14 DEF CleanupWrite, GoStage, StageOnly, Healthy, mgr
  <2>2. status[c] = "running" /\ AllTried(c)
    BY <1>6, <2>1 DEF Ending
  <2>3. status'[c] = "finished"
    BY <1>2, <1>14, <2>1, <2>2 DEF CleanupWrite, SetStatus, StatusAfter, Deleted
  <2> QED BY <1>9, <2>1, <2>2, <2>3
<1>15. CASE CleanupRemove(p)
  <2>1. stage[p] = "remove" /\ pipes'[c] = NoPipe /\ status' = status
    BY <1>2, <1>15 DEF CleanupRemove, db
  <2>2. AllTried(c) /\ status[c] = "finished"
    BY <1>6, <2>1 DEF Ending
  <2>3. AtRest(c)' /\ Piped(c)'
    BY <1>8, <2>1, <2>2 DEF AtRest, Piped, AllTried
  <2> QED BY <1>1, <1>5, <1>7, <2>3 DEF Exact
<1> QED BY <1>10, <1>11, <1>12, <1>13, <1>14, <1>15 DEF Cleanup

\* A request that writes a status leaves a campaign undisturbed only when it starts it for
\* the first time; every other write is a disturbance of that campaign, and no other.
LEMMA ExactStatusWrite ==
    ASSUME Sound, ExactInv, NEW c \in Campaigns \ disturbed', NEW r \in Requests, StatusWrite(r)
    PROVE  Exact(c)'
<1>1. /\ UNCHANGED <<last, maxID, audience, delivered, failed, pipes, stage, stopped, withErrors>>
      /\ UNCHANGED <<runPipe, runBatch, runTo, runPc, campMsgQ, nextPipes, wpc, wmsg, scanPc, scanList>>
      /\ disturbed \subseteq disturbed'
  BY DEF StatusWrite, mgr, obj, runVars, workVars, scanVars
<1>2. Exact(c)
  BY <1>1 DEF ExactInv
<1>3. PICK d \in Campaigns : d = reqCamp[r]
  BY DEF Sound, TypeInv, TypeOK, TypeRequests
<1>4. status' = [status EXCEPT ![d] = StatusAfter(d, reqTo[r])]
  BY <1>3 DEF StatusWrite, SetStatus
<1>5. status \in [Campaigns -> Statuses \cup {Deleted}]
  BY DEF Sound, TypeInv, TypeOK, TypeDB
<1>6. CASE c # d
  <2>1. SameRow(c)
    BY <1>1, <1>4, <1>5, <1>6 DEF SameRow
  <2>2. pipes[c] # NoPipe => SamePipe(pipes[c])
    BY <1>1, SamePipeKept
  <2> QED BY <1>1, <1>2, <2>1, <2>2, ExactKept
<1>7. CASE c = d
  <2>1. FirstStart(c, reqTo[r])
    BY <1>3, <1>7 DEF StatusWrite
  <2>2. status[c] \in {"draft", "scheduled"} /\ reqTo[r] \in {"running", "scheduled"}
    BY <2>1 DEF FirstStart
  <2>3. status'[c] # "finished"
    BY <1>4, <1>5, <1>7, <2>2 DEF StatusAfter, Deleted
  <2>4. pipes[c] = NoPipe
    <3>1. Piped(c)
      BY <1>2 DEF Exact
    <3> QED BY <2>2, <3>1 DEF Piped, Sending, Ending
  <2>5. Unstarted(c)
    BY <1>2, <2>2, <2>4 DEF Exact, AtRest
  <2>6. AtRest(c)' /\ Piped(c)'
    BY <1>1, <2>3, <2>4, <2>5 DEF AtRest, Piped, Unstarted, Untried
  <2>7. Listed(c)'
    BY <1>1, <1>2, <2>2 DEF Listed, Exact
  <2> QED BY <1>1, <1>2, <2>6, <2>7 DEF Exact
<1> QED BY <1>6, <1>7

\* An edit, a deletion and a change of its audience disturb the campaign they are about.
LEMMA ExactOutside ==
    ASSUME Sound, ExactInv, NEW c \in Campaigns \ disturbed', NEW d \in Campaigns,
           \/ Delete(d)
           \/ \E s \in Subs : Churn(d, s)
           \/ \E r \in Requests : EditWrite(r) /\ reqCamp[r] = d
    PROVE  Exact(c)'
<1>1. /\ UNCHANGED <<last, maxID, delivered, failed, pipes, stage, stopped, withErrors>>
      /\ UNCHANGED <<runPipe, runBatch, runTo, runPc, campMsgQ, nextPipes, wpc, wmsg, scanPc, scanList>>
      /\ disturbed' = disturbed \cup {d}
  BY DEF Delete, Churn, EditWrite, mgr, obj, runVars, workVars, scanVars
<1>2. Exact(c) /\ c # d
  BY <1>1 DEF ExactInv
<1>3. /\ status \in [Campaigns -> Statuses \cup {Deleted}] /\ audience \in [Campaigns -> SUBSET Subs]
  BY DEF Sound, TypeInv, TypeOK, TypeDB
<1>4. status'[c] = status[c] /\ audience'[c] = audience[c]
  BY <1>2, <1>3 DEF Delete, Churn, EditWrite
<1>5. SameRow(c)
  BY <1>1, <1>4 DEF SameRow
<1>6. pipes[c] # NoPipe => SamePipe(pipes[c])
  BY <1>1, SamePipeKept
<1> QED BY <1>1, <1>2, <1>5, <1>6, ExactKept

\* A test message has no pipe.
LEMMA ExactTestMessage ==
    ASSUME Sound, ExactInv, NEW c \in Campaigns \ disturbed', NEW d \in Campaigns, NEW t \in Subs, TestMessage(d, t)
    PROVE  Exact(c)'
<1>1. /\ UNCHANGED <<status, last, maxID, audience, delivered, failed, pipes, stage, stopped, withErrors, disturbed>>
      /\ UNCHANGED <<runPipe, runBatch, runTo, runPc, nextPipes, wpc, wmsg, scanPc, scanList>>
  BY DEF TestMessage, db, obj, runVars, workVars, scanVars
<1>2. Exact(c)
  BY <1>1 DEF ExactInv
<1>3. PICK e \in Messages : e.pipe = NoPipe /\ campMsgQ' = Append(campMsgQ, e)
  <2>1. [pipe |-> NoPipe, camp |-> d, sub |-> t] \in Messages
    BY DEF Messages
  <2> QED BY <2>1 DEF TestMessage
<1>4. PICK n \in Nat : /\ DOMAIN campMsgQ = 1 .. n /\ DOMAIN campMsgQ' = 1 .. (n + 1)
                       /\ \A i \in DOMAIN campMsgQ : campMsgQ'[i] = campMsgQ[i]
                       /\ campMsgQ'[n + 1] = e
  <2>1. \E n \in Nat : /\ DOMAIN campMsgQ = 1 .. n /\ DOMAIN Append(campMsgQ, e) = 1 .. (n + 1)
                       /\ \A i \in DOMAIN campMsgQ : Append(campMsgQ, e)[i] = campMsgQ[i]
                       /\ Append(campMsgQ, e)[n + 1] = e
    <3>1. campMsgQ \in Seq(Messages)
      BY OrderTypes DEF Sound
    <3> QED BY <3>1, AppendPlaces
  <2> QED BY <1>3, <2>1
<1>5. \A p, s : p # NoPipe => (InQueue(p, s)' <=> InQueue(p, s))
  <2>1. DOMAIN campMsgQ' = DOMAIN campMsgQ \cup {n + 1} /\ campMsgQ'[n + 1].pipe = NoPipe
        /\ \A i \in DOMAIN campMsgQ : campMsgQ'[i] = campMsgQ[i]
    BY <1>3, <1>4
  <2> QED BY <2>1 DEF InQueue
<1>6. \A p, s : (InBatch(p, s)' <=> InBatch(p, s)) /\ (AtWorker(p, s)' <=> AtWorker(p, s))
  BY <1>1 DEF InBatch, AtWorker
<1>7. ASSUME pipes[c] # NoPipe PROVE SamePipe(pipes[c])
  BY <1>1, <1>5, <1>6, <1>7 DEF SamePipe, Ahead, Held, Waiting
<1> QED BY <1>1, <1>2, <1>7, ExactKept DEF SameRow

\* Every step keeps exact what nobody has disturbed.
LEMMA ExactNext ==
    ASSUME Subs # {}, Sound, ExactInv, [Next]_vars PROVE ExactInv'
<1> SUFFICES ASSUME NEW c \in Campaigns \ disturbed' PROVE Exact(c)'
  BY DEF ExactInv
<1>1. CASE Scanner
  BY <1>1, ExactScan, ExactScanQuery, ExactScanRefuse, ExactScanStart DEF Scanner
<1>2. CASE Runner
  BY <1>2, ExactRunPop, ExactRunFetch, ExactRunNewMessage, ExactRunSend, ExactRunRequeue DEF Runner
<1>3. CASE World
  <2>1. CASE Restart
    BY <2>1 DEF Restart
  <2>2. ASSUME NEW d \in Campaigns, Delete(d) \/ SendAtPasses(d) \/ \E s \in Subs : TestMessage(d, s) \/ Churn(d, s)
        PROVE  Exact(c)'
    BY <2>2, ExactOutside, ExactScan, ExactTestMessage
  <2> QED BY <1>3, <2>1, <2>2, ExactScan, ExactRunFetchFails, ExactRunRenderFails DEF World
<1>4. ASSUME NEW w \in Workers, Worker(w) PROVE Exact(c)'
  BY <1>4, ExactWorkerTake, ExactWorkerCheck, ExactWorkerPush, ExactWorkerSettles DEF Worker
<1>5. ASSUME NEW p \in PipeIds, Cleanup(p) PROVE Exact(c)'
  BY <1>5, ExactCleanup, ExactCleanupOther
<1>6. ASSUME NEW r \in Requests, Request(r) PROVE Exact(c)'
  <2>1. CASE EditWrite(r)
    <3>1. reqCamp[r] \in Campaigns
      BY DEF Sound, TypeInv, TypeOK, TypeRequests
    <3> QED BY <2>1, <3>1, ExactOutside
  <2>2. CASE \E d \in Campaigns : EditCheck(r, d) \/ \E to \in Targets : StatusCheck(r, d, to)
    BY <2>2, ExactScan
  <2> QED BY <1>6, <2>1, <2>2, ExactStatusWrite, ExactStatusStop DEF Request
<1>7. CASE UNCHANGED vars
  BY <1>7, ExactScan
<1> QED BY <1>1, <1>2, <1>3, <1>4, <1>5, <1>6, <1>7 DEF Next

\* The invariants together.
LEMMA SoundCorrect == Spec => []Sound
<1>1. Init => HeldCamp
  BY DEF Init, HeldCamp, NoMsg
<1>2. TypeInv /\ CountInv /\ OnePipePerCampaign /\ OrderInv /\ HeldCamp /\ [Next]_vars => HeldCamp'
  BY HeldCampNext
<1> QED BY <1>1, <1>2, OrderInvCorrect, PTL DEF Spec, Sound

\* A campaign that nobody interferes with hands one message for each of its subscribers to
\* the messenger, whatever the size of its audience, of the batches and of the queues, and
\* however many workers and other campaigns there are: when it is finished nobody was
\* skipped by the checkpoint and nobody got two messages.
THEOREM ExactlyOnceCorrect == Spec => []UndisturbedExactlyOnce
<1>1. CASE Subs = {}
  <2>1. TypeInv => UndisturbedExactlyOnce
    BY <1>1 DEF TypeInv, TypeOK, TypeDB, UndisturbedExactlyOnce
  <2> QED BY <2>1, TypeInvCorrect, PTL
<1>2. CASE Subs # {}
  <2>1. Init => ExactInv
    <3> SUFFICES ASSUME Init, NEW c \in Campaigns PROVE Exact(c)
      BY DEF ExactInv
    <3>1. /\ pipes[c] = NoPipe /\ audience[c] = Subs /\ scanPc = "idle" /\ status[c] = InitStatus[c]
          /\ last[c] = 0 /\ failed = {} /\ \A s \in Subs : delivered[c][s] = 0
      BY DEF Init
    <3> QED BY <3>1 DEF Exact, Listed, AtRest, Piped, Unstarted, Untried
  <2>2. Sound /\ ExactInv /\ [Next]_vars => ExactInv'
    BY <1>2, ExactNext
  <2>3. Sound /\ ExactInv => UndisturbedExactlyOnce
    <3> SUFFICES ASSUME Sound, ExactInv, NEW c \in Campaigns \ disturbed, status[c] = "finished",
                        InitStatus[c] # "finished", NEW s \in audience[c]
                 PROVE  delivered[c][s] + (IF <<c, s>> \in failed THEN 1 ELSE 0) = 1
      BY DEF UndisturbedExactlyOnce
    <3>1. Exact(c) /\ s \in Subs
      BY DEF ExactInv, Exact
    <3>2. CASE pipes[c] = NoPipe
      BY <3>1, <3>2 DEF Exact, AtRest, AllTried, TriedOnce
    <3>3. CASE pipes[c] # NoPipe
      BY <3>1, <3>3 DEF Exact, Piped, Sending, Ending, AllTried, TriedOnce
    <3> QED BY <3>2, <3>3
  <2> QED BY <2>1, <2>2, <2>3, SoundCorrect, PTL DEF Spec
<1> QED BY <1>1, <1>2
===============================================================================
