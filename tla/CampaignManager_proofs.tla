------------------------ MODULE CampaignManager_proofs ------------------------
(***************************************************************************)
(* Theorems about CampaignManager, for every value of its constants: its   *)
(* types, one pipe per campaign, the WaitGroup counts what is outstanding, *)
(* cleanup runs after the last message, few messages leave a stopped pipe. *)
(***************************************************************************)
EXTENDS CampaignManager, Places_proofs, WellFoundedInduction, TLAPS

-----------------------------------------------------------------------------
(* The operators the model is built from.                                  *)

\* MinOf is the least element of a non-empty set of numbers.
LEMMA MinOfProperty ==
    ASSUME NEW S, S \subseteq Nat, S # {}
    PROVE  MinOf(S) \in S /\ \A y \in S : MinOf(S) <= y
<1> DEFINE R == {ss \in Nat \X Nat : ss[1] < ss[2]}
<1>1. IsWellFoundedOn(R, Nat)
  BY NatLessThanWellFounded DEF OpToRel
<1>2. \E x \in S : \A y \in S : ~ (<<y, x>> \in R)
  <2> HIDE DEF R
  <2> QED BY <1>1, WFMin
<1>3. PICK x \in S : \A y \in S : ~ (<<y, x>> \in R)
  BY <1>2
<1>4. \A y \in S : x <= y
  <2> TAKE y \in S
  <2>1. <<y, x>> \in Nat \X Nat /\ <<y, x>>[1] = y /\ <<y, x>>[2] = x
    OBVIOUS
  <2>2. ~ (y < x)
    BY <1>3, <2>1
  <2> QED BY <2>2
<1> QED BY <1>4 DEF MinOf

\* MaxOf is the greatest element of a non-empty bounded set of numbers.
LEMMA MaxOfProperty ==
    ASSUME NEW n \in Nat, NEW S, S \subseteq 0 .. n, S # {}
    PROVE  MaxOf(S) \in S /\ \A y \in S : y <= MaxOf(S)
<1> DEFINE T == {n - x : x \in S}
<1>1. T \subseteq Nat /\ T # {}
  <2>1. \A x \in S : x \in 0 .. n /\ n - x \in Nat
    OBVIOUS
  <2> QED BY <2>1
<1>2. PICK t \in T : \A y \in T : t <= y
  <2> HIDE DEF T
  <2> QED BY <1>1, MinOfProperty
<1>3. PICK x \in S : t = n - x
  OBVIOUS
<1>4. \A y \in S : y <= x
  <2> TAKE y \in S
  <2>1. n - y \in T
    OBVIOUS
  <2>2. n - x <= n - y
    BY <1>2, <1>3, <2>1
  <2> QED BY <2>2
<1> QED BY <1>4 DEF MaxOf

-----------------------------------------------------------------------------
(* Type correctness.                                                       *)

TypeInv == TypeOK /\ ScanKnowsPipes

\* The initial states satisfy the type invariant.
LEMMA TypeInit == Init => TypeInv
<1> SUFFICES ASSUME Init PROVE TypeInv
  OBVIOUS
<1> USE CapAssumption, SetAssumption DEF Init
<1>1. TypeDB
  BY DEF TypeDB, Subs
<1>2. TypeManager
  BY EmptySeq DEF TypeManager
<1>3. TypePipes
  BY DEF TypePipes, Stages
<1>4. TypeRun
  BY DEF TypeRun, RunPcs
<1>5. TypeScan
  BY DEF TypeScan, ScanPcs
<1>6. TypeWorkers
  BY DEF TypeWorkers, WorkerPcs
<1>7. TypeRequests
  BY DEF TypeRequests, Statuses
<1>8. TypeHistory
  BY DEF TypeHistory
<1>9. ScanKnowsPipes
  BY DEF ScanKnowsPipes
<1> QED
  BY <1>1, <1>2, <1>3, <1>4, <1>5, <1>6, <1>7, <1>8, <1>9 DEF TypeInv, TypeOK
\* A group of variables that a step leaves alone keeps its type.
LEMMA Kept ==
    /\ TypeDB /\ UNCHANGED db => TypeDB'
    /\ TypeManager /\ UNCHANGED mgr => TypeManager'
    /\ TypePipes /\ UNCHANGED obj => TypePipes'
    /\ TypeRun /\ UNCHANGED runVars => TypeRun'
    /\ TypeScan /\ UNCHANGED scanVars => TypeScan'
    /\ TypeWorkers /\ UNCHANGED workVars => TypeWorkers'
    /\ TypeRequests /\ UNCHANGED reqVars => TypeRequests'
    /\ TypeHistory /\ UNCHANGED hist => TypeHistory'
    /\ ScanKnowsPipes /\ UNCHANGED <<scanVars, pipes>> => ScanKnowsPipes'
<1>1. TypeDB /\ UNCHANGED db => TypeDB'
  BY DEF TypeDB, db
<1>2. TypeManager /\ UNCHANGED mgr => TypeManager'
  BY DEF TypeManager, mgr
<1>3. TypePipes /\ UNCHANGED obj => TypePipes'
  BY DEF TypePipes, obj
<1>4. TypeRun /\ UNCHANGED runVars => TypeRun'
  BY DEF TypeRun, runVars
<1>5. TypeScan /\ UNCHANGED scanVars => TypeScan'
  BY DEF TypeScan, scanVars
<1>6. TypeWorkers /\ UNCHANGED workVars => TypeWorkers'
  BY DEF TypeWorkers, workVars
<1>7. TypeRequests /\ UNCHANGED reqVars => TypeRequests'
  BY DEF TypeRequests, reqVars
<1>8. TypeHistory /\ UNCHANGED hist => TypeHistory'
  BY DEF TypeHistory, hist
<1>9. ScanKnowsPipes /\ UNCHANGED <<scanVars, pipes>> => ScanKnowsPipes'
  BY DEF ScanKnowsPipes, scanVars
<1> QED
  BY <1>1, <1>2, <1>3, <1>4, <1>5, <1>6, <1>7, <1>8, <1>9

\* A ScanTick step keeps every variable in its type.
LEMMA TypeScanTick ==
    ASSUME TypeInv, ScanTick PROVE TypeInv'
<1> USE CapAssumption, SetAssumption DEF TypeInv, TypeOK
<1>1. UNCHANGED <<db, mgr, obj, runVars, workVars, reqVars, hist>>
  BY DEF ScanTick
<1>2. TypeScan'
  BY DEF TypeScan, ScanTick, scanVars, ScanPcs
<1>3. ScanKnowsPipes'
  BY DEF ScanKnowsPipes, ScanTick, mgr
<1> QED
  BY <1>1, <1>2, <1>3, Kept

\* A ScanLoad step keeps every variable in its type.
LEMMA TypeScanLoad ==
    ASSUME TypeInv, ScanLoad PROVE TypeInv'
<1> USE CapAssumption, SetAssumption DEF TypeInv, TypeOK
<1>1. UNCHANGED <<db, mgr, obj, runVars, workVars, reqVars, hist>>
  BY DEF ScanLoad
<1>2. TypeScan'
  BY DEF TypeScan, ScanLoad, scanVars, ScanPcs, TypePipes, TypeManager, ScanKnowsPipes
<1>3. ScanKnowsPipes'
  BY DEF ScanKnowsPipes, ScanLoad, TypeScan, ScanPcs, mgr
<1> QED
  BY <1>1, <1>2, <1>3, Kept

\* A ScanReset step keeps every variable in its type.
LEMMA TypeScanReset ==
    ASSUME TypeInv, ScanReset PROVE TypeInv'
<1> USE CapAssumption, SetAssumption DEF TypeInv, TypeOK
<1>1. UNCHANGED <<db, mgr, runVars, workVars, reqVars, hist>>
  BY DEF ScanReset
<1>2. TypePipes'
  BY DEF TypePipes, ScanReset, obj, Stages
<1>3. TypeScan'
  BY DEF TypeScan, ScanReset, scanVars, ScanPcs
<1>4. ScanKnowsPipes'
  BY DEF ScanKnowsPipes, ScanReset, TypeScan, ScanPcs, mgr
<1> QED
  BY <1>1, <1>2, <1>3, <1>4, Kept

\* A ScanQuery step keeps every variable in its type.
LEMMA TypeScanQuery ==
    ASSUME TypeInv, ScanQuery PROVE TypeInv'
<1> USE CapAssumption, SetAssumption DEF TypeInv, TypeOK
<1>1. UNCHANGED <<mgr, obj, runVars, workVars, reqVars, hist>>
  BY DEF ScanQuery
<1>2. TypeDB'
  BY MaxOfProperty DEF TypeDB, ScanQuery, Picked, db, Subs, Statuses, TypeScan
<1>3. TypeScan'
  BY DEF TypeScan, ScanQuery, Picked, scanVars, ScanPcs
<1>4. ScanKnowsPipes'
  BY DEF ScanKnowsPipes, ScanQuery, Picked, TypeScan, mgr
<1> QED
  BY <1>1, <1>2, <1>3, <1>4, Kept

\* A ScanQueryFails step keeps every variable in its type.
LEMMA TypeScanQueryFails ==
    ASSUME TypeInv, ScanQueryFails PROVE TypeInv'
<1> USE CapAssumption, SetAssumption DEF TypeInv, TypeOK
<1>1. UNCHANGED <<db, mgr, obj, runVars, workVars, reqVars>>
  BY DEF ScanQueryFails
<1>2. TypeScan'
  BY DEF TypeScan, ScanQueryFails, Spend, scanVars, ScanPcs
<1>3. TypeHistory'
  BY DEF TypeHistory, ScanQueryFails, Spend, hist
<1>4. ScanKnowsPipes'
  BY DEF ScanKnowsPipes, ScanQueryFails, Spend
<1> QED
  BY <1>1, <1>2, <1>3, <1>4, Kept

\* A ScanRefuse step keeps every variable in its type.
LEMMA TypeScanRefuse ==
    ASSUME TypeInv, NEW c \in Campaigns, ScanRefuse(c) PROVE TypeInv'
<1> USE CapAssumption, SetAssumption DEF TypeInv, TypeOK
<1>1. UNCHANGED <<mgr, obj, runVars, workVars, reqVars, hist>>
  BY DEF ScanRefuse, ScanNext
<1>2. TypeDB'
  BY DEF TypeDB, ScanRefuse, SetStatus, ScanNext, StatusAfter, db, Subs, Statuses
<1>3. TypeScan'
  BY DEF TypeScan, ScanRefuse, SetStatus, ScanNext, StatusAfter, scanVars, ScanPcs
<1>4. ScanKnowsPipes'
  BY DEF ScanKnowsPipes, ScanRefuse, SetStatus, ScanNext, StatusAfter, TypeScan, mgr
<1> QED
  BY <1>1, <1>2, <1>3, <1>4, Kept

\* A ScanStart step keeps every variable in its type.
LEMMA TypeScanStart ==
    ASSUME TypeInv, NEW c \in Campaigns, ScanStart(c) PROVE TypeInv'
<1> USE CapAssumption, SetAssumption DEF TypeInv, TypeOK
<1>1. UNCHANGED <<db, runVars, workVars, reqVars>>
  BY DEF ScanStart, ScanNext
<1>2. TypeManager'
  BY DEF TypeManager, ScanStart, ScanNext, FirstCount, Room, FreePipes, mgr
<1>3. TypePipes'
  BY DEF TypePipes, ScanStart, ScanNext, FirstCount, Room, FreePipes, obj, Stages
<1>4. TypeScan'
  BY DEF TypeScan, ScanStart, ScanNext, FirstCount, Room, FreePipes, scanVars, ScanPcs
<1>5. TypeHistory'
  BY DEF TypeHistory, ScanStart, ScanNext, FirstCount, Room, FreePipes, hist
<1>6. ScanKnowsPipes'
  BY DEF ScanKnowsPipes, ScanStart, ScanNext, FirstCount, Room, FreePipes
<1> QED
  BY <1>1, <1>2, <1>3, <1>4, <1>5, <1>6, Kept

\* A RunPop step keeps every variable in its type.
LEMMA TypeRunPop ==
    ASSUME TypeInv, RunPop PROVE TypeInv'
<1> USE CapAssumption, SetAssumption DEF TypeInv, TypeOK
<1>1. UNCHANGED <<db, scanVars, workVars, reqVars, hist, pipes>>
  BY DEF RunPop
<1>2. Head(nextPipes) \in PipeIds
  BY HeadTailProperties DEF RunPop, TypeManager
<1>3. TypeManager'
  BY HeadTailProperties DEF TypeManager, RunPop, Done, mgr
<1>4. TypePipes'
  <2>1. UNCHANGED wg \/ Done(Head(nextPipes))
    BY DEF RunPop
  <2>2. wg' \in [PipeIds -> Int]
    BY <1>2, <2>1 DEF TypePipes, Done
  <2> QED BY <2>2 DEF TypePipes, RunPop
<1>5. TypeRun'
  <2>1. camp[Head(nextPipes)] \in Campaigns
    BY <1>2 DEF TypePipes
  <2> QED BY <1>2, <2>1 DEF TypeRun, RunPop, RunPcs, TypeDB
<1> QED
  BY <1>1, <1>3, <1>4, <1>5, Kept

\* A RunFetch step keeps every variable in its type.
LEMMA TypeRunFetch ==
    ASSUME TypeInv, RunFetch PROVE TypeInv'
<1> USE CapAssumption, SetAssumption DEF TypeInv, TypeOK
<1>1. UNCHANGED <<mgr, scanVars, workVars, reqVars, hist>>
  BY DEF RunFetch
<1>2. runPipe \in PipeIds /\ camp[runPipe] \in Campaigns
  BY DEF RunFetch, TypeRun, TypePipes
<1>3. Batch \subseteq Subs
  BY <1>2 DEF Batch, FirstOf, TypeDB
<1>4. TypeDB'
  <2>1. CASE Batch = {}
    BY <2>1 DEF TypeDB, RunFetch, db
  <2>2. CASE Batch # {}
    <3>1. MaxOf(Batch) \in Batch
      <4>1. Batch \subseteq 0 .. MaxSub
        BY <1>3 DEF Subs
      <4> QED BY <2>2, <4>1, MaxOfProperty
    <3>2. MaxOf(Batch) \in 0 .. MaxSub
      <4>1. MaxOf(Batch) \in Subs
        BY <1>3, <3>1
      <4> QED BY <4>1 DEF Subs
    <3>3. last' = [last EXCEPT ![camp[runPipe]] = MaxOf(Batch)]
      BY <2>2 DEF RunFetch, Checkpoint
    <3>4. UNCHANGED <<status, timed, due, maxID, sentDB, audience>>
      BY DEF RunFetch
    <3> QED BY <3>2, <3>3, <3>4 DEF TypeDB
  <2> QED BY <2>1, <2>2
<1>5. TypePipes'
  BY DEF TypePipes, RunFetch, Done, obj
<1>6. TypeRun'
  BY <1>2, <1>3 DEF TypeRun, RunFetch, RunPcs
<1> QED
  BY <1>1, <1>4, <1>5, <1>6, Kept DEF mgr

\* A RunFetchFails step keeps every variable in its type.
LEMMA TypeRunFetchFails ==
    ASSUME TypeInv, RunFetchFails PROVE TypeInv'
<1> USE CapAssumption, SetAssumption DEF TypeInv, TypeOK
<1>1. UNCHANGED <<db, scanVars, workVars, reqVars, pipes>>
  BY DEF RunFetchFails
<1>2. TypeManager'
  <2>1. UNCHANGED <<pipes, campMsgQ>>
    BY DEF RunFetchFails
  <2>2. nextPipes' \in Seq(PipeIds) /\ Len(nextPipes') <= NextCap
    <3>1. CASE nextPipes' = nextPipes
      BY <3>1 DEF TypeManager
    <3>2. CASE nextPipes # <<>> /\ nextPipes' = Tail(nextPipes)
      BY <3>2, HeadTailProperties DEF TypeManager
    <3> QED BY <3>1, <3>2 DEF RunFetchFails
  <2> QED BY <2>1, <2>2 DEF TypeManager
<1>3. PICK p \in PipeIds : Release(p)
  BY HeadTailProperties DEF RunFetchFails, TypeManager, TypeRun
<1>4. TypePipes'
  BY <1>3 DEF TypePipes, RunFetchFails, Release, Done, Stop
<1>5. TypeRun'
  BY DEF TypeRun, RunFetchFails, RunPcs
<1>6. TypeHistory'
  BY <1>3 DEF TypeHistory, TypePipes, RunFetchFails, Spend, Release, Stop
<1> QED
  BY <1>1, <1>2, <1>4, <1>5, <1>6, Kept

\* A RunNewMessage step keeps every variable in its type.
LEMMA TypeRunNewMessage ==
    ASSUME TypeInv, RunNewMessage PROVE TypeInv'
<1> USE CapAssumption, SetAssumption DEF TypeInv, TypeOK
<1>1. UNCHANGED <<db, mgr, scanVars, workVars, reqVars, hist>>
  BY DEF RunNewMessage
<1>2. TypePipes'
  BY DEF TypePipes, RunNewMessage, Add, obj, Stages, TypeRun
<1>3. TypeRun'
  BY DEF TypeRun, RunNewMessage, Add, runVars, RunPcs, Subs
<1> QED
  BY <1>1, <1>2, <1>3, Kept DEF mgr

\* A RunRenderFails step keeps every variable in its type.
LEMMA TypeRunRenderFails ==
    ASSUME TypeInv, RunRenderFails PROVE TypeInv'
<1> USE CapAssumption, SetAssumption DEF TypeInv, TypeOK
<1>1. UNCHANGED <<db, mgr, obj, scanVars, workVars, reqVars>>
  BY DEF RunRenderFails
<1>2. TypeRun'
  BY DEF TypeRun, RunRenderFails, RunPcs, Subs
<1>3. MinOf(runBatch) \in Subs /\ camp[runPipe] \in Campaigns
  <2>1. runBatch # {} /\ runBatch \subseteq Subs /\ runBatch \subseteq Nat /\ runPipe \in PipeIds
    BY DEF RunRenderFails, TypeRun, Subs
  <2> QED BY <2>1, MinOfProperty DEF TypePipes
<1>4. TypeHistory'
  BY <1>3 DEF TypeHistory, RunRenderFails, Spend
<1> QED
  BY <1>1, <1>2, <1>4, Kept DEF mgr

\* A RunSend step keeps every variable in its type.
LEMMA TypeRunSend ==
    ASSUME TypeInv, RunSend PROVE TypeInv'
<1> USE CapAssumption, SetAssumption DEF TypeInv, TypeOK
<1>1. UNCHANGED <<db, obj, scanVars, workVars, reqVars, hist, pipes>>
  BY DEF RunSend
<1>2. MinOf(runBatch) \in Subs /\ camp[runPipe] \in Campaigns /\ runPipe \in PipeIds
  <2>1. runBatch # {} /\ runBatch \subseteq Subs /\ runBatch \subseteq Nat /\ runPipe \in PipeIds
    BY DEF RunSend, TypeRun, Subs
  <2> QED BY <2>1, MinOfProperty DEF TypePipes
<1>3. TypeManager'
  <2> DEFINE m == [pipe |-> runPipe, camp |-> camp[runPipe], sub |-> MinOf(runBatch)]
  <2>1. m \in Messages
    BY <1>2 DEF Messages
  <2>2. campMsgQ' = Append(campMsgQ, m) /\ Len(campMsgQ) < MsgCap
    BY DEF RunSend, Room
  <2>3. UNCHANGED <<pipes, nextPipes>>
    BY DEF RunSend
  <2> HIDE DEF m
  <2> QED BY <2>1, <2>2, <2>3, AppendProperties DEF TypeManager
<1>4. TypeRun'
  BY DEF TypeRun, RunSend, RunPcs, Subs
<1> QED
  BY <1>1, <1>3, <1>4, Kept

\* A RunRequeue step keeps every variable in its type.
LEMMA TypeRunRequeue ==
    ASSUME TypeInv, RunRequeue PROVE TypeInv'
<1> USE CapAssumption, SetAssumption DEF TypeInv, TypeOK
<1>1. UNCHANGED <<db, scanVars, workVars, reqVars, pipes>>
  BY DEF RunRequeue
<1>2. runPipe \in PipeIds
  BY DEF RunRequeue, TypeRun
<1>3. TypeManager'
  <2>1. UNCHANGED <<pipes, campMsgQ>>
    BY DEF RunRequeue
  <2>2. nextPipes' \in Seq(PipeIds) /\ Len(nextPipes') <= NextCap
    <3>1. CASE nextPipes' = nextPipes
      BY <3>1 DEF TypeManager
    <3>2. CASE Len(nextPipes) < NextCap /\ nextPipes' = Append(nextPipes, runPipe)
      BY <1>2, <3>2, AppendProperties DEF TypeManager
    <3> QED BY <3>1, <3>2 DEF RunRequeue, Room
  <2> QED BY <2>1, <2>2 DEF TypeManager
<1>4. TypePipes'
  <2>1. CASE UNCHANGED <<wg, stopped, withErrors>>
    BY <2>1 DEF TypePipes, RunRequeue
  <2>2. CASE Release(runPipe)
    BY <1>2, <2>2 DEF TypePipes, RunRequeue, Release, Done, Stop
  <2> QED BY <2>1, <2>2 DEF RunRequeue
<1>5. TypeRun'
  BY DEF TypeRun, RunRequeue, RunStay, RunPcs
<1>6. TypeHistory'
  BY <1>2 DEF TypeHistory, TypePipes, RunRequeue, Release, Stop
<1> QED
  BY <1>1, <1>3, <1>4, <1>5, <1>6, Kept

\* A WorkerTake step keeps every variable in its type.
LEMMA TypeWorkerTake ==
    ASSUME TypeInv, NEW w \in Workers, WorkerTake(w) PROVE TypeInv'
<1> USE CapAssumption, SetAssumption DEF TypeInv, TypeOK
<1>1. UNCHANGED <<db, obj, runVars, scanVars, reqVars, hist, pipes>>
  BY DEF WorkerTake
<1>2. Head(campMsgQ) \in Messages
  BY HeadTailProperties DEF WorkerTake, TypeManager
<1>3. TypeManager'
  BY HeadTailProperties DEF TypeManager, WorkerTake, mgr
<1>4. TypeWorkers'
  <2>1. Head(campMsgQ) # NoMsg
    BY <1>2 DEF Messages, NoMsg, Subs
  <2> QED BY <1>2, <2>1 DEF TypeWorkers, WorkerTake, Goto, WorkerPcs
<1> QED
  BY <1>1, <1>3, <1>4, Kept

\* A WorkerCheck step keeps every variable in its type.
LEMMA TypeWorkerCheck ==
    ASSUME TypeInv, NEW w \in Workers, WorkerCheck(w) PROVE TypeInv'
<1> USE CapAssumption, SetAssumption DEF TypeInv, TypeOK
<1>1. UNCHANGED <<db, mgr, runVars, scanVars, reqVars, hist>>
  BY DEF WorkerCheck
<1>2. TypePipes'
  BY DEF TypePipes, WorkerCheck, Done, Goto, Finish, Dropped, obj, Stages
<1>3. TypeWorkers'
  BY DEF TypeWorkers, WorkerCheck, Done, Goto, Finish, Dropped, workVars, WorkerPcs
<1> QED
  BY <1>1, <1>2, <1>3, Kept DEF mgr

\* A WorkerPush step keeps every variable in its type.
LEMMA TypeWorkerPush ==
    ASSUME TypeInv, NEW w \in Workers, WorkerPush(w) PROVE TypeInv'
<1> USE CapAssumption, SetAssumption DEF TypeInv, TypeOK
<1>1. UNCHANGED <<db, mgr, obj, runVars, scanVars, reqVars>>
  BY DEF WorkerPush
<1>2. TypeWorkers'
  BY DEF TypeWorkers, WorkerPush, Spend, Goto, workVars, WorkerPcs
<1>3. TypeHistory'
  <2>1. wmsg[w].pipe \in PipeIds \cup {NoPipe} /\ wmsg[w].camp \in Campaigns /\ wmsg[w].sub \in Subs
    BY DEF TypeWorkers, WorkerPush, Messages
  <2>2. late' \in [PipeIds -> Nat]
    BY <2>1 DEF TypeHistory, WorkerPush
  <2>3. delivered' \in [Campaigns -> [Subs -> Nat]]
    <3>1. \/ delivered' = delivered
          \/ delivered' = [delivered EXCEPT ![wmsg[w].camp][wmsg[w].sub] = @ + 1]
      BY DEF WorkerPush
    <3>2. delivered \in [Campaigns -> [Subs -> Nat]]
      BY DEF TypeHistory
    <3> DEFINE row == [delivered[wmsg[w].camp] EXCEPT ![wmsg[w].sub] = @ + 1]
    <3>3. row \in [Subs -> Nat]
      BY <2>1, <3>2
    <3>4. \/ delivered' = delivered
          \/ delivered' = [delivered EXCEPT ![wmsg[w].camp] = row]
      BY <3>1
    <3> HIDE DEF row
    <3> QED BY <2>1, <3>2, <3>3, <3>4
  <2>4. failed' \subseteq Campaigns \X Subs
    BY <2>1 DEF TypeHistory, WorkerPush
  <2> QED BY <2>2, <2>3, <2>4 DEF TypeHistory, WorkerPush, Spend
<1> QED
  BY <1>1, <1>2, <1>3, Kept DEF mgr

\* A WorkerDone step keeps every variable in its type.
LEMMA TypeWorkerDone ==
    ASSUME TypeInv, NEW w \in Workers, WorkerDone(w) PROVE TypeInv'
<1> USE CapAssumption, SetAssumption DEF TypeInv, TypeOK
<1>1. UNCHANGED <<db, mgr, runVars, scanVars, reqVars, hist>>
  BY DEF WorkerDone
<1>2. TypePipes'
  BY DEF TypePipes, WorkerDone, Done, Goto, Finish, obj, Stages
<1>3. TypeWorkers'
  <2>1. wmsg[w] \in Messages /\ wmsg[w].pipe \in PipeIds \cup {NoPipe}
    BY DEF TypeWorkers, WorkerDone, Messages
  <2>2. CASE wmsg[w].pipe = NoPipe
    BY <2>2 DEF TypeWorkers, WorkerDone, Goto, Finish, WorkerPcs
  <2>3. CASE wmsg[w].pipe # NoPipe
    BY <2>1, <2>3 DEF TypeWorkers, WorkerDone, Goto, WorkerPcs
  <2> QED BY <2>2, <2>3
<1> QED
  BY <1>1, <1>2, <1>3, Kept DEF mgr

\* A WorkerOnError step keeps every variable in its type.
LEMMA TypeWorkerOnError ==
    ASSUME TypeInv, NEW w \in Workers, WorkerOnError(w) PROVE TypeInv'
<1> USE CapAssumption, SetAssumption DEF TypeInv, TypeOK
<1>1. UNCHANGED <<db, mgr, runVars, scanVars, reqVars>>
  BY DEF WorkerOnError
<1>2. wmsg[w].pipe \in PipeIds
  BY DEF WorkerOnError, TypeWorkers
<1>3. TypePipes'
  <2>1. UNCHANGED <<camp, wg, sent, lastID, stage>>
    BY DEF WorkerOnError
  <2>2. errors' \in [PipeIds -> Nat]
    <3>1. errors' = errors \/ errors' = [errors EXCEPT ![wmsg[w].pipe] = @ + 1]
      BY DEF WorkerOnError
    <3> QED BY <1>2, <3>1 DEF TypePipes
  <2>3. stopped' \in [PipeIds -> BOOLEAN] /\ withErrors' \in [PipeIds -> BOOLEAN]
    BY <1>2 DEF TypePipes, WorkerOnError, Stop
  <2> QED BY <2>1, <2>2, <2>3 DEF TypePipes
<1>4. TypeWorkers'
  BY DEF TypeWorkers, WorkerOnError, Finish, Goto, WorkerPcs
<1>5. TypeHistory'
  BY <1>2 DEF TypeHistory, TypePipes, WorkerOnError, Stop
<1> QED
  BY <1>1, <1>3, <1>4, <1>5, Kept DEF mgr

\* A WorkerLoad step keeps every variable in its type.
LEMMA TypeWorkerLoad ==
    ASSUME TypeInv, NEW w \in Workers, WorkerLoad(w) PROVE TypeInv'
<1> USE CapAssumption, SetAssumption DEF TypeInv, TypeOK
<1>1. UNCHANGED <<db, mgr, obj, runVars, scanVars, reqVars, hist>>
  BY DEF WorkerLoad
<1>2. TypeWorkers'
  BY DEF TypeWorkers, WorkerLoad, Goto, workVars, WorkerPcs
<1> QED
  BY <1>1, <1>2, Kept DEF mgr

\* A WorkerStore step keeps every variable in its type.
LEMMA TypeWorkerStore ==
    ASSUME TypeInv, NEW w \in Workers, WorkerStore(w) PROVE TypeInv'
<1> USE CapAssumption, SetAssumption DEF TypeInv, TypeOK
<1>1. UNCHANGED <<db, mgr, runVars, scanVars, reqVars, hist>>
  BY DEF WorkerStore
<1>2. TypePipes'
  <2>1. wmsg[w].pipe \in PipeIds /\ wmsg[w].sub \in 0 .. MaxSub
    BY DEF WorkerStore, TypeWorkers, Messages, NoMsg, Subs
  <2> QED BY <2>1 DEF TypePipes, WorkerStore
<1>3. TypeWorkers'
  BY DEF TypeWorkers, WorkerStore, Goto, workVars, WorkerPcs
<1> QED
  BY <1>1, <1>2, <1>3, Kept DEF mgr

\* A WorkerAdd step keeps every variable in its type.
LEMMA TypeWorkerAdd ==
    ASSUME TypeInv, NEW w \in Workers, WorkerAdd(w) PROVE TypeInv'
<1> USE CapAssumption, SetAssumption DEF TypeInv, TypeOK
<1>1. UNCHANGED <<db, mgr, runVars, scanVars, reqVars, hist>>
  BY DEF WorkerAdd
<1>2. TypePipes'
  <2>1. wmsg[w].pipe \in PipeIds
    BY DEF WorkerAdd, TypeWorkers
  <2> QED BY <2>1 DEF TypePipes, WorkerAdd
<1>3. TypeWorkers'
  BY DEF TypeWorkers, WorkerAdd, Finish, Goto, workVars, WorkerPcs
<1> QED
  BY <1>1, <1>2, <1>3, Kept DEF mgr

\* A CleanupCounts step keeps every variable in its type.
LEMMA TypeCleanupCounts ==
    ASSUME TypeInv, NEW p \in PipeIds, CleanupCounts(p) PROVE TypeInv'
<1> USE CapAssumption, SetAssumption DEF TypeInv, TypeOK
<1>1. UNCHANGED <<mgr, runVars, scanVars, workVars, reqVars>>
  BY DEF CleanupCounts, StageOnly
<1>2. TypeDB'
  <2>1. camp[p] \in Campaigns /\ sent[p] \in Nat /\ lastID[p] \in 0 .. MaxSub
    BY DEF TypePipes
  <2>2. /\ sentDB' \in [Campaigns -> Nat]
        /\ last' \in [Campaigns -> 0 .. MaxSub]
    BY <2>1 DEF TypeDB, CleanupCounts, AddCounts
  <2> QED BY <2>2 DEF TypeDB, CleanupCounts
<1>3. TypePipes'
  BY DEF TypePipes, CleanupCounts, Spend, GoStage, StageOnly, AddCounts, obj, Stages
<1>4. TypeHistory'
  BY DEF TypeHistory, CleanupCounts, Spend, GoStage, StageOnly, AddCounts, hist, TypePipes
<1> QED
  BY <1>1, <1>2, <1>3, <1>4, Kept DEF mgr

\* A CleanupCheckErrors step keeps every variable in its type.
LEMMA TypeCleanupCheckErrors ==
    ASSUME TypeInv, NEW p \in PipeIds, CleanupCheckErrors(p) PROVE TypeInv'
<1> USE CapAssumption, SetAssumption DEF TypeInv, TypeOK
<1>1. UNCHANGED <<db, mgr, runVars, scanVars, workVars, reqVars, hist>>
  BY DEF CleanupCheckErrors, StageOnly, hist
<1>2. TypePipes'
  BY DEF TypePipes, CleanupCheckErrors, GoStage, StageOnly, obj, Stages
<1> QED
  BY <1>1, <1>2, Kept DEF mgr

\* A CleanupCheckStopped step keeps every variable in its type.
LEMMA TypeCleanupCheckStopped ==
    ASSUME TypeInv, NEW p \in PipeIds, CleanupCheckStopped(p) PROVE TypeInv'
<1> USE CapAssumption, SetAssumption DEF TypeInv, TypeOK
<1>1. UNCHANGED <<db, mgr, runVars, scanVars, workVars, reqVars, hist>>
  BY DEF CleanupCheckStopped, StageOnly, hist
<1>2. TypePipes'
  BY DEF TypePipes, CleanupCheckStopped, GoStage, StageOnly, obj, Stages
<1> QED
  BY <1>1, <1>2, Kept DEF mgr

\* A CleanupLoad step keeps every variable in its type.
LEMMA TypeCleanupLoad ==
    ASSUME TypeInv, NEW p \in PipeIds, CleanupLoad(p) PROVE TypeInv'
<1> USE CapAssumption, SetAssumption DEF TypeInv, TypeOK
<1>1. UNCHANGED <<db, mgr, runVars, scanVars, workVars, reqVars>>
  BY DEF CleanupLoad, StageOnly
<1>2. TypePipes'
  BY DEF TypePipes, CleanupLoad, Spend, GoStage, StageOnly, Unfinished, obj, Stages
<1>3. TypeHistory'
  BY DEF TypeHistory, CleanupLoad, Spend, GoStage, StageOnly, Unfinished, hist, TypePipes
<1> QED
  BY <1>1, <1>2, <1>3, Kept DEF mgr

\* A CleanupWrite step keeps every variable in its type.
LEMMA TypeCleanupWrite ==
    ASSUME TypeInv, NEW p \in PipeIds, CleanupWrite(p) PROVE TypeInv'
<1> USE CapAssumption, SetAssumption DEF TypeInv, TypeOK
<1>1. UNCHANGED <<mgr, runVars, scanVars, workVars, reqVars>>
  BY DEF CleanupWrite, StageOnly
<1>2. TypeDB'
  BY DEF TypeDB, CleanupWrite, Spend, SetStatus, GoStage, StageOnly, StatusAfter, db, Subs, Statuses
<1>3. TypePipes'
  BY DEF TypePipes, CleanupWrite, Spend, SetStatus, GoStage, StageOnly, StatusAfter, obj, Stages
<1>4. TypeHistory'
  BY DEF TypeHistory, CleanupWrite, Spend, SetStatus, GoStage, StageOnly, StatusAfter, hist, TypePipes
<1> QED
  BY <1>1, <1>2, <1>3, <1>4, Kept DEF mgr

\* A CleanupRemove step keeps every variable in its type.
LEMMA TypeCleanupRemove ==
    ASSUME TypeInv, NEW p \in PipeIds, CleanupRemove(p) PROVE TypeInv'
<1> USE CapAssumption, SetAssumption DEF TypeInv, TypeOK
<1>1. UNCHANGED <<db, runVars, scanVars, workVars, reqVars, hist>>
  BY DEF CleanupRemove
<1>2. TypeManager'
  BY DEF TypeManager, CleanupRemove, GoStage, mgr
<1>3. TypePipes'
  BY DEF TypePipes, CleanupRemove, GoStage, obj, Stages
<1>4. ScanKnowsPipes'
  BY DEF ScanKnowsPipes, CleanupRemove, TypeManager, TypePipes, scanVars
<1> QED
  BY <1>1, <1>2, <1>3, <1>4, Kept

\* A StatusCheck step keeps every variable in its type.
LEMMA TypeStatusCheck ==
    ASSUME TypeInv, NEW r \in Requests, NEW c \in Campaigns, NEW to \in Targets, StatusCheck(r, c, to) PROVE TypeInv'
<1> USE CapAssumption, SetAssumption DEF TypeInv, TypeOK
<1>1. UNCHANGED <<db, mgr, obj, runVars, scanVars, workVars>>
  BY DEF StatusCheck
<1>2. TypeRequests'
  BY DEF TypeRequests, StatusCheck, Spend, reqVars, Statuses
<1>3. TypeHistory'
  BY DEF TypeHistory, StatusCheck, Spend, hist
<1> QED
  BY <1>1, <1>2, <1>3, Kept DEF mgr

\* A StatusWrite step keeps every variable in its type.
LEMMA TypeStatusWrite ==
    ASSUME TypeInv, NEW r \in Requests, StatusWrite(r) PROVE TypeInv'
<1> USE CapAssumption, SetAssumption DEF TypeInv, TypeOK
<1>1. UNCHANGED <<mgr, obj, runVars, scanVars, workVars>>
  BY DEF StatusWrite
<1>2. TypeDB'
  BY DEF TypeDB, StatusWrite, SetStatus, FirstStart, StatusAfter, db, Subs, Statuses, TypeRequests
<1>3. TypeRequests'
  BY DEF TypeRequests, StatusWrite, SetStatus, FirstStart, StatusAfter, reqVars, Statuses
<1>4. TypeHistory'
  BY DEF TypeHistory, StatusWrite, SetStatus, FirstStart, StatusAfter, hist, TypeRequests
<1> QED
  BY <1>1, <1>2, <1>3, <1>4, Kept DEF mgr

\* A StatusStop step keeps every variable in its type.
LEMMA TypeStatusStop ==
    ASSUME TypeInv, NEW r \in Requests, StatusStop(r) PROVE TypeInv'
<1> USE CapAssumption, SetAssumption DEF TypeInv, TypeOK
<1>1. UNCHANGED <<db, mgr, runVars, scanVars, workVars>>
  BY DEF StatusStop
<1>2. TypePipes'
  BY DEF TypePipes, StatusStop, Stop, obj, Stages, TypeRequests, TypeManager
<1>3. TypeRequests'
  BY DEF TypeRequests, StatusStop, Stop, reqVars, Statuses
<1>4. TypeHistory'
  BY DEF TypeHistory, StatusStop, Stop, hist, TypeRequests, TypeManager, TypePipes
<1> QED
  BY <1>1, <1>2, <1>3, <1>4, Kept DEF mgr

\* A EditCheck step keeps every variable in its type.
LEMMA TypeEditCheck ==
    ASSUME TypeInv, NEW r \in Requests, NEW c \in Campaigns, EditCheck(r, c) PROVE TypeInv'
<1> USE CapAssumption, SetAssumption DEF TypeInv, TypeOK
<1>1. UNCHANGED <<db, mgr, obj, runVars, scanVars, workVars>>
  BY DEF EditCheck
<1>2. TypeRequests'
  BY DEF TypeRequests, EditCheck, Spend, reqVars, Statuses
<1>3. TypeHistory'
  BY DEF TypeHistory, EditCheck, Spend, hist
<1> QED
  BY <1>1, <1>2, <1>3, Kept DEF mgr

\* A EditWrite step keeps every variable in its type.
LEMMA TypeEditWrite ==
    ASSUME TypeInv, NEW r \in Requests, EditWrite(r) PROVE TypeInv'
<1> USE CapAssumption, SetAssumption DEF TypeInv, TypeOK
<1>1. UNCHANGED <<mgr, obj, runVars, scanVars, workVars>>
  BY DEF EditWrite
<1>2. TypeDB'
  BY DEF TypeDB, EditWrite, db, Subs, Statuses, TypeRequests
<1>3. TypeRequests'
  BY DEF TypeRequests, EditWrite, reqVars, Statuses
<1>4. TypeHistory'
  BY DEF TypeHistory, EditWrite, hist, TypeRequests
<1> QED
  BY <1>1, <1>2, <1>3, <1>4, Kept DEF mgr

\* A Delete step keeps every variable in its type.
LEMMA TypeDelete ==
    ASSUME TypeInv, NEW c \in Campaigns, Delete(c) PROVE TypeInv'
<1> USE CapAssumption, SetAssumption DEF TypeInv, TypeOK
<1>1. UNCHANGED <<mgr, obj, runVars, scanVars, workVars, reqVars>>
  BY DEF Delete
<1>2. TypeDB'
  BY DEF TypeDB, Delete, Spend, db, Subs, Statuses
<1>3. TypeHistory'
  BY DEF TypeHistory, Delete, Spend, hist
<1> QED
  BY <1>1, <1>2, <1>3, Kept DEF mgr

\* A TestMessage step keeps every variable in its type.
LEMMA TypeTestMessage ==
    ASSUME TypeInv, NEW c \in Campaigns, NEW s \in Subs, TestMessage(c, s) PROVE TypeInv'
<1> USE CapAssumption, SetAssumption DEF TypeInv, TypeOK
<1>1. UNCHANGED <<db, obj, runVars, scanVars, workVars, reqVars, pipes>>
  BY DEF TestMessage
<1>2. TypeManager'
  BY DEF TypeManager, TestMessage, Spend, Room, mgr, Messages, Subs
<1>3. TypeHistory'
  BY DEF TypeHistory, TestMessage, Spend, Room, hist
<1> QED
  BY <1>1, <1>2, <1>3, Kept

\* A Churn step keeps every variable in its type.
LEMMA TypeChurn ==
    ASSUME TypeInv, NEW c \in Campaigns, NEW s \in Subs, Churn(c, s) PROVE TypeInv'
<1> USE CapAssumption, SetAssumption DEF TypeInv, TypeOK
<1>1. UNCHANGED <<mgr, obj, runVars, scanVars, workVars, reqVars>>
  BY DEF Churn
<1>2. TypeDB'
  BY DEF TypeDB, Churn, Spend, db, Subs, Statuses
<1>3. TypeHistory'
  BY DEF TypeHistory, Churn, Spend, hist
<1> QED
  BY <1>1, <1>2, <1>3, Kept DEF mgr

\* A SendAtPasses step keeps every variable in its type.
LEMMA TypeSendAtPasses ==
    ASSUME TypeInv, NEW c \in Campaigns, SendAtPasses(c) PROVE TypeInv'
<1> USE CapAssumption, SetAssumption DEF TypeInv, TypeOK
<1>1. UNCHANGED <<mgr, obj, runVars, scanVars, workVars, reqVars, hist>>
  BY DEF SendAtPasses
<1>2. TypeDB'
  BY DEF TypeDB, SendAtPasses, db, Subs, Statuses
<1> QED
  BY <1>1, <1>2, Kept DEF mgr

\* A Restart step keeps every variable in its type.
LEMMA TypeRestart ==
    ASSUME TypeInv, Restart PROVE TypeInv'
<1> USE CapAssumption, SetAssumption DEF TypeInv, TypeOK
<1>1. UNCHANGED <<db>>
  BY DEF Restart
<1>2. TypeManager'
  BY DEF TypeManager, Restart, Spend, mgr
<1>3. TypePipes'
  BY DEF TypePipes, Restart, Spend, obj, Stages
<1>4. TypeRun'
  BY DEF TypeRun, Restart, Spend, runVars, RunPcs, Subs
<1>5. TypeScan'
  BY DEF TypeScan, Restart, Spend, scanVars, ScanPcs
<1>6. TypeWorkers'
  BY DEF TypeWorkers, Restart, Spend, workVars, WorkerPcs
<1>7. TypeRequests'
  BY DEF TypeRequests, Restart, Spend, reqVars, Statuses
<1>8. TypeHistory'
  BY DEF TypeHistory, Restart, Spend, hist
<1>9. ScanKnowsPipes'
  BY DEF ScanKnowsPipes, Restart, Spend
<1> QED
  BY <1>1, <1>2, <1>3, <1>4, <1>5, <1>6, <1>7, <1>8, <1>9, Kept

\* Every step keeps the type invariant.
LEMMA TypeNext == TypeInv /\ [Next]_vars => TypeInv'
<1> SUFFICES ASSUME TypeInv, [Next]_vars PROVE TypeInv'
  OBVIOUS
<1>1. CASE Scanner
  BY <1>1, TypeScanTick, TypeScanLoad, TypeScanReset, TypeScanQuery, TypeScanRefuse, TypeScanStart
     DEF Scanner
<1>2. CASE Runner
  BY <1>2, TypeRunPop, TypeRunFetch, TypeRunNewMessage, TypeRunSend, TypeRunRequeue DEF Runner
<1>3. CASE World
  BY <1>3, TypeScanQueryFails, TypeRunFetchFails, TypeRunRenderFails, TypeRestart, TypeDelete,
     TypeSendAtPasses, TypeTestMessage, TypeChurn DEF World
<1>4. ASSUME NEW w \in Workers, Worker(w) PROVE TypeInv'
  BY <1>4, TypeWorkerTake, TypeWorkerCheck, TypeWorkerPush, TypeWorkerDone, TypeWorkerOnError,
     TypeWorkerLoad, TypeWorkerStore, TypeWorkerAdd DEF Worker
<1>5. ASSUME NEW p \in PipeIds, Cleanup(p) PROVE TypeInv'
  BY <1>5, TypeCleanupCounts, TypeCleanupCheckErrors, TypeCleanupCheckStopped, TypeCleanupLoad,
     TypeCleanupWrite, TypeCleanupRemove DEF Cleanup
<1>6. ASSUME NEW r \in Requests, Request(r) PROVE TypeInv'
  BY <1>6, TypeStatusCheck, TypeStatusWrite, TypeStatusStop, TypeEditCheck, TypeEditWrite
     DEF Request
<1>7. CASE UNCHANGED vars
  BY <1>7, Kept DEF vars, scanVars, mgr, TypeInv, TypeOK
<1> QED
  BY <1>1, <1>2, <1>3, <1>4, <1>5, <1>6, <1>7 DEF Next

\* The type invariant, with what the scanner knows of m.pipes, holds in every reachable state.
LEMMA TypeInvCorrect == Spec => []TypeInv
<1>1. Init => TypeInv
  BY TypeInit
<1>2. TypeInv /\ [Next]_vars => TypeInv'
  BY TypeNext
<1> QED BY <1>1, <1>2, PTL DEF Spec

\* In every reachable state every variable has its type: the channels are within
\* their capacities, the checkpoints within the subscriber ids, and a worker that
\* records an outcome records it in a pipe.
THEOREM TypeCorrect == Spec => []TypeOK
<1>1. TypeInv => TypeOK
  BY DEF TypeInv
<1> QED BY <1>1, TypeInvCorrect, PTL

-----------------------------------------------------------------------------
(* One pipe per campaign. The invariant is not inductive by itself: that    *)
(* the scanner may put a new pipe into m.pipes[c] needs ScanKnowsPipes, that *)
(* nobody put one there since the scanner listed the live ones.             *)

\* Steps that leave the pipes, what they work for and whether they live alone.
LEMMA SamePipes ==
    ASSUME OnePipePerCampaign, UNCHANGED <<pipes, camp, stage>>
    PROVE  OnePipePerCampaign'
BY DEF OnePipePerCampaign, Live

\* Opening a pipe (newPipe): the campaign had none, and the new pipe is its one.
LEMMA OnePipeScanStart ==
    ASSUME TypeInv, OnePipePerCampaign, NEW c \in Campaigns, ScanStart(c)
    PROVE  OnePipePerCampaign'
<1> USE CapAssumption
<1>1. PICK p \in PipeIds :
        /\ stage[p] = "free"
        /\ camp' = [camp EXCEPT ![p] = c]
        /\ stage' = [stage EXCEPT ![p] = "open"]
        /\ pipes' = [pipes EXCEPT ![c] = p]
  BY DEF ScanStart, FreePipes
<1>2. pipes[c] = NoPipe
  BY DEF ScanStart, ScanNext, TypeInv, ScanKnowsPipes
<1>3. /\ pipes \in [Campaigns -> PipeIds \cup {NoPipe}]
      /\ camp \in [PipeIds -> Campaigns] /\ stage \in [PipeIds -> Stages]
  BY DEF TypeInv, TypeOK, TypeManager, TypePipes
<1>4. ASSUME NEW q \in PipeIds, Live(q)' PROVE (pipes[camp[q]] = q)'
  <2>1. CASE q = p
    BY <1>1, <1>3, <2>1
  <2>2. CASE q # p
    <3>1. Live(q) /\ pipes[camp[q]] = q /\ camp[q] \in Campaigns
      BY <1>1, <1>3, <1>4, <2>2 DEF OnePipePerCampaign, Live
    <3>2. camp[q] # c
      BY <1>2, <3>1
    <3> QED BY <1>1, <1>3, <2>2, <3>1, <3>2
  <2> QED BY <2>1, <2>2
<1>5. ASSUME NEW d \in Campaigns, (pipes[d] # NoPipe)'
      PROVE (Live(pipes[d]) /\ camp[pipes[d]] = d)'
  <2>1. CASE d = c
    BY <1>1, <1>3, <2>1 DEF Live
  <2>2. CASE d # c
    <3>1. pipes'[d] = pipes[d] /\ pipes[d] \in PipeIds
      BY <1>1, <1>3, <1>5, <2>2
    <3>2. Live(pipes[d]) /\ camp[pipes[d]] = d
      BY <3>1 DEF OnePipePerCampaign
    <3>3. pipes[d] # p
      BY <1>1, <3>2 DEF Live
    <3> QED BY <1>1, <1>3, <3>1, <3>2, <3>3 DEF Live
  <2> QED BY <2>1, <2>2
<1> QED BY <1>4, <1>5 DEF OnePipePerCampaign

\* Until a pipe is removed its cleanup leaves it live.
LEMMA OnePipeStage ==
    ASSUME TypeInv, OnePipePerCampaign, NEW p \in PipeIds, NEW st \in Stages \ {"free"},
           stage[p] # "free", GoStage(p, st), UNCHANGED <<pipes, camp>>
    PROVE  OnePipePerCampaign'
<1>1. \A q \in PipeIds : Live(q)' <=> Live(q)
  BY DEF GoStage, Live, TypeInv, TypeOK, TypePipes
<1>2. pipes \in [Campaigns -> PipeIds \cup {NoPipe}]
  BY DEF TypeInv, TypeOK, TypeManager
<1> QED BY <1>1, <1>2 DEF OnePipePerCampaign

\* The deferred delete of cleanup removes the pipe that m.pipes has for its campaign.
LEMMA OnePipeRemove ==
    ASSUME TypeInv, OnePipePerCampaign, NEW p \in PipeIds, CleanupRemove(p)
    PROVE  OnePipePerCampaign'
<1> USE CapAssumption
<1>1. /\ pipes' = [pipes EXCEPT ![camp[p]] = NoPipe]
      /\ stage' = [stage EXCEPT ![p] = "free"]
      /\ camp' = camp
  BY DEF CleanupRemove, GoStage
<1>2. pipes[camp[p]] = p
  BY DEF CleanupRemove, OnePipePerCampaign, Live
<1>3. /\ pipes \in [Campaigns -> PipeIds \cup {NoPipe}]
      /\ camp \in [PipeIds -> Campaigns] /\ stage \in [PipeIds -> Stages]
  BY DEF TypeInv, TypeOK, TypeManager, TypePipes
<1>4. ASSUME NEW q \in PipeIds, Live(q)' PROVE (pipes[camp[q]] = q)'
  <2>1. q # p /\ Live(q)
    BY <1>1, <1>3, <1>4 DEF Live
  <2>2. pipes[camp[q]] = q
    BY <2>1 DEF OnePipePerCampaign
  <2> QED BY <1>1, <1>2, <1>3, <2>1, <2>2
<1>5. ASSUME NEW d \in Campaigns, (pipes[d] # NoPipe)'
      PROVE (Live(pipes[d]) /\ camp[pipes[d]] = d)'
  <2>1. d # camp[p] /\ pipes'[d] = pipes[d] /\ pipes[d] \in PipeIds
    BY <1>1, <1>3, <1>5
  <2>2. Live(pipes[d]) /\ camp[pipes[d]] = d
    BY <2>1 DEF OnePipePerCampaign
  <2>3. pipes[d] # p
    BY <2>1, <2>2
  <2> QED BY <1>1, <1>3, <2>1, <2>2, <2>3 DEF Live
<1> QED BY <1>4, <1>5 DEF OnePipePerCampaign

\* Every step keeps a campaign to its one pipe.
LEMMA OnePipeNext == TypeInv /\ OnePipePerCampaign /\ [Next]_vars => OnePipePerCampaign'
<1> SUFFICES ASSUME TypeInv, OnePipePerCampaign, [Next]_vars PROVE OnePipePerCampaign'
  OBVIOUS
<1>1. CASE Scanner
  <2>1. CASE ScanTick \/ ScanLoad \/ ScanReset \/ ScanQuery
    BY <2>1, SamePipes DEF ScanTick, ScanLoad, ScanReset, ScanQuery, mgr, obj
  <2>2. ASSUME NEW c \in Campaigns, ScanRefuse(c) PROVE OnePipePerCampaign'
    BY <2>2, SamePipes DEF ScanRefuse, mgr, obj
  <2> QED BY <1>1, <2>1, <2>2, OnePipeScanStart DEF Scanner
<1>2. CASE Runner
  <2>1. UNCHANGED <<pipes, camp, stage>>
    BY <1>2 DEF Runner, RunPop, RunFetch, RunNewMessage, RunSend, RunRequeue, mgr, obj
  <2> QED BY <2>1, SamePipes
<1>3. CASE World
  <2>1. CASE ScanQueryFails \/ RunFetchFails \/ RunRenderFails
    BY <2>1, SamePipes DEF ScanQueryFails, RunFetchFails, RunRenderFails, mgr, obj
  <2>2. CASE Restart
    BY <2>2, CapAssumption DEF Restart, OnePipePerCampaign, Live
  <2>3. ASSUME NEW c \in Campaigns, Delete(c) \/ SendAtPasses(c) PROVE OnePipePerCampaign'
    BY <2>3, SamePipes DEF Delete, SendAtPasses, mgr, obj
  <2>4. ASSUME NEW c \in Campaigns, NEW s \in Subs, TestMessage(c, s) \/ Churn(c, s)
        PROVE OnePipePerCampaign'
    BY <2>4, SamePipes DEF TestMessage, Churn, mgr, obj
  <2> QED BY <1>3, <2>1, <2>2, <2>3, <2>4 DEF World
<1>4. ASSUME NEW w \in Workers, Worker(w) PROVE OnePipePerCampaign'
  <2>1. UNCHANGED <<pipes, camp, stage>>
    BY <1>4 DEF Worker, WorkerTake, WorkerCheck, WorkerPush, WorkerDone, WorkerOnError, WorkerLoad,
                WorkerStore, WorkerAdd, mgr, obj
  <2> QED BY <2>1, SamePipes
<1>5. ASSUME NEW p \in PipeIds, Cleanup(p) PROVE OnePipePerCampaign'
  <2>1. CASE CleanupRemove(p)
    BY <2>1, OnePipeRemove
  <2>2. CASE ~ CleanupRemove(p)
    <3>1. UNCHANGED <<pipes, camp>> /\ stage[p] # "free"
      BY <1>5, <2>2 DEF Cleanup, CleanupCounts, CleanupCheckErrors, CleanupCheckStopped, CleanupLoad,
                        CleanupWrite, StageOnly, mgr
    <3>2. \E st \in Stages \ {"free"} : GoStage(p, st)
      BY <1>5, <2>2 DEF Cleanup, CleanupCounts, CleanupCheckErrors, CleanupCheckStopped, CleanupLoad,
                        CleanupWrite, Stages
    <3> QED BY <3>1, <3>2, OnePipeStage
  <2> QED BY <2>1, <2>2
<1>6. ASSUME NEW r \in Requests, Request(r) PROVE OnePipePerCampaign'
  <2>1. UNCHANGED <<pipes, camp, stage>>
    BY <1>6 DEF Request, StatusCheck, StatusWrite, StatusStop, EditCheck, EditWrite, mgr, obj
  <2> QED BY <2>1, SamePipes
<1>7. CASE UNCHANGED vars
  BY <1>7, SamePipes DEF vars, mgr, obj
<1> QED
  BY <1>1, <1>2, <1>3, <1>4, <1>5, <1>6, <1>7 DEF Next

\* Never two pipes for one campaign, and none in m.pipes that has ended, however many
\* campaigns, workers and requests there are: what keeps a campaign from being sent
\* twice at once, although the database is asked with a list read earlier.
THEOREM OnePipeCorrect == Spec => []OnePipePerCampaign
<1>1. Init => OnePipePerCampaign
  BY CapAssumption DEF Init, OnePipePerCampaign, Live
<1>2. TypeInv /\ OnePipePerCampaign /\ [Next]_vars => OnePipePerCampaign'
  BY OnePipeNext
<1> QED BY <1>1, <1>2, TypeInvCorrect, PTL DEF Spec

-----------------------------------------------------------------------------
(* What is outstanding for a pipe, and how each step changes it.           *)

MessagesOf(p) == {m \in Messages : m.pipe = p}
Out(p) == Cardinality(Queued(p)) + Cardinality(InHand(p)) + Creating(p) + Token(p)

\* The WaitGroup of a live pipe counts what is outstanding, and nothing is outstanding
\* for a pipe that is not open: WaitGroupExact and CleanupAfterDrain together, neither
\* of which is inductive without the other.
CountInv == \A p \in PipeIds : /\ Live(p) => wg[p] = Out(p)
                               /\ stage[p] # "open" => Out(p) = 0

\* The queues hold what their types say, so that the places of a pipe in them are the
\* ones PlacesIn counts.
LEMMA QueuePlaces ==
    ASSUME TypeInv, TypeInv', NEW p \in PipeIds
    PROVE  /\ Queued(p) = PlacesIn(campMsgQ, MessagesOf(p))
           /\ Queued(p)' = PlacesIn(campMsgQ', MessagesOf(p))
           /\ Waiting(p) = PlacesIn(nextPipes, {p})
           /\ Waiting(p)' = PlacesIn(nextPipes', {p})
<1>1. /\ campMsgQ \in Seq(Messages) /\ campMsgQ' \in Seq(Messages)
      /\ nextPipes \in Seq(PipeIds) /\ nextPipes' \in Seq(PipeIds)
  BY DEF TypeInv, TypeOK, TypeManager
<1>2. /\ \A i \in DOMAIN campMsgQ : campMsgQ[i] \in Messages
      /\ \A i \in DOMAIN campMsgQ' : campMsgQ'[i] \in Messages
  BY <1>1, ElementOfSeq, LenProperties
<1> QED BY <1>2 DEF Queued, Waiting, PlacesIn, MessagesOf

\* The parts of what is outstanding are natural numbers, and zero for an empty set.
LEMMA OutParts ==
    ASSUME TypeInv, TypeInv', NEW p \in PipeIds
    PROVE  /\ Cardinality(Queued(p)) \in Nat /\ Cardinality(Queued(p))' \in Nat
           /\ Cardinality(InHand(p)) \in Nat /\ Cardinality(InHand(p))' \in Nat
           /\ Cardinality(Waiting(p)) \in Nat /\ Cardinality(Waiting(p))' \in Nat
           /\ IsFiniteSet(Queued(p)) /\ IsFiniteSet(InHand(p)) /\ IsFiniteSet(Waiting(p))
           /\ IsFiniteSet(InHand(p)')
<1>1. /\ campMsgQ \in Seq(Messages) /\ campMsgQ' \in Seq(Messages)
      /\ nextPipes \in Seq(PipeIds) /\ nextPipes' \in Seq(PipeIds)
  BY DEF TypeInv, TypeOK, TypeManager
<1>2. InHand(p) \in SUBSET Workers /\ InHand(p)' \in SUBSET Workers
  BY DEF InHand
<1>3. IsFiniteSet(InHand(p)) /\ IsFiniteSet(InHand(p)')
  BY <1>2, SetAssumption, FS_Subset
<1>4. Cardinality(InHand(p)) \in Nat /\ Cardinality(InHand(p)') \in Nat
  BY <1>3, FS_CardinalityType
<1>5. /\ IsFiniteSet(Queued(p)) /\ Cardinality(Queued(p)) \in Nat
      /\ Cardinality(PlacesIn(campMsgQ', MessagesOf(p))) \in Nat
  BY <1>1, QueuePlaces, PlacesFinite
<1>6. /\ IsFiniteSet(Waiting(p)) /\ Cardinality(Waiting(p)) \in Nat
      /\ Cardinality(PlacesIn(nextPipes', {p})) \in Nat
  BY <1>1, QueuePlaces, PlacesFinite
<1>7. Cardinality(Queued(p))' \in Nat /\ Cardinality(Waiting(p))' \in Nat
  BY <1>5, <1>6, QueuePlaces
<1> QED BY <1>3, <1>4, <1>5, <1>6, <1>7

\* A step that touches neither the queues nor Run's pipe nor a worker changes nothing
\* that is outstanding.
LEMMA OutKept ==
    ASSUME UNCHANGED <<nextPipes, campMsgQ, runPc, runPipe, wpc, wmsg>>, NEW p \in PipeIds
    PROVE  Out(p)' = Out(p)
BY DEF Out, Queued, InHand, Creating, Token, Waiting

\* Nothing is outstanding exactly when every part of it is nothing.
LEMMA NothingOut ==
    ASSUME TypeInv, TypeInv', NEW p \in PipeIds, Out(p) = 0
    PROVE  Queued(p) = {} /\ InHand(p) = {} /\ Token(p) = 0 /\ runPipe # p /\ Creating(p) = 0
           /\ Waiting(p) = {}
<1>1. /\ Cardinality(Queued(p)) = 0 /\ Cardinality(InHand(p)) = 0
      /\ Cardinality(Waiting(p)) = 0 /\ Creating(p) = 0 /\ runPipe # p /\ Token(p) = 0
  BY OutParts DEF Out, Creating, Token
<1> QED BY <1>1, OutParts, FS_EmptySet

\* A step of a worker changes only what that worker has in hand.
LEMMA OneWorker ==
    ASSUME TypeInv, TypeInv', NEW p \in PipeIds, NEW w \in Workers,
           \A v \in Workers \ {w} : wpc'[v] = wpc[v] /\ wmsg'[v] = wmsg[v]
    PROVE  /\ (w \in InHand(p) <=> w \in InHand(p)') => Cardinality(InHand(p))' = Cardinality(InHand(p))
           /\ w \in InHand(p)' /\ w \notin InHand(p) => Cardinality(InHand(p))' = Cardinality(InHand(p)) + 1
           /\ w \notin InHand(p)' /\ w \in InHand(p) => Cardinality(InHand(p))' = Cardinality(InHand(p)) - 1
<1>1. \A v \in Workers \ {w} : v \in InHand(p)' <=> v \in InHand(p)
  BY DEF InHand
<1>2. InHand(p) \subseteq Workers /\ InHand(p)' \subseteq Workers
  BY DEF InHand
<1>3. (w \in InHand(p) <=> w \in InHand(p)') => InHand(p)' = InHand(p)
  BY <1>1, <1>2
<1>4. w \in InHand(p)' /\ w \notin InHand(p) => InHand(p)' = InHand(p) \cup {w}
  BY <1>1, <1>2
<1>5. w \notin InHand(p)' /\ w \in InHand(p) => InHand(p)' = InHand(p) \ {w}
  BY <1>1, <1>2
<1> QED BY <1>3, <1>4, <1>5, OutParts, FS_AddElement, FS_RemoveElement

\* A step that adds to the WaitGroups what it adds to the outstanding messages.
LEMMA Balanced ==
    ASSUME TypeInv, TypeInv', CountInv, stage' = stage,
           \A p \in PipeIds : Out(p) = 0 => Out(p)' = 0 /\ wg'[p] = wg[p],
           \A p \in PipeIds : wg'[p] - wg[p] = Out(p)' - Out(p)
    PROVE  CountInv'
<1> SUFFICES ASSUME NEW p \in PipeIds
             PROVE  (Live(p)' => wg'[p] = Out(p)') /\ (stage'[p] # "open" => Out(p)' = 0)
  BY DEF CountInv
<1>1. Out(p) \in Nat /\ Out(p)' \in Nat
  BY OutParts DEF Out, Creating, Token
<1>2. wg[p] \in Int /\ wg'[p] \in Int
  BY DEF TypeInv, TypeOK, TypePipes
<1> QED BY <1>1, <1>2 DEF CountInv, Live

\* A pipe that is taken out of nextPipes waits there no longer, one that is put there
\* does, and no other is affected.
LEMMA NextPopped ==
    ASSUME TypeInv, TypeInv', nextPipes # <<>>, nextPipes' = Tail(nextPipes), NEW p \in PipeIds
    PROVE  /\ Head(nextPipes) = p => Cardinality(Waiting(p))' = Cardinality(Waiting(p)) - 1
           /\ Head(nextPipes) # p => Cardinality(Waiting(p))' = Cardinality(Waiting(p))
<1>1. nextPipes \in Seq(PipeIds)
  BY DEF TypeInv, TypeOK, TypeManager
<1>2. /\ Head(nextPipes) \in {p} => Cardinality(PlacesIn(Tail(nextPipes), {p})) = Cardinality(PlacesIn(nextPipes, {p})) - 1
      /\ Head(nextPipes) \notin {p} => Cardinality(PlacesIn(Tail(nextPipes), {p})) = Cardinality(PlacesIn(nextPipes, {p}))
  BY <1>1, PlacesTail
<1>3. Waiting(p) = PlacesIn(nextPipes, {p}) /\ Waiting(p)' = PlacesIn(Tail(nextPipes), {p})
  BY QueuePlaces
<1> QED BY <1>2, <1>3

\* What pushing a pipe on nextPipes does to the places where pipes wait.
LEMMA NextPushed ==
    ASSUME TypeInv, TypeInv', NEW q \in PipeIds, nextPipes' = Append(nextPipes, q), NEW p \in PipeIds
    PROVE  /\ q = p => Cardinality(Waiting(p))' = Cardinality(Waiting(p)) + 1
           /\ q # p => Cardinality(Waiting(p))' = Cardinality(Waiting(p))
<1>1. nextPipes \in Seq(PipeIds)
  BY DEF TypeInv, TypeOK, TypeManager
<1>2. /\ q \in {p} => Cardinality(PlacesIn(Append(nextPipes, q), {p})) = Cardinality(PlacesIn(nextPipes, {p})) + 1
      /\ q \notin {p} => PlacesIn(Append(nextPipes, q), {p}) = PlacesIn(nextPipes, {p})
  BY <1>1, PlacesAppend
<1>3. Waiting(p) = PlacesIn(nextPipes, {p}) /\ Waiting(p)' = PlacesIn(Append(nextPipes, q), {p})
  BY QueuePlaces
<1> QED BY <1>2, <1>3

\* The same of the queue of messages.
LEMMA MessagePopped ==
    ASSUME TypeInv, TypeInv', campMsgQ # <<>>, campMsgQ' = Tail(campMsgQ), NEW p \in PipeIds
    PROVE  /\ Head(campMsgQ).pipe = p => Cardinality(Queued(p))' = Cardinality(Queued(p)) - 1
           /\ Head(campMsgQ).pipe # p => Cardinality(Queued(p))' = Cardinality(Queued(p))
<1>1. campMsgQ \in Seq(Messages)
  BY DEF TypeInv, TypeOK, TypeManager
<1>2. Head(campMsgQ) \in MessagesOf(p) <=> Head(campMsgQ).pipe = p
  BY <1>1, HeadTailProperties DEF MessagesOf
<1> DEFINE M == MessagesOf(p)
<1>3. /\ Head(campMsgQ) \in M => Cardinality(PlacesIn(Tail(campMsgQ), M)) = Cardinality(PlacesIn(campMsgQ, M)) - 1
      /\ Head(campMsgQ) \notin M => Cardinality(PlacesIn(Tail(campMsgQ), M)) = Cardinality(PlacesIn(campMsgQ, M))
  BY <1>1, PlacesTail
<1>4. Queued(p) = PlacesIn(campMsgQ, M) /\ Queued(p)' = PlacesIn(Tail(campMsgQ), M)
  BY QueuePlaces
<1> QED BY <1>2, <1>3, <1>4

\* What pushing a message on campMsgQ does to the messages of each pipe that are queued.
LEMMA MessagePushed ==
    ASSUME TypeInv, TypeInv', NEW m \in Messages, campMsgQ' = Append(campMsgQ, m), NEW p \in PipeIds
    PROVE  /\ m.pipe = p => Cardinality(Queued(p))' = Cardinality(Queued(p)) + 1
           /\ m.pipe # p => Cardinality(Queued(p))' = Cardinality(Queued(p))
<1>1. campMsgQ \in Seq(Messages)
  BY DEF TypeInv, TypeOK, TypeManager
<1>2. m \in MessagesOf(p) <=> m.pipe = p
  BY DEF MessagesOf
<1> DEFINE M == MessagesOf(p)
<1>3. /\ m \in M => Cardinality(PlacesIn(Append(campMsgQ, m), M)) = Cardinality(PlacesIn(campMsgQ, M)) + 1
      /\ m \notin M => PlacesIn(Append(campMsgQ, m), M) = PlacesIn(campMsgQ, M)
  BY <1>1, PlacesAppend
<1>4. Queued(p) = PlacesIn(campMsgQ, M) /\ Queued(p)' = PlacesIn(Append(campMsgQ, m), M)
  BY QueuePlaces
<1> QED BY <1>2, <1>3, <1>4

-----------------------------------------------------------------------------
(* Every step keeps the count.                                             *)

\* Steps that leave the counts and what is counted alone.
LEMMA CountSame ==
    ASSUME CountInv, UNCHANGED <<nextPipes, campMsgQ, runPc, runPipe, wpc, wmsg, wg, stage>>
    PROVE  CountInv'
<1>1. \A p \in PipeIds : Out(p)' = Out(p)
  BY OutKept
<1> QED BY <1>1 DEF CountInv, Live

\* newPipe: the pipe starts with the count of its place in nextPipes, if it gets one.
LEMMA CountScanStart ==
    ASSUME TypeInv, TypeInv', CountInv, NEW c \in Campaigns, ScanStart(c)
    PROVE  CountInv'
<1>1. PICK q \in PipeIds :
        /\ q \in FreePipes
        /\ stage' = [stage EXCEPT ![q] = "open"]
        /\ wg' = [wg EXCEPT ![q] = FirstCount(~Room(nextPipes, NextCap))]
        /\ nextPipes' = IF ~Room(nextPipes, NextCap) THEN nextPipes ELSE Append(nextPipes, q)
  BY DEF ScanStart, FreePipes
<1>2. UNCHANGED <<campMsgQ, runPc, runPipe, wpc, wmsg>>
  BY DEF ScanStart, runVars, workVars
<1>3. wg \in [PipeIds -> Int] /\ stage \in [PipeIds -> Stages]
  BY DEF TypeInv, TypeOK, TypePipes
<1>4. Out(q) = 0
  BY <1>1 DEF CountInv, FreePipes
<1>5. \A p \in PipeIds : UNCHANGED <<Queued(p), InHand(p), Creating(p)>>
  BY <1>2 DEF Queued, InHand, Creating
<1>6. ASSUME NEW p \in PipeIds
      PROVE  (Live(p)' => wg'[p] = Out(p)') /\ (stage'[p] # "open" => Out(p)' = 0)
  <2>1. CASE p # q
    <3>1. Cardinality(Waiting(p))' = Cardinality(Waiting(p))
      <4>1. CASE nextPipes' = nextPipes
        BY <4>1 DEF Waiting
      <4>2. CASE nextPipes' = Append(nextPipes, q)
        BY <2>1, <4>2, NextPushed
      <4> QED BY <1>1, <4>1, <4>2
    <3>2. Out(p)' = Out(p)
      BY <1>2, <1>5, <3>1 DEF Out, Token
    <3>3. wg'[p] = wg[p] /\ stage'[p] = stage[p]
      BY <1>1, <1>3, <2>1
    <3> QED BY <3>2, <3>3 DEF CountInv, Live
  <2>2. CASE p = q
    <3>1. /\ Cardinality(Queued(p)) = 0 /\ Cardinality(InHand(p)) = 0 /\ Creating(p) = 0
          /\ Cardinality(Waiting(p)) = 0 /\ runPipe # p
      BY <1>4, <2>2, OutParts DEF Out, Creating, Token
    <3>2. wg'[p] = FirstCount(~Room(nextPipes, NextCap)) /\ stage'[p] = "open"
      BY <1>1, <1>3, <2>2
    <3>3. Cardinality(Waiting(p))' = FirstCount(~Room(nextPipes, NextCap))
      <4>1. CASE ~Room(nextPipes, NextCap)
        BY <1>1, <3>1, <4>1 DEF Waiting, FirstCount
      <4>2. CASE Room(nextPipes, NextCap)
        BY <1>1, <2>2, <3>1, <4>2, NextPushed DEF FirstCount
      <4> QED BY <4>1, <4>2
    <3>4. Out(p)' = FirstCount(~Room(nextPipes, NextCap))
      BY <1>2, <1>5, <3>1, <3>3 DEF Out, Token, FirstCount
    <3> QED BY <3>2, <3>4
  <2> QED BY <2>1, <2>2
<1> QED BY <1>6 DEF CountInv

\* Run takes a pipe: the count it waited with goes with it, or is released.
LEMMA CountRunPop ==
    ASSUME TypeInv, TypeInv', CountInv, RunPop
    PROVE  CountInv'
<1>1. PICK h \in PipeIds : h = Head(nextPipes)
  BY HeadTailProperties DEF RunPop, TypeInv, TypeOK, TypeManager
<1>2. /\ nextPipes # <<>> /\ nextPipes' = Tail(nextPipes) /\ runPc = "idle" /\ runPipe = NoPipe
      /\ UNCHANGED <<campMsgQ, wpc, wmsg, stage>>
      /\ \/ runPc' = "batch" /\ runPipe' = h /\ UNCHANGED wg
         \/ runPc' = "idle" /\ runPipe' = NoPipe /\ wg' = [wg EXCEPT ![h] = @ - 1]
  BY <1>1 DEF RunPop, Done, workVars, TypeInv, TypeOK, TypeRun
<1>3. \A p \in PipeIds : UNCHANGED <<Queued(p), InHand(p), Creating(p)>>
  BY <1>2 DEF Queued, InHand, Creating
<1>4. wg \in [PipeIds -> Int] /\ NoPipe \notin PipeIds
  BY CapAssumption DEF TypeInv, TypeOK, TypePipes
<1>5. ASSUME NEW p \in PipeIds
      PROVE  (Out(p) = 0 => Out(p)' = 0 /\ wg'[p] = wg[p]) /\ wg'[p] - wg[p] = Out(p)' - Out(p)
  <2>1. /\ h = p => Cardinality(Waiting(p))' = Cardinality(Waiting(p)) - 1
        /\ h # p => Cardinality(Waiting(p))' = Cardinality(Waiting(p))
    BY <1>1, <1>2, NextPopped
  <2>2. Creating(p) = 0
    BY <1>2 DEF Creating
  <2> QED BY <1>2, <1>3, <1>4, <2>1, <2>2, OutParts DEF Out, Token
<1> QED BY <1>2, <1>5, Balanced

\* Run lets go of a pipe it has: its count is released with it.
LEMMA CountRunReleases ==
    ASSUME TypeInv, TypeInv', CountInv, runPc # "send", NEW h \in PipeIds, h = runPipe,
           runPipe' = NoPipe, runPc' = "idle", wg' = [wg EXCEPT ![h] = @ - 1],
           UNCHANGED <<nextPipes, campMsgQ, wpc, wmsg, stage>>
    PROVE  CountInv'
<1>1. \A p \in PipeIds : UNCHANGED <<Queued(p), InHand(p), Creating(p), Waiting(p)>>
  BY DEF Queued, InHand, Creating, Waiting
<1>2. wg \in [PipeIds -> Int] /\ NoPipe \notin PipeIds
  BY CapAssumption DEF TypeInv, TypeOK, TypePipes
<1>3. ASSUME NEW p \in PipeIds
      PROVE  (Out(p) = 0 => Out(p)' = 0 /\ wg'[p] = wg[p]) /\ wg'[p] - wg[p] = Out(p)' - Out(p)
  <2>1. Creating(p) = 0
    BY DEF Creating
  <2> QED BY <1>1, <1>2, <2>1, OutParts DEF Out, Token
<1> QED BY <1>3, Balanced

\* Run fetches: an empty batch gives up what Run holds of the count, another keeps it.
LEMMA CountRunFetch ==
    ASSUME TypeInv, TypeInv', CountInv, RunFetch
    PROVE  CountInv'
<1>1. UNCHANGED <<nextPipes, campMsgQ, wpc, wmsg, stage>> /\ runPc = "batch" /\ runPipe \in PipeIds
  BY DEF RunFetch, mgr, workVars, TypeInv, TypeOK, TypeRun
<1>2. CASE Batch = {}
  <2>1. runPipe' = NoPipe /\ runPc' = "idle" /\ wg' = [wg EXCEPT ![runPipe] = @ - 1]
    BY <1>2 DEF RunFetch, Done
  <2> QED BY <1>1, <2>1, CountRunReleases
<1>3. CASE Batch # {}
  <2>1. runPc' = "new" /\ UNCHANGED <<runPipe, wg>>
    BY <1>3 DEF RunFetch
  <2>2. \A p \in PipeIds : Out(p)' = Out(p)
    BY <1>1, <2>1 DEF Out, Queued, InHand, Creating, Token, Waiting
  <2> QED BY <1>1, <2>1, <2>2 DEF CountInv, Live
<1> QED BY <1>2, <1>3

\* A failing fetch releases the pipe that Run was about to take, or the one it has.
LEMMA CountRunFetchFails ==
    ASSUME TypeInv, TypeInv', CountInv, RunFetchFails
    PROVE  CountInv'
<1>1. UNCHANGED <<campMsgQ, wpc, wmsg, stage>> /\ runPc' = "idle" /\ runPipe' = NoPipe
  BY DEF RunFetchFails, workVars
<1>2. CASE runPc = "batch" /\ Release(runPipe) /\ UNCHANGED nextPipes
  <2>1. runPipe \in PipeIds /\ wg' = [wg EXCEPT ![runPipe] = @ - 1]
    BY <1>2 DEF Release, Done, TypeInv, TypeOK, TypeRun
  <2> QED BY <1>1, <1>2, <2>1, CountRunReleases
<1>3. CASE /\ runPc = "idle" /\ nextPipes # <<>>
           /\ Release(Head(nextPipes))
           /\ nextPipes' = Tail(nextPipes)
  <2>1. PICK h \in PipeIds : h = Head(nextPipes)
    BY <1>3, HeadTailProperties DEF TypeInv, TypeOK, TypeManager
  <2>2. wg' = [wg EXCEPT ![h] = @ - 1] /\ runPipe = NoPipe
    BY <1>3, <2>1 DEF Release, Done, TypeInv, TypeOK, TypeRun
  <2>3. \A p \in PipeIds : UNCHANGED <<Queued(p), InHand(p), Creating(p)>>
    BY <1>1, <1>3, <2>2 DEF Queued, InHand, Creating
  <2>4. wg \in [PipeIds -> Int] /\ NoPipe \notin PipeIds
    BY CapAssumption DEF TypeInv, TypeOK, TypePipes
  <2>5. ASSUME NEW p \in PipeIds
        PROVE  (Out(p) = 0 => Out(p)' = 0 /\ wg'[p] = wg[p]) /\ wg'[p] - wg[p] = Out(p)' - Out(p)
    <3>1. /\ h = p => Cardinality(Waiting(p))' = Cardinality(Waiting(p)) - 1
          /\ h # p => Cardinality(Waiting(p))' = Cardinality(Waiting(p))
      BY <1>3, <2>1, NextPopped
    <3>2. Creating(p) = 0
      BY <1>3 DEF Creating
    <3> QED BY <1>1, <2>2, <2>3, <2>4, <3>1, <3>2, OutParts DEF Out, Token
  <2> QED BY <1>1, <2>5, Balanced
<1> QED BY <1>2, <1>3 DEF RunFetchFails

\* newMessage counts the message before it is queued, while Run holds the pipe's count.
LEMMA CountRunNewMessage ==
    ASSUME TypeInv, TypeInv', CountInv, RunNewMessage
    PROVE  CountInv'
<1>1. /\ UNCHANGED <<nextPipes, campMsgQ, wpc, wmsg, stage, runPipe>>
      /\ runPc = "new" /\ runPc' = "send"
      /\ runPipe \in PipeIds /\ wg' = [wg EXCEPT ![runPipe] = @ + 1]
  BY DEF RunNewMessage, Add, mgr, workVars, TypeInv, TypeOK, TypeRun
<1>2. \A p \in PipeIds : UNCHANGED <<Queued(p), InHand(p), Token(p)>>
  BY <1>1 DEF Queued, InHand, Token, Waiting
<1>3. wg \in [PipeIds -> Int]
  BY DEF TypeInv, TypeOK, TypePipes
<1>4. ASSUME NEW p \in PipeIds
      PROVE  (Out(p) = 0 => Out(p)' = 0 /\ wg'[p] = wg[p]) /\ wg'[p] - wg[p] = Out(p)' - Out(p)
  <2>1. Creating(p) = 0 /\ Creating(p)' = (IF runPipe = p THEN 1 ELSE 0)
    BY <1>1 DEF Creating
  <2>2. Token(p) \in Nat /\ (runPipe = p => Token(p) # 0)
    BY OutParts DEF Token
  <2> QED BY <1>1, <1>2, <1>3, <2>1, <2>2, OutParts DEF Out
<1> QED BY <1>1, <1>4, Balanced

\* The message that Run had counted is queued.
LEMMA CountRunSend ==
    ASSUME TypeInv, TypeInv', CountInv, RunSend
    PROVE  CountInv'
<1>1. /\ UNCHANGED <<nextPipes, wpc, wmsg, stage, runPipe, wg>>
      /\ runPc = "send" /\ runPc' = "new" /\ runPipe \in PipeIds
  BY DEF RunSend, obj, workVars, TypeInv, TypeOK, TypeRun
<1>2. PICK m \in Messages : m.pipe = runPipe /\ campMsgQ' = Append(campMsgQ, m)
  <2>1. runBatch # {} /\ runBatch \subseteq Subs /\ runBatch \subseteq Nat /\ camp[runPipe] \in Campaigns
    BY <1>1 DEF TypeInv, TypeOK, TypeRun, TypePipes, Subs
  <2>2. MinOf(runBatch) \in Subs
    BY <2>1, MinOfProperty
  <2>3. [pipe |-> runPipe, camp |-> camp[runPipe], sub |-> MinOf(runBatch)] \in Messages
    BY <1>1, <2>1, <2>2 DEF Messages
  <2> QED BY <2>3 DEF RunSend
<1>3. \A p \in PipeIds : UNCHANGED <<InHand(p), Token(p)>>
  BY <1>1 DEF InHand, Token, Waiting
<1>4. wg \in [PipeIds -> Int]
  BY DEF TypeInv, TypeOK, TypePipes
<1>5. ASSUME NEW p \in PipeIds
      PROVE  (Out(p) = 0 => Out(p)' = 0 /\ wg'[p] = wg[p]) /\ wg'[p] - wg[p] = Out(p)' - Out(p)
  <2>1. /\ m.pipe = p => Cardinality(Queued(p))' = Cardinality(Queued(p)) + 1
        /\ m.pipe # p => Cardinality(Queued(p))' = Cardinality(Queued(p))
    BY <1>2, MessagePushed
  <2>2. Creating(p)' = 0 /\ Creating(p) = (IF runPipe = p THEN 1 ELSE 0)
    BY <1>1 DEF Creating
  <2>3. Token(p) \in Nat
    BY OutParts DEF Token
  <2>4. Out(p)' = Out(p)
    BY <1>2, <1>3, <2>1, <2>2, <2>3, OutParts DEF Out
  <2>5. Out(p) \in Nat
    BY <2>2, <2>3, OutParts DEF Out
  <2> QED BY <1>1, <1>4, <2>4, <2>5
<1> QED BY <1>1, <1>5, Balanced

\* Run puts the pipe back, and its count with it, or releases both.
LEMMA CountRunRequeue ==
    ASSUME TypeInv, TypeInv', CountInv, RunRequeue
    PROVE  CountInv'
<1>1. /\ UNCHANGED <<campMsgQ, wpc, wmsg, stage>> /\ runPipe \in PipeIds
      /\ runPc = "new" /\ runPc' = "idle" /\ runPipe' = NoPipe
  BY DEF RunRequeue, workVars, TypeInv, TypeOK, TypeRun
<1>2. CASE Release(runPipe) /\ UNCHANGED nextPipes
  <2>1. wg' = [wg EXCEPT ![runPipe] = @ - 1]
    BY <1>2 DEF Release, Done
  <2> QED BY <1>1, <1>2, <2>1, CountRunReleases
<1>3. CASE nextPipes' = Append(nextPipes, runPipe) /\ UNCHANGED wg
  <2>1. wg \in [PipeIds -> Int] /\ NoPipe \notin PipeIds
    BY CapAssumption DEF TypeInv, TypeOK, TypePipes
  <2>2. ASSUME NEW p \in PipeIds PROVE Out(p)' = Out(p) /\ Out(p) \in Nat
    <3>1. /\ runPipe = p => Cardinality(Waiting(p))' = Cardinality(Waiting(p)) + 1
          /\ runPipe # p => Cardinality(Waiting(p))' = Cardinality(Waiting(p))
      BY <1>1, <1>3, NextPushed
    <3>2. UNCHANGED <<Queued(p), InHand(p), Creating(p)>> /\ Creating(p) = 0
      BY <1>1, <2>1 DEF Queued, InHand, Creating
    <3> QED BY <1>1, <2>1, <3>1, <3>2, OutParts DEF Out, Token
  <2> QED BY <1>1, <1>3, <2>1, <2>2 DEF CountInv, Live
<1> QED BY <1>2, <1>3 DEF RunRequeue

\* A worker takes the message over from the queue.
LEMMA CountWorkerTake ==
    ASSUME TypeInv, TypeInv', CountInv, NEW w \in Workers, WorkerTake(w)
    PROVE  CountInv'
<1>1. /\ UNCHANGED <<nextPipes, runPc, runPipe, wg, stage>>
      /\ wpc[w] = "idle" /\ campMsgQ # <<>> /\ campMsgQ' = Tail(campMsgQ)
  BY DEF WorkerTake, obj, runVars
<1>2. /\ wpc'[w] = "check" /\ wmsg'[w] = Head(campMsgQ)
      /\ \A v \in Workers \ {w} : wpc'[v] = wpc[v] /\ wmsg'[v] = wmsg[v]
  BY DEF WorkerTake, Goto, TypeInv, TypeOK, TypeWorkers
<1>3. ASSUME NEW p \in PipeIds PROVE Out(p)' = Out(p)
  <2>1. w \notin InHand(p) /\ (w \in InHand(p)' <=> Head(campMsgQ).pipe = p)
    BY <1>1, <1>2 DEF InHand
  <2>2. /\ Head(campMsgQ).pipe = p => Cardinality(InHand(p))' = Cardinality(InHand(p)) + 1
        /\ Head(campMsgQ).pipe # p => Cardinality(InHand(p))' = Cardinality(InHand(p))
    BY <1>2, <2>1, OneWorker
  <2>3. /\ Head(campMsgQ).pipe = p => Cardinality(Queued(p))' = Cardinality(Queued(p)) - 1
        /\ Head(campMsgQ).pipe # p => Cardinality(Queued(p))' = Cardinality(Queued(p))
    BY <1>1, MessagePopped
  <2>4. UNCHANGED <<Creating(p), Token(p)>>
    BY <1>1 DEF Creating, Token, Waiting
  <2> QED BY <2>2, <2>3, <2>4, OutParts DEF Out, Creating, Token
<1> QED BY <1>1, <1>3 DEF CountInv, Live

\* A worker settles the message it has in hand, which marks it done.
LEMMA CountWorkerSettles ==
    ASSUME TypeInv, TypeInv', CountInv, NEW w \in Workers, NEW h \in PipeIds, w \in InHand(h),
           \A p \in PipeIds : w \notin InHand(p)',
           \A v \in Workers \ {w} : wpc'[v] = wpc[v] /\ wmsg'[v] = wmsg[v],
           wg' = [wg EXCEPT ![h] = @ - 1],
           UNCHANGED <<nextPipes, campMsgQ, runPc, runPipe, stage>>
    PROVE  CountInv'
<1>1. wg \in [PipeIds -> Int]
  BY DEF TypeInv, TypeOK, TypePipes
<1>2. ASSUME NEW p \in PipeIds
      PROVE  (Out(p) = 0 => Out(p)' = 0 /\ wg'[p] = wg[p]) /\ wg'[p] - wg[p] = Out(p)' - Out(p)
  <2>1. UNCHANGED <<Queued(p), Creating(p), Token(p)>>
    BY DEF Queued, Creating, Token, Waiting
  <2>2. w \in InHand(p) <=> p = h
    BY DEF InHand
  <2>3. /\ p = h => Cardinality(InHand(p))' = Cardinality(InHand(p)) - 1
        /\ p # h => Cardinality(InHand(p))' = Cardinality(InHand(p))
    BY <2>2, OneWorker
  <2>4. Creating(p) \in Nat /\ Token(p) \in Nat
    BY OutParts DEF Creating, Token
  <2>5. wg'[p] = IF p = h THEN wg[p] - 1 ELSE wg[p]
    BY <1>1
  <2> QED BY <1>1, <2>1, <2>3, <2>4, <2>5, OutParts DEF Out
<1> QED BY <1>2, Balanced

\* A worker goes on with what it has in hand.
LEMMA CountWorkerKeeps ==
    ASSUME TypeInv, TypeInv', CountInv, NEW w \in Workers,
           \A p \in PipeIds : w \in InHand(p)' <=> w \in InHand(p),
           \A v \in Workers \ {w} : wpc'[v] = wpc[v] /\ wmsg'[v] = wmsg[v],
           UNCHANGED <<nextPipes, campMsgQ, runPc, runPipe, wg, stage>>
    PROVE  CountInv'
<1>1. ASSUME NEW p \in PipeIds PROVE Out(p)' = Out(p)
  <2>1. Cardinality(InHand(p))' = Cardinality(InHand(p))
    BY OneWorker
  <2>2. UNCHANGED <<Queued(p), Creating(p), Token(p)>>
    BY DEF Queued, Creating, Token, Waiting
  <2> QED BY <2>1, <2>2 DEF Out
<1> QED BY <1>1 DEF CountInv, Live

\* A worker checks its message: one of a stopped pipe is done with at once.
LEMMA CountWorkerCheck ==
    ASSUME TypeInv, TypeInv', CountInv, NEW w \in Workers, WorkerCheck(w)
    PROVE  CountInv'
<1>1. /\ UNCHANGED <<nextPipes, campMsgQ, runPc, runPipe, stage>> /\ wpc[w] = "check"
      /\ wpc \in [Workers -> WorkerPcs] /\ wmsg \in [Workers -> Messages \cup {NoMsg}]
  BY DEF WorkerCheck, mgr, runVars, TypeInv, TypeOK, TypeWorkers
<1>2. \A v \in Workers \ {w} : wpc'[v] = wpc[v] /\ wmsg'[v] = wmsg[v]
  BY <1>1 DEF WorkerCheck, Finish, Goto
<1>3. PICK h : h = wmsg[w].pipe
  OBVIOUS
<1>4. CASE Dropped(h)
  <2>1. h \in PipeIds
    BY <1>1, <1>3, <1>4 DEF Dropped, Messages, NoMsg
  <2>2. wg' = [wg EXCEPT ![h] = @ - 1] /\ wpc'[w] = "idle"
    BY <1>1, <1>3, <1>4 DEF WorkerCheck, Done, Finish, Goto
  <2>3. w \in InHand(h) /\ \A p \in PipeIds : w \notin InHand(p)'
    BY <1>1, <1>3, <2>2 DEF InHand
  <2> QED BY <1>1, <1>2, <2>1, <2>2, <2>3, CountWorkerSettles
<1>5. CASE ~Dropped(h)
  <2>1. wpc'[w] = "push" /\ UNCHANGED <<wg, wmsg>>
    BY <1>1, <1>3, <1>5 DEF WorkerCheck, Goto
  <2>2. \A p \in PipeIds : w \in InHand(p)' <=> w \in InHand(p)
    BY <1>1, <2>1 DEF InHand
  <2> QED BY <1>1, <1>2, <2>1, <2>2, CountWorkerKeeps
<1> QED BY <1>4, <1>5

\* A worker is done with a message: the count of its pipe goes down with what is in hand.
LEMMA CountWorkerDone ==
    ASSUME TypeInv, TypeInv', CountInv, NEW w \in Workers, WorkerDone(w)
    PROVE  CountInv'
<1>1. /\ UNCHANGED <<nextPipes, campMsgQ, runPc, runPipe, stage>> /\ wpc[w] \in {"doneOk", "doneErr"}
      /\ wpc \in [Workers -> WorkerPcs] /\ wmsg \in [Workers -> Messages \cup {NoMsg}]
  BY DEF WorkerDone, mgr, runVars, TypeInv, TypeOK, TypeWorkers
<1>2. \A v \in Workers \ {w} : wpc'[v] = wpc[v] /\ wmsg'[v] = wmsg[v]
  BY <1>1 DEF WorkerDone, Finish, Goto
<1>3. PICK h : h = wmsg[w].pipe
  OBVIOUS
<1>4. CASE h = NoPipe
  <2>1. UNCHANGED wg /\ wpc'[w] = "idle"
    BY <1>1, <1>3, <1>4 DEF WorkerDone, Finish, Goto
  <2>2. \A p \in PipeIds : w \in InHand(p)' <=> w \in InHand(p)
    BY <1>3, <1>4, <2>1, CapAssumption DEF InHand
  <2> QED BY <1>1, <1>2, <2>1, <2>2, CountWorkerKeeps
<1>5. CASE h # NoPipe
  <2>1. h \in PipeIds
    BY <1>1, <1>3, <1>5 DEF Messages, NoMsg
  <2>2. wg' = [wg EXCEPT ![h] = @ - 1] /\ wpc'[w] \in {"load", "onError"}
    BY <1>1, <1>3, <1>5 DEF WorkerDone, Done, Goto
  <2>3. w \in InHand(h) /\ \A p \in PipeIds : w \notin InHand(p)'
    BY <1>1, <1>3, <2>2 DEF InHand
  <2> QED BY <1>1, <1>2, <2>1, <2>2, <2>3, CountWorkerSettles
<1> QED BY <1>4, <1>5

\* The other steps of a worker: its Push, and what it records once a message is done.
LEMMA CountWorkerOthers ==
    ASSUME TypeInv, TypeInv', CountInv, NEW w \in Workers,
           WorkerPush(w) \/ WorkerOnError(w) \/ WorkerLoad(w) \/ WorkerStore(w) \/ WorkerAdd(w)
    PROVE  CountInv'
<1>1. wpc \in [Workers -> WorkerPcs] /\ wmsg \in [Workers -> Messages \cup {NoMsg}]
  BY DEF TypeInv, TypeOK, TypeWorkers
<1>2. UNCHANGED <<nextPipes, campMsgQ, runPc, runPipe, wg, stage>>
  BY DEF WorkerPush, WorkerOnError, WorkerLoad, WorkerStore, WorkerAdd, mgr, obj, runVars
<1>3. \A v \in Workers \ {w} : wpc'[v] = wpc[v] /\ wmsg'[v] = wmsg[v]
  BY <1>1 DEF WorkerPush, WorkerOnError, WorkerLoad, WorkerStore, WorkerAdd, Finish, Goto
<1>4. CASE WorkerPush(w)
  <2>1. wpc[w] = "push" /\ wpc'[w] \in {"doneOk", "doneErr"} /\ wmsg' = wmsg
    BY <1>1, <1>4 DEF WorkerPush, Goto
  <2>2. \A p \in PipeIds : w \in InHand(p)' <=> w \in InHand(p)
    BY <2>1 DEF InHand
  <2> QED BY <1>2, <1>3, <2>2, CountWorkerKeeps
<1>5. CASE WorkerOnError(w) \/ WorkerLoad(w) \/ WorkerStore(w) \/ WorkerAdd(w)
  <2>1. wpc[w] \in {"onError", "load", "store", "add"} /\ wpc'[w] \in {"idle", "store", "add"}
    BY <1>1, <1>5 DEF WorkerOnError, WorkerLoad, WorkerStore, WorkerAdd, Finish, Goto
  <2>2. \A p \in PipeIds : w \in InHand(p)' <=> w \in InHand(p)
    BY <2>1 DEF InHand
  <2> QED BY <1>2, <1>3, <2>2, CountWorkerKeeps
<1> QED BY <1>4, <1>5

\* The goroutine of a pipe goes on to cleanup only when nothing is outstanding, and
\* nothing is until the pipe's identity is used again.
LEMMA CountCleanup ==
    ASSUME TypeInv, TypeInv', CountInv, NEW h \in PipeIds, Cleanup(h)
    PROVE  CountInv'
<1>1. UNCHANGED <<nextPipes, campMsgQ, runPc, runPipe, wpc, wmsg, wg>>
  BY DEF Cleanup, CleanupCounts, CleanupCheckErrors, CleanupCheckStopped, CleanupLoad, CleanupWrite,
         CleanupRemove, StageOnly, mgr, runVars, workVars
<1>2. /\ \E st : GoStage(h, st)
      /\ stage[h] = "open" => wg[h] = 0
      /\ stage[h] # "free"
  BY DEF Cleanup, CleanupCounts, CleanupCheckErrors, CleanupCheckStopped, CleanupLoad, CleanupWrite,
         CleanupRemove
<1>3. \A p \in PipeIds : Out(p)' = Out(p)
  BY <1>1, OutKept
<1>4. \A p \in PipeIds \ {h} : stage'[p] = stage[p]
  BY <1>2 DEF GoStage, TypeInv, TypeOK, TypePipes
<1>5. Out(h) = 0 /\ wg[h] = 0
  BY <1>2 DEF CountInv, Live
<1> QED BY <1>1, <1>3, <1>4, <1>5 DEF CountInv, Live

\* A test message belongs to no pipe and is not counted.
LEMMA CountTestMessage ==
    ASSUME TypeInv, TypeInv', CountInv, NEW c \in Campaigns, NEW s \in Subs, TestMessage(c, s)
    PROVE  CountInv'
<1>1. UNCHANGED <<nextPipes, runPc, runPipe, wpc, wmsg, wg, stage>>
  BY DEF TestMessage, obj, runVars, workVars
<1>2. PICK m \in Messages : m.pipe = NoPipe /\ campMsgQ' = Append(campMsgQ, m)
  <2>1. [pipe |-> NoPipe, camp |-> c, sub |-> s] \in Messages
    BY DEF Messages
  <2> QED BY <2>1 DEF TestMessage
<1>3. ASSUME NEW p \in PipeIds PROVE Out(p)' = Out(p)
  <2>1. Cardinality(Queued(p))' = Cardinality(Queued(p))
    BY <1>2, MessagePushed, CapAssumption
  <2>2. UNCHANGED <<InHand(p), Creating(p), Token(p)>>
    BY <1>1 DEF InHand, Creating, Token, Waiting
  <2> QED BY <2>1, <2>2 DEF Out
<1> QED BY <1>1, <1>3 DEF CountInv, Live

\* Nothing is outstanding in a process that has no pipes and empty queues.
LEMMA NothingAtStart ==
    ASSUME campMsgQ = <<>>, nextPipes = <<>>, runPipe = NoPipe, \A w \in Workers : wpc[w] = "idle",
           \A p \in PipeIds : stage[p] = "free"
    PROVE  CountInv
<1>1. \A p \in PipeIds : /\ Queued(p) = {} /\ InHand(p) = {} /\ Waiting(p) = {}
                         /\ Creating(p) = 0 /\ runPipe # p
  BY CapAssumption DEF Queued, InHand, Waiting, Creating
<1>2. ASSUME NEW p \in PipeIds PROVE Out(p) = 0
  <2>1. Cardinality(Queued(p)) = 0 /\ Cardinality(InHand(p)) = 0 /\ Cardinality(Waiting(p)) = 0
    BY <1>1, FS_EmptySet
  <2>2. Creating(p) = 0 /\ runPipe # p
    BY <1>1
  <2> QED BY <2>1, <2>2 DEF Out, Token
<1> QED BY <1>2 DEF CountInv, Live

\* After a restart nothing is out and every count is zero.
LEMMA CountRestart ==
    ASSUME Restart PROVE CountInv'
<1>1. /\ campMsgQ' = <<>> /\ nextPipes' = <<>> /\ runPipe' = NoPipe
      /\ \A w \in Workers : wpc'[w] = "idle"
      /\ \A p \in PipeIds : stage'[p] = "free"
  BY DEF Restart
<1>2. \A p \in PipeIds : /\ Queued(p)' = {} /\ InHand(p)' = {} /\ Waiting(p)' = {}
                         /\ Creating(p)' = 0 /\ runPipe' # p
  BY <1>1, CapAssumption DEF Queued, InHand, Waiting, Creating
<1>3. \A p \in PipeIds : Out(p)' = 0
  BY <1>2, FS_EmptySet DEF Out, Token
<1> QED BY <1>1, <1>3 DEF CountInv, Live

\* Every step keeps the count.
LEMMA CountNext ==
    ASSUME TypeInv, CountInv, [Next]_vars PROVE CountInv'
<1>0. TypeInv'
  BY TypeNext
<1>1. CASE Scanner
  <2>1. CASE ScanTick \/ ScanLoad \/ ScanReset \/ ScanQuery \/ \E c \in Campaigns : ScanRefuse(c)
    <3>1. UNCHANGED <<nextPipes, campMsgQ, runPc, runPipe, wpc, wmsg, wg, stage>>
      BY <2>1 DEF ScanTick, ScanLoad, ScanReset, ScanQuery, ScanRefuse, mgr, obj, runVars, workVars
    <3> QED BY <3>1, CountSame
  <2> QED BY <1>0, <1>1, <2>1, CountScanStart DEF Scanner
<1>2. CASE Runner
  BY <1>0, <1>2, CountRunPop, CountRunFetch, CountRunNewMessage, CountRunSend, CountRunRequeue
     DEF Runner
<1>3. CASE World
  <2>1. CASE \/ ScanQueryFails \/ RunRenderFails
             \/ \E c \in Campaigns : Delete(c) \/ SendAtPasses(c) \/ \E s \in Subs : Churn(c, s)
    <3>1. UNCHANGED <<nextPipes, campMsgQ, runPc, runPipe, wpc, wmsg, wg, stage>>
      BY <2>1 DEF ScanQueryFails, RunRenderFails, Delete, SendAtPasses, Churn, mgr, obj, runVars,
                  workVars
    <3> QED BY <3>1, CountSame
  <2> QED BY <1>0, <1>3, <2>1, CountRunFetchFails, CountTestMessage, CountRestart DEF World
<1>4. ASSUME NEW w \in Workers, Worker(w) PROVE CountInv'
  BY <1>0, <1>4, CountWorkerTake, CountWorkerCheck, CountWorkerDone, CountWorkerOthers DEF Worker
<1>5. ASSUME NEW p \in PipeIds, Cleanup(p) PROVE CountInv'
  BY <1>0, <1>5, CountCleanup
<1>6. ASSUME NEW r \in Requests, Request(r) PROVE CountInv'
  <2>1. UNCHANGED <<nextPipes, campMsgQ, runPc, runPipe, wpc, wmsg, wg, stage>>
    BY <1>6 DEF Request, StatusCheck, StatusWrite, StatusStop, EditCheck, EditWrite, mgr, obj, runVars,
                workVars
  <2> QED BY <2>1, CountSame
<1>7. CASE UNCHANGED vars
  <2>1. UNCHANGED <<nextPipes, campMsgQ, runPc, runPipe, wpc, wmsg, wg, stage>>
    BY <1>7 DEF vars, mgr, obj, runVars, workVars
  <2> QED BY <2>1, CountSame
<1> QED BY <1>1, <1>2, <1>3, <1>4, <1>5, <1>6, <1>7 DEF Next

\* The count, with the type invariant it needs, holds in every reachable state.
LEMMA CountInvCorrect == Spec => [](TypeInv /\ CountInv)
<1>1. Init => CountInv
  <2>1. Init => /\ campMsgQ = <<>> /\ nextPipes = <<>> /\ runPipe = NoPipe
                /\ \A w \in Workers : wpc[w] = "idle"
                /\ \A p \in PipeIds : stage[p] = "free"
    BY DEF Init
  <2> QED BY <2>1, NothingAtStart
<1>2. TypeInv /\ CountInv /\ [Next]_vars => CountInv'
  BY CountNext
<1> QED BY <1>1, <1>2, TypeInvCorrect, PTL DEF Spec

\* The WaitGroup of every live pipe is exact, for any number of campaigns, workers and
\* subscribers and any capacity of the queues: it never goes negative, which would
\* panic, and no message is forgotten or counted twice on the way from newMessage
\* through the queue and the worker to Done, whoever stops the pipe meanwhile.
THEOREM WaitGroupCorrect == Spec => []WaitGroupExact
<1>1. CountInv => WaitGroupExact
  BY DEF CountInv, WaitGroupExact, Out
<1> QED BY <1>1, CountInvCorrect, PTL

\* The parts of nothing, without the step that OutParts speaks about.
LEMMA NothingLeft ==
    ASSUME TypeInv, NEW p \in PipeIds, Out(p) = 0
    PROVE  Queued(p) = {} /\ InHand(p) = {} /\ Token(p) = 0
<1>1. /\ campMsgQ \in Seq(Messages) /\ nextPipes \in Seq(PipeIds)
  BY DEF TypeInv, TypeOK, TypeManager
<1>2. \A i \in DOMAIN campMsgQ : campMsgQ[i] \in Messages
  BY <1>1, ElementOfSeq, LenProperties
<1>3. Queued(p) = PlacesIn(campMsgQ, MessagesOf(p)) /\ Waiting(p) = PlacesIn(nextPipes, {p})
  BY <1>2 DEF Queued, Waiting, PlacesIn, MessagesOf
<1>4. /\ IsFiniteSet(Queued(p)) /\ Cardinality(Queued(p)) \in Nat
      /\ IsFiniteSet(Waiting(p)) /\ Cardinality(Waiting(p)) \in Nat
  BY <1>1, <1>3, PlacesFinite
<1>5. IsFiniteSet(InHand(p)) /\ Cardinality(InHand(p)) \in Nat
  <2>1. InHand(p) \in SUBSET Workers
    BY DEF InHand
  <2> QED BY <2>1, SetAssumption, FS_Subset, FS_CardinalityType
<1>6. Cardinality(Queued(p)) = 0 /\ Cardinality(InHand(p)) = 0 /\ Token(p) = 0
  BY <1>4, <1>5 DEF Out, Creating, Token
<1> QED BY <1>4, <1>5, <1>6, FS_EmptySet

\* When the cleanup of a pipe runs nothing of the pipe is queued, being sent or with
\* Run, however its messages, its stop and the requests interleave.
THEOREM CleanupCorrect == Spec => []CleanupAfterDrain
<1>1. TypeInv /\ CountInv => CleanupAfterDrain
  BY NothingLeft DEF CountInv, CleanupAfterDrain
<1> QED BY <1>1, CountInvCorrect, PTL

\* An empty m.pipes, the one thing the settings handler asks before it restarts the
\* process, does mean that no campaign message is queued or being sent: a message
\* keeps its pipe open, and an open pipe is in m.pipes.
THEOREM QuietCorrect == Spec => []QuietWithoutPipes
<1>1. ASSUME TypeInv, CleanupAfterDrain, OnePipePerCampaign, \A c \in Campaigns : pipes[c] = NoPipe
      PROVE  /\ \A i \in DOMAIN campMsgQ : campMsgQ[i].pipe = NoPipe
             /\ \A w \in Workers : wpc[w] = "push" => wmsg[w].pipe = NoPipe
  <2>1. ASSUME NEW p \in PipeIds PROVE Queued(p) = {} /\ InHand(p) = {}
    <3>1. camp[p] \in Campaigns
      BY <1>1 DEF TypeInv, TypeOK, TypePipes
    <3>2. stage[p] = "free"
      BY <1>1, <3>1, CapAssumption DEF OnePipePerCampaign, Live
    <3> QED BY <1>1, <3>2 DEF CleanupAfterDrain
  <2>2. /\ \A i \in DOMAIN campMsgQ : campMsgQ[i].pipe \in PipeIds \cup {NoPipe}
        /\ \A w \in Workers : wmsg[w].pipe \in PipeIds \cup {NoPipe}
    <3>1. campMsgQ \in Seq(Messages) /\ wmsg \in [Workers -> Messages \cup {NoMsg}]
      BY <1>1 DEF TypeInv, TypeOK, TypeManager, TypeWorkers
    <3>2. \A i \in DOMAIN campMsgQ : campMsgQ[i] \in Messages
      BY <3>1, ElementOfSeq, LenProperties
    <3> QED BY <3>1, <3>2 DEF Messages, NoMsg
  <2> QED BY <2>1, <2>2 DEF Queued, InHand
<1>2. TypeInv /\ CleanupAfterDrain /\ OnePipePerCampaign => QuietWithoutPipes
  BY <1>1 DEF QuietWithoutPipes
<1> QED BY <1>2, TypeInvCorrect, CleanupCorrect, OnePipeCorrect, PTL

-----------------------------------------------------------------------------
(* Late messages. What a stopped pipe has sent late, and the messages of it *)
(* that workers had already checked, are together no more than the workers: *)
(* no worker passes the check for a pipe that is stopped.                   *)

Pushing(p) == {w \in Workers : wpc[w] = "push" /\ wmsg[w].pipe = p}
LateInv == \A p \in PipeIds : /\ stopped[p] => late[p] + Cardinality(Pushing(p)) <= Cardinality(Workers)
                              /\ ~ stopped[p] => late[p] = 0

\* There are no more workers pushing than workers.
LEMMA PushingWorkers ==
    ASSUME NEW S \in SUBSET Workers
    PROVE  /\ IsFiniteSet(S) /\ Cardinality(S) \in Nat
           /\ Cardinality(Workers) \in Nat /\ Cardinality(S) <= Cardinality(Workers)
BY SetAssumption, FS_Subset, FS_CardinalityType

\* Steps that send nothing, resume nothing, and bring no worker past the check for a
\* stopped pipe.
LEMMA LateStep ==
    ASSUME TypeInv, TypeInv', LateInv, late' = late, \A p \in PipeIds : stopped[p] => stopped'[p],
           \A p \in PipeIds : stopped[p] => Pushing(p)' \subseteq Pushing(p)
    PROVE  LateInv'
<1> SUFFICES ASSUME NEW p \in PipeIds
             PROVE  /\ stopped'[p] => late'[p] + Cardinality(Pushing(p))' <= Cardinality(Workers)
                    /\ ~ stopped'[p] => late'[p] = 0
  BY DEF LateInv
<1>1. Pushing(p) \in SUBSET Workers /\ Pushing(p)' \in SUBSET Workers
  BY DEF Pushing
<1>2. Cardinality(Pushing(p)') \in Nat /\ Cardinality(Pushing(p)') <= Cardinality(Workers)
      /\ IsFiniteSet(Pushing(p)) /\ Cardinality(Pushing(p)) \in Nat /\ Cardinality(Workers) \in Nat
  BY <1>1, PushingWorkers
<1>3. stopped[p] => Cardinality(Pushing(p)') <= Cardinality(Pushing(p))
  BY <1>2, FS_Subset
<1>4. late[p] \in Nat
  BY DEF TypeInv, TypeOK, TypeHistory
<1>5. CASE stopped[p]
  <2>1. stopped'[p] /\ late[p] + Cardinality(Pushing(p)) <= Cardinality(Workers)
    BY <1>5 DEF LateInv
  <2> QED BY <1>2, <1>3, <1>4, <1>5, <2>1
<1>6. CASE ~ stopped[p]
  <2>1. late[p] = 0
    BY <1>6 DEF LateInv
  <2> QED BY <1>2, <1>6, <2>1
<1> QED BY <1>5, <1>6

\* A new pipe has sent nothing.
LEMMA LateScanStart ==
    ASSUME TypeInv, TypeInv', LateInv, NEW c \in Campaigns, ScanStart(c)
    PROVE  LateInv'
<1>1. PICK q \in PipeIds :
        /\ \A w \in Workers : wmsg[w].pipe # q
        /\ late' = [late EXCEPT ![q] = 0]
        /\ stopped' = [stopped EXCEPT ![q] = ~Room(nextPipes, NextCap)]
  BY DEF ScanStart, FreePipes
<1>2. UNCHANGED <<wpc, wmsg>>
  BY DEF ScanStart, workVars
<1>3. late \in [PipeIds -> Nat] /\ stopped \in [PipeIds -> BOOLEAN]
  BY DEF TypeInv, TypeOK, TypePipes, TypeHistory
<1> SUFFICES ASSUME NEW p \in PipeIds
             PROVE  /\ stopped'[p] => late'[p] + Cardinality(Pushing(p))' <= Cardinality(Workers)
                    /\ ~ stopped'[p] => late'[p] = 0
  BY DEF LateInv
<1>4. Pushing(p)' = Pushing(p)
  BY <1>2 DEF Pushing
<1>5. CASE p = q
  <2>1. late'[p] = 0
    BY <1>1, <1>3, <1>5
  <2>2. Pushing(p) \in SUBSET Workers
    BY DEF Pushing
  <2>3. Cardinality(Pushing(p)) <= Cardinality(Workers) /\ Cardinality(Pushing(p)) \in Nat
    BY <2>2, PushingWorkers
  <2> QED BY <1>4, <2>1, <2>3
<1>6. CASE p # q
  <2>1. late'[p] = late[p] /\ stopped'[p] = stopped[p]
    BY <1>1, <1>3, <1>6
  <2> QED BY <1>4, <2>1 DEF LateInv
<1> QED BY <1>5, <1>6

\* A Push that ends after the stop is one more late message and one fewer to come.
LEMMA LateWorkerPush ==
    ASSUME TypeInv, TypeInv', LateInv, NEW w \in Workers, WorkerPush(w)
    PROVE  LateInv'
<1>1. /\ wpc[w] = "push" /\ wpc'[w] # "push" /\ wmsg' = wmsg /\ stopped' = stopped
      /\ \A v \in Workers \ {w} : wpc'[v] = wpc[v]
  BY DEF WorkerPush, Goto, obj, TypeInv, TypeOK, TypeWorkers
<1>2. \A p \in PipeIds : Pushing(p)' = Pushing(p) \ {w}
  BY <1>1 DEF Pushing
<1>3. PICK h : h = wmsg[w].pipe
  OBVIOUS
<1>4. late' = IF h # NoPipe /\ stopped[h] THEN [late EXCEPT ![h] = @ + 1] ELSE late
  BY <1>3 DEF WorkerPush
<1>5. CASE h # NoPipe /\ stopped[h]
  <2>1. late' = [late EXCEPT ![h] = @ + 1] /\ late \in [PipeIds -> Nat]
    BY <1>4, <1>5 DEF TypeInv, TypeOK, TypeHistory
  <2> SUFFICES ASSUME NEW p \in PipeIds
               PROVE  /\ stopped'[p] => late'[p] + Cardinality(Pushing(p))' <= Cardinality(Workers)
                      /\ ~ stopped'[p] => late'[p] = 0
    BY DEF LateInv
  <2>2. Pushing(p) \in SUBSET Workers
    BY DEF Pushing
  <2>3. IsFiniteSet(Pushing(p)) /\ Cardinality(Pushing(p)) \in Nat /\ Cardinality(Workers) \in Nat
    BY <2>2, PushingWorkers
  <2>4. w \in Pushing(p) <=> p = h
    BY <1>1, <1>3 DEF Pushing
  <2>5. CASE p = h
    <3>1. Cardinality(Pushing(p) \ {w}) = Cardinality(Pushing(p)) - 1
      BY <2>3, <2>4, <2>5, FS_RemoveElement
    <3>2. late'[p] = late[p] + 1 /\ late[p] \in Nat /\ stopped[p]
      BY <1>5, <2>1, <2>5
    <3>3. late[p] + Cardinality(Pushing(p)) <= Cardinality(Workers)
      BY <3>2 DEF LateInv
    <3>4. Cardinality(Pushing(p))' = Cardinality(Pushing(p)) - 1
      BY <1>2, <3>1
    <3>5. stopped'[p]
      BY <1>1, <3>2
    <3> QED BY <2>3, <3>2, <3>3, <3>4, <3>5
  <2>6. CASE p # h
    <3>1. Pushing(p)' = Pushing(p)
      BY <1>2, <2>4, <2>6
    <3>2. late'[p] = late[p]
      BY <2>1, <2>6
    <3> QED BY <1>1, <3>1, <3>2 DEF LateInv
  <2> QED BY <2>5, <2>6
<1>6. CASE ~ (h # NoPipe /\ stopped[h])
  <2>1. late' = late
    BY <1>4, <1>6
  <2>2. \A p \in PipeIds : stopped[p] => stopped'[p]
    BY <1>1
  <2>3. \A p \in PipeIds : Pushing(p)' \subseteq Pushing(p)
    BY <1>2
  <2> QED BY <2>1, <2>2, <2>3, LateStep
<1> QED BY <1>5, <1>6

\* Only Stop, and the start of a pipe, write stopped.
LEMMA StopsOnly ==
    ASSUME TypeInv, NEW p \in PipeIds, NEW b \in BOOLEAN, Stop(p, b)
    PROVE  \A q \in PipeIds : stopped[q] => stopped'[q]
BY DEF Stop, TypeInv, TypeOK, TypePipes

\* Every step keeps late messages few.
LEMMA LateNext ==
    ASSUME TypeInv, LateInv, [Next]_vars PROVE LateInv'
<1>0. TypeInv'
  BY TypeNext
<1>1. CASE UNCHANGED <<stopped, late, wpc, wmsg>>
  <2>1. \A p \in PipeIds : Pushing(p)' = Pushing(p)
    BY <1>1 DEF Pushing
  <2> QED BY <1>0, <1>1, <2>1, LateStep
<1>2. ASSUME UNCHANGED <<late, wpc, wmsg>>, NEW p \in PipeIds, NEW b \in BOOLEAN, Stop(p, b)
      PROVE  LateInv'
  <2>1. \A q \in PipeIds : Pushing(q)' = Pushing(q)
    BY <1>2 DEF Pushing
  <2> QED BY <1>0, <1>2, <2>1, StopsOnly, LateStep
<1>3. CASE Scanner
  <2>1. CASE ScanTick \/ ScanLoad \/ ScanReset \/ ScanQuery \/ \E c \in Campaigns : ScanRefuse(c)
    BY <1>1, <2>1 DEF ScanTick, ScanLoad, ScanReset, ScanQuery, ScanRefuse, obj, workVars, hist
  <2> QED BY <1>0, <1>3, <2>1, LateScanStart DEF Scanner
<1>4. CASE Runner
  <2>1. CASE RunPop \/ RunFetch \/ RunNewMessage \/ RunSend
    BY <1>1, <2>1 DEF RunPop, RunFetch, RunNewMessage, RunSend, obj, workVars, hist
  <2>2. CASE RunRequeue
    <3>1. CASE Release(runPipe)
      <4>1. runPipe \in PipeIds /\ Stop(runPipe, FALSE)
        BY <2>2, <3>1 DEF RunRequeue, Release, TypeInv, TypeOK, TypeRun
      <4>2. UNCHANGED <<late, wpc, wmsg>>
        BY <2>2 DEF RunRequeue, workVars
      <4> QED BY <1>2, <4>1, <4>2
    <3>2. CASE UNCHANGED stopped
      BY <1>1, <2>2, <3>2 DEF RunRequeue, workVars
    <3> QED BY <2>2, <3>1, <3>2 DEF RunRequeue
  <2> QED BY <1>4, <2>1, <2>2 DEF Runner
<1>5. CASE World
  <2>1. CASE \/ ScanQueryFails \/ RunRenderFails
             \/ \E c \in Campaigns : Delete(c) \/ SendAtPasses(c)
                                     \/ \E s \in Subs : TestMessage(c, s) \/ Churn(c, s)
    BY <1>1, <2>1 DEF ScanQueryFails, RunRenderFails, Delete, SendAtPasses, TestMessage, Churn, obj,
                      workVars, hist
  <2>2. CASE RunFetchFails
    <3>1. PICK p \in PipeIds : Stop(p, FALSE)
      BY <2>2, HeadTailProperties DEF RunFetchFails, Release, TypeInv, TypeOK, TypeManager, TypeRun
    <3>2. UNCHANGED <<late, wpc, wmsg>>
      BY <2>2 DEF RunFetchFails, workVars
    <3> QED BY <1>2, <3>1, <3>2
  <2>3. CASE Restart
    <3>1. late' = late /\ stopped' = stopped /\ \A w \in Workers : wpc'[w] = "idle"
      BY <2>3 DEF Restart
    <3>2. \A p \in PipeIds : Pushing(p)' = {}
      BY <3>1 DEF Pushing
    <3> QED BY <1>0, <3>1, <3>2, LateStep
  <2> QED BY <1>5, <2>1, <2>2, <2>3 DEF World
<1>6. ASSUME NEW w \in Workers, Worker(w) PROVE LateInv'
  <2>0. wpc \in [Workers -> WorkerPcs] /\ wmsg \in [Workers -> Messages \cup {NoMsg}]
    BY DEF TypeInv, TypeOK, TypeWorkers
  <2>1. CASE WorkerPush(w)
    BY <1>0, <2>1, LateWorkerPush
  <2>2. CASE WorkerCheck(w)
    <3>1. late' = late /\ stopped' = stopped /\ wpc[w] = "check"
      BY <2>2 DEF WorkerCheck, hist
    <3>2. \A v \in Workers \ {w} : wpc'[v] = wpc[v] /\ wmsg'[v] = wmsg[v]
      BY <2>0, <2>2 DEF WorkerCheck, Finish, Goto
    <3>3. ASSUME NEW p \in PipeIds, stopped[p] PROVE w \notin Pushing(p)'
      <4>1. CASE wmsg[w].pipe = p
        <5>1. wpc'[w] = "idle"
          BY <2>0, <2>2, <3>3, <4>1, CapAssumption DEF WorkerCheck, Dropped, Finish, Goto
        <5> QED BY <5>1 DEF Pushing
      <4>2. CASE wmsg[w].pipe # p
        <5>1. wpc'[w] = "idle" \/ wmsg'[w] = wmsg[w]
          BY <2>0, <2>2 DEF WorkerCheck, Finish, Goto
        <5> QED BY <4>2, <5>1 DEF Pushing
      <4> QED BY <4>1, <4>2
    <3>4. \A p \in PipeIds : stopped[p] => Pushing(p)' \subseteq Pushing(p)
      BY <3>2, <3>3 DEF Pushing
    <3> QED BY <1>0, <3>1, <3>4, LateStep
  <2>3. CASE WorkerTake(w) \/ WorkerDone(w) \/ WorkerLoad(w) \/ WorkerStore(w) \/ WorkerAdd(w)
             \/ WorkerOnError(w)
    <3>1. late' = late /\ wpc'[w] # "push"
          /\ \A v \in Workers \ {w} : wpc'[v] = wpc[v] /\ wmsg'[v] = wmsg[v]
      BY <2>0, <2>3 DEF WorkerTake, WorkerDone, WorkerLoad, WorkerStore, WorkerAdd, WorkerOnError,
                        Finish, Goto, hist
    <3>2. \A p \in PipeIds : stopped[p] => stopped'[p]
      <4>1. CASE WorkerOnError(w)
        <5>1. wmsg[w].pipe \in PipeIds
          BY <4>1 DEF WorkerOnError, TypeInv, TypeOK, TypeWorkers
        <5>2. UNCHANGED stopped \/ Stop(wmsg[w].pipe, TRUE)
          BY <4>1 DEF WorkerOnError
        <5> QED BY <5>1, <5>2, StopsOnly
      <4>2. CASE WorkerTake(w) \/ WorkerDone(w) \/ WorkerLoad(w) \/ WorkerStore(w) \/ WorkerAdd(w)
        BY <4>2 DEF WorkerTake, WorkerDone, WorkerLoad, WorkerStore, WorkerAdd, obj
      <4> QED BY <2>3, <4>1, <4>2
    <3>3. \A p \in PipeIds : Pushing(p)' \subseteq Pushing(p)
      BY <3>1 DEF Pushing
    <3> QED BY <1>0, <3>1, <3>2, <3>3, LateStep
  <2> QED BY <1>6, <2>1, <2>2, <2>3 DEF Worker
<1>7. ASSUME NEW p \in PipeIds, Cleanup(p) PROVE LateInv'
  BY <1>1, <1>7 DEF Cleanup, CleanupCounts, CleanupCheckErrors, CleanupCheckStopped, CleanupLoad,
                    CleanupWrite, CleanupRemove, StageOnly, workVars, hist
<1>8. ASSUME NEW r \in Requests, Request(r) PROVE LateInv'
  <2>1. CASE StatusStop(r)
    <3>1. UNCHANGED <<late, wpc, wmsg>>
      BY <2>1 DEF StatusStop, workVars
    <3>2. pipes[reqCamp[r]] \in PipeIds \cup {NoPipe}
      BY DEF TypeInv, TypeOK, TypeManager, TypeRequests
    <3>3. UNCHANGED stopped \/ (pipes[reqCamp[r]] # NoPipe /\ Stop(pipes[reqCamp[r]], FALSE))
      BY <2>1 DEF StatusStop
    <3> QED BY <1>1, <1>2, <3>1, <3>2, <3>3
  <2>2. CASE ~ StatusStop(r)
    <3>1. UNCHANGED <<stopped, late, wpc, wmsg>>
      BY <1>8, <2>2 DEF Request, StatusCheck, StatusWrite, EditCheck, EditWrite, obj, workVars
    <3> QED BY <1>1, <3>1
  <2> QED BY <2>1, <2>2
<1>9. CASE UNCHANGED vars
  BY <1>1, <1>9 DEF vars, obj, workVars, hist
<1> QED BY <1>3, <1>4, <1>5, <1>6, <1>7, <1>8, <1>9 DEF Next

\* A pipe that is stopped sends at most one more message per worker, however many are
\* queued and whoever stops it: a request, a failing fetch, a full queue or too many
\* errors.
THEOREM LateCorrect == Spec => []FewLateMessages
<1>1. Init => LateInv
  BY CapAssumption, SetAssumption DEF Init, LateInv
<1>2. TypeInv /\ LateInv /\ [Next]_vars => LateInv'
  BY LateNext
<1>3. TypeInv /\ LateInv => FewLateMessages
  <2> SUFFICES ASSUME TypeInv, LateInv, NEW p \in PipeIds PROVE late[p] <= Cardinality(Workers)
    BY DEF FewLateMessages
  <2>1. Pushing(p) \in SUBSET Workers
    BY DEF Pushing
  <2>2. Cardinality(Pushing(p)) \in Nat /\ Cardinality(Workers) \in Nat
    BY <2>1, PushingWorkers
  <2>3. late[p] \in Nat
    BY DEF TypeInv, TypeOK, TypeHistory
  <2>4. CASE stopped[p]
    BY <2>2, <2>3, <2>4 DEF LateInv
  <2>5. CASE ~ stopped[p]
    BY <2>2, <2>5 DEF LateInv
  <2> QED BY <2>4, <2>5
<1> QED BY <1>1, <1>2, <1>3, TypeInvCorrect, PTL DEF Spec
===============================================================================
