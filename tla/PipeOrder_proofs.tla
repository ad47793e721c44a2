--------------------------- MODULE PipeOrder_proofs ---------------------------
(***************************************************************************)
(* More theorems about the pipes of CampaignManager, for every value of    *)
(* its constants: what a pipe has fetched it hands on once and in order,   *)
(* the checkpoint is never moved past a subscriber that was not fetched,   *)
(* and the pipes implement PipeLifetime.                                   *)
(***************************************************************************)
EXTENDS CampaignManager_proofs

-----------------------------------------------------------------------------
(* The order invariant. FetchedOnceInOrder speaks of the queue; to be       *)
(* inductive it needs the same of Run's batch and of the workers' messages, *)
(* and that the checkpoint Run read is still the row's when it fetches.     *)

OrderRun ==
    /\ runBatch # {} => runPc \in {"new", "send"}
    /\ runPc = "batch" => runFrom = last[camp[runPipe]]
    /\ \A s \in runBatch : s <= last[camp[runPipe]]
OrderQueue ==
    /\ \A i \in DOMAIN campMsgQ : campMsgQ[i].pipe # NoPipe =>
          /\ campMsgQ[i].camp = camp[campMsgQ[i].pipe]
          /\ campMsgQ[i].sub <= last[campMsgQ[i].camp]
          /\ campMsgQ[i].pipe = runPipe => \A s \in runBatch : campMsgQ[i].sub < s
    /\ \A i, j \in DOMAIN campMsgQ :
          i < j /\ campMsgQ[i].pipe = campMsgQ[j].pipe /\ campMsgQ[i].pipe # NoPipe
              => campMsgQ[i].sub < campMsgQ[j].sub
OrderWorkers ==
    \A w \in Workers : wmsg[w].pipe # NoPipe =>
        /\ \A i \in DOMAIN campMsgQ : campMsgQ[i].pipe = wmsg[w].pipe => wmsg[w].sub < campMsgQ[i].sub
        /\ wmsg[w].pipe = runPipe => \A s \in runBatch : wmsg[w].sub < s
        /\ \A v \in Workers \ {w} : wmsg[v].pipe = wmsg[w].pipe => wmsg[v].sub # wmsg[w].sub
        /\ stage[wmsg[w].pipe] = "open" => wmsg[w].sub <= last[camp[wmsg[w].pipe]]
OrderPipes == \A p \in PipeIds : stage[p] = "open" => lastID[p] <= last[camp[p]]

OrderInv == OrderRun /\ OrderQueue /\ OrderWorkers /\ OrderPipes

\* What the parts of the order invariant need to know of the types.
LEMMA OrderTypes ==
    ASSUME TypeInv
    PROVE  /\ campMsgQ \in Seq(Messages)
           /\ \A i \in DOMAIN campMsgQ : /\ campMsgQ[i] \in Messages
                                         /\ campMsgQ[i].pipe \in PipeIds \cup {NoPipe}
                                         /\ campMsgQ[i].camp \in Campaigns
                                         /\ campMsgQ[i].sub \in Nat /\ campMsgQ[i].sub \in Subs
           /\ wmsg \in [Workers -> Messages \cup {NoMsg}]
           /\ \A w \in Workers : wmsg[w].pipe \in PipeIds \cup {NoPipe} /\ wmsg[w].sub \in 0 .. MaxSub
           /\ runBatch \subseteq Subs /\ runBatch \subseteq Nat /\ runPipe \in PipeIds \cup {NoPipe}
           /\ camp \in [PipeIds -> Campaigns] /\ last \in [Campaigns -> 0 .. MaxSub]
           /\ lastID \in [PipeIds -> 0 .. MaxSub] /\ stage \in [PipeIds -> Stages]
           /\ MaxSub \in Nat /\ NoPipe \notin PipeIds
<1>1. /\ campMsgQ \in Seq(Messages) /\ wmsg \in [Workers -> Messages \cup {NoMsg}]
      /\ runBatch \subseteq Subs /\ runPipe \in PipeIds \cup {NoPipe}
      /\ camp \in [PipeIds -> Campaigns] /\ last \in [Campaigns -> 0 .. MaxSub]
      /\ lastID \in [PipeIds -> 0 .. MaxSub] /\ stage \in [PipeIds -> Stages]
  BY DEF TypeInv, TypeOK, TypeManager, TypeWorkers, TypeRun, TypePipes, TypeDB
<1>2. \A i \in DOMAIN campMsgQ : campMsgQ[i] \in Messages
  BY <1>1, ElementOfSeq, LenProperties
<1>3. \A m \in Messages : m.pipe \in PipeIds \cup {NoPipe} /\ m.camp \in Campaigns /\ m.sub \in Subs
  BY DEF Messages
<1>4. Subs \subseteq Nat /\ Subs \subseteq 0 .. MaxSub /\ MaxSub \in Nat /\ NoPipe \notin PipeIds
  BY CapAssumption DEF Subs
<1>5. NoMsg.pipe = NoPipe /\ NoMsg.sub = 0
  BY DEF NoMsg
<1>6. \A w \in Workers : wmsg[w].pipe \in PipeIds \cup {NoPipe} /\ wmsg[w].sub \in 0 .. MaxSub
  <2> TAKE w \in Workers
  <2>1. CASE wmsg[w] = NoMsg
    BY <1>4, <1>5, <2>1
  <2>2. CASE wmsg[w] \in Messages
    <3>1. wmsg[w].pipe \in PipeIds \cup {NoPipe} /\ wmsg[w].sub \in Subs
      BY <1>3, <2>2
    <3> QED BY <1>4, <3>1
  <2> QED BY <1>1, <2>1, <2>2
<1> QED BY <1>1, <1>2, <1>3, <1>4, <1>6

\* The pipe that Run has, and a pipe with a message queued or in hand, is open, and its
\* WaitGroup is not at zero.
LEMMA RunningOpen ==
    ASSUME TypeInv, CountInv, NEW p \in PipeIds, runPipe = p
    PROVE  stage[p] = "open" /\ wg[p] # 0
<1>1. nextPipes \in Seq(PipeIds) /\ Waiting(p) = PlacesIn(nextPipes, {p})
  BY DEF TypeInv, TypeOK, TypeManager, Waiting, PlacesIn
<1>2. Cardinality(Waiting(p)) \in Nat
  BY <1>1, PlacesFinite
<1>3. Token(p) # 0
  BY <1>2 DEF Token
<1>4. Out(p) # 0
  BY <1>3, NothingLeft
<1> QED BY <1>4 DEF CountInv, Live

\* A pipe with a message in the queue or at a worker is open and its count is not zero.
LEMMA BusyOpen ==
    ASSUME TypeInv, CountInv, NEW p \in PipeIds, Queued(p) # {} \/ InHand(p) # {}
    PROVE  stage[p] = "open" /\ wg[p] # 0
<1>1. Out(p) # 0
  BY NothingLeft
<1> QED BY <1>1 DEF CountInv, Live

\* Steps in which Run's batch may shrink or end, workers may finish and pipes may leave
\* the open stage, and the rest of what the invariant reads stays.
LEMMA OrderShrinks ==
    ASSUME TypeInv, OrderInv, UNCHANGED <<camp, last, campMsgQ, lastID>>,
           \A p \in PipeIds : stage'[p] = "open" => stage[p] = "open",
           runBatch' \subseteq runBatch,
           runBatch' # {} => runPc' \in {"new", "send"} /\ runPipe' = runPipe,
           runPc' = "batch" => runFrom' = last[camp[runPipe']],
           \A w \in Workers : wmsg'[w] = wmsg[w] \/ wmsg'[w] = NoMsg
    PROVE  OrderInv'
<1>1. OrderRun'
  BY DEF OrderInv, OrderRun
<1>2. OrderQueue'
  BY DEF OrderInv, OrderQueue
<1>3. OrderWorkers'
  <2> SUFFICES ASSUME NEW w \in Workers, wmsg'[w].pipe # NoPipe
               PROVE  /\ \A i \in DOMAIN campMsgQ :
                            campMsgQ[i].pipe = wmsg'[w].pipe => wmsg'[w].sub < campMsgQ[i].sub
                      /\ wmsg'[w].pipe = runPipe' => \A s \in runBatch' : wmsg'[w].sub < s
                      /\ \A v \in Workers \ {w} :
                            wmsg'[v].pipe = wmsg'[w].pipe => wmsg'[v].sub # wmsg'[w].sub
                      /\ stage'[wmsg'[w].pipe] = "open" => wmsg'[w].sub <= last[camp[wmsg'[w].pipe]]
    BY DEF OrderWorkers
  <2>1. NoMsg.pipe = NoPipe
    BY DEF NoMsg
  <2>2. wmsg'[w] = wmsg[w] /\ wmsg[w].pipe # NoPipe
    BY <2>1
  <2>3. wmsg[w].pipe \in PipeIds
    BY <2>2, OrderTypes
  <2>4. \A v \in Workers \ {w} : wmsg'[v].pipe = wmsg'[w].pipe => wmsg'[v].sub # wmsg'[w].sub
    BY <2>1, <2>2 DEF OrderInv, OrderWorkers
  <2>5. \A i \in DOMAIN campMsgQ :
            campMsgQ[i].pipe = wmsg'[w].pipe => wmsg'[w].sub < campMsgQ[i].sub
    BY <2>2 DEF OrderInv, OrderWorkers
  <2>6. wmsg'[w].pipe = runPipe' => \A s \in runBatch' : wmsg'[w].sub < s
    BY <2>2 DEF OrderInv, OrderWorkers
  <2>7. stage'[wmsg'[w].pipe] = "open" => wmsg'[w].sub <= last[camp[wmsg'[w].pipe]]
    BY <2>2, <2>3 DEF OrderInv, OrderWorkers
  <2> QED BY <2>4, <2>5, <2>6, <2>7
<1>4. OrderPipes'
  BY DEF OrderInv, OrderPipes
<1> QED BY <1>1, <1>2, <1>3, <1>4 DEF OrderInv

\* A pipe is opened with an identity that nothing refers to any more.
LEMMA OrderScanStart ==
    ASSUME TypeInv, CountInv, OrderInv, NEW c \in Campaigns, ScanStart(c)
    PROVE  OrderInv'
<1>1. PICK q \in PipeIds :
        /\ stage[q] = "free" /\ \A w \in Workers : wmsg[w].pipe # q
        /\ camp' = [camp EXCEPT ![q] = c] /\ stage' = [stage EXCEPT ![q] = "open"]
        /\ lastID' = [lastID EXCEPT ![q] = 0]
  BY DEF ScanStart, FreePipes
<1>2. UNCHANGED <<campMsgQ, last, runPc, runPipe, runFrom, runBatch, wmsg>>
  BY DEF ScanStart, db, runVars, workVars
<1>3. Queued(q) = {} /\ runPipe # q
  <2>1. Out(q) = 0
    BY <1>1 DEF CountInv
  <2> QED BY <1>1, <2>1, NothingLeft, RunningOpen
<1>4. \A p \in PipeIds \ {q} : camp'[p] = camp[p] /\ stage'[p] = stage[p] /\ lastID'[p] = lastID[p]
  BY <1>1, OrderTypes
<1>5. \A i \in DOMAIN campMsgQ : campMsgQ[i].pipe # q
  BY <1>3 DEF Queued
<1>6. OrderRun'
  <2>1. runPc = "batch" => runPipe \in PipeIds \ {q}
    BY <1>3 DEF TypeInv, TypeOK, TypeRun
  <2>2. runBatch # {} => runPipe \in PipeIds \ {q}
    BY <1>3 DEF TypeInv, TypeOK, TypeRun, OrderInv, OrderRun
  <2> QED BY <1>2, <1>4, <2>1, <2>2 DEF OrderInv, OrderRun
<1>7. OrderQueue'
  <2>1. \A i \in DOMAIN campMsgQ : campMsgQ[i].pipe # NoPipe => campMsgQ[i].pipe \in PipeIds \ {q}
    BY <1>5, OrderTypes
  <2> QED BY <1>2, <1>4, <2>1 DEF OrderInv, OrderQueue
<1>8. OrderWorkers'
  <2>1. \A w \in Workers : wmsg[w].pipe # NoPipe => wmsg[w].pipe \in PipeIds \ {q}
    BY <1>1, OrderTypes
  <2> QED BY <1>2, <1>4, <2>1 DEF OrderInv, OrderWorkers
<1>9. OrderPipes'
  <2> SUFFICES ASSUME NEW p \in PipeIds, stage'[p] = "open" PROVE lastID'[p] <= last[camp'[p]]
    BY <1>2 DEF OrderPipes
  <2>1. CASE p = q
    <3>1. lastID'[p] = 0 /\ last[camp'[p]] \in 0 .. MaxSub
      BY <1>1, <2>1, OrderTypes
    <3> QED BY <3>1
  <2>2. CASE p # q
    BY <1>4, <2>2 DEF OrderInv, OrderPipes
  <2> QED BY <2>1, <2>2
<1> QED BY <1>6, <1>7, <1>8, <1>9 DEF OrderInv

\* A batch is fetched above the checkpoint, which everything the pipe has fetched before
\* is not above, and moves the checkpoint to its end. No other open pipe works for the
\* same campaign.
LEMMA OrderRunFetch ==
    ASSUME TypeInv, CountInv, OrderInv, RunFetch, Batch # {}
    PROVE  OrderInv'
<1>1. /\ runPc = "batch" /\ runPipe \in PipeIds /\ runPc' = "new" /\ runPipe' = runPipe
      /\ runBatch' = Batch /\ last' = [last EXCEPT ![camp[runPipe]] = MaxOf(Batch)]
      /\ UNCHANGED <<campMsgQ, camp, lastID, stage, wmsg>>
  BY DEF RunFetch, Checkpoint, TypeInv, TypeOK, TypeRun, mgr, workVars
<1>2. PICK c \in Campaigns : c = camp[runPipe]
  BY <1>1, OrderTypes
<1>3. runFrom = last[c] /\ last[c] \in 0 .. MaxSub
  BY <1>1, <1>2, OrderTypes DEF OrderInv, OrderRun
<1>4. Batch \subseteq Subs /\ \A s \in Batch : last[c] < s
  <2>1. status[c] # Deleted
    BY <1>2 DEF Batch
  <2>2. audience[c] \subseteq Subs
    BY DEF TypeInv, TypeOK, TypeDB
  <2> QED BY <1>2, <1>3, <2>1, <2>2 DEF Batch, FirstOf
<1>5. /\ MaxOf(Batch) \in Batch /\ \A s \in Batch : s <= MaxOf(Batch)
      /\ MaxOf(Batch) \in 0 .. MaxSub
  <2>1. Batch \subseteq 0 .. MaxSub /\ MaxSub \in Nat
    BY <1>4, OrderTypes DEF Subs
  <2> QED BY <2>1, MaxOfProperty
<1>6. PICK n \in Nat : n = MaxOf(Batch) /\ \A s \in Batch : s \in Nat /\ s <= n
  BY <1>4, <1>5 DEF Subs
<1>7. /\ last'[c] = n /\ last[c] < n /\ \A d \in Campaigns \ {c} : last'[d] = last[d]
      /\ \A d \in Campaigns : last[d] <= last'[d] /\ last[d] \in Nat /\ last'[d] \in Nat
  BY <1>1, <1>2, <1>3, <1>4, <1>5, <1>6, OrderTypes
<1>8. Live(runPipe) /\ stage[runPipe] = "open"
  BY <1>1, RunningOpen DEF Live
<1>9. OrderRun'
  BY <1>1, <1>2, <1>6, <1>7 DEF OrderRun
<1>10. OrderQueue'
  <2>1. ASSUME NEW i \in DOMAIN campMsgQ, campMsgQ[i].pipe # NoPipe
        PROVE  /\ campMsgQ[i].camp = camp[campMsgQ[i].pipe]
               /\ campMsgQ[i].sub <= last'[campMsgQ[i].camp]
               /\ campMsgQ[i].pipe = runPipe => \A s \in Batch : campMsgQ[i].sub < s
    <3>1. campMsgQ[i].camp \in Campaigns /\ campMsgQ[i].sub \in Nat
      BY OrderTypes
    <3>2. /\ campMsgQ[i].camp = camp[campMsgQ[i].pipe]
          /\ campMsgQ[i].sub <= last[campMsgQ[i].camp]
      BY <2>1 DEF OrderInv, OrderQueue
    <3>3. campMsgQ[i].sub <= last'[campMsgQ[i].camp]
      BY <1>7, <3>1, <3>2
    <3>4. ASSUME campMsgQ[i].pipe = runPipe, NEW s \in Batch PROVE campMsgQ[i].sub < s
      <4>1. campMsgQ[i].sub <= last[c] /\ last[c] < s /\ s \in Nat /\ last[c] \in Nat
        BY <1>2, <1>4, <1>6, <1>7, <3>2, <3>4
      <4> QED BY <3>1, <4>1
    <3> QED BY <3>2, <3>3, <3>4
  <2> QED BY <1>1, <2>1 DEF OrderInv, OrderQueue
<1>11. OrderWorkers'
  <2>1. ASSUME NEW w \in Workers, wmsg[w].pipe # NoPipe
        PROVE  /\ wmsg[w].pipe = runPipe => \A s \in Batch : wmsg[w].sub < s
               /\ stage[wmsg[w].pipe] = "open" => wmsg[w].sub <= last'[camp[wmsg[w].pipe]]
    <3>1. wmsg[w].pipe \in PipeIds /\ camp[wmsg[w].pipe] \in Campaigns /\ wmsg[w].sub \in Nat
      <4>1. wmsg[w].pipe \in PipeIds /\ wmsg[w].sub \in 0 .. MaxSub /\ MaxSub \in Nat
        BY <2>1, OrderTypes
      <4> QED BY <4>1, OrderTypes
    <3>2. stage[wmsg[w].pipe] = "open" => wmsg[w].sub <= last[camp[wmsg[w].pipe]]
      BY <2>1 DEF OrderInv, OrderWorkers
    <3>3. stage[wmsg[w].pipe] = "open" => wmsg[w].sub <= last'[camp[wmsg[w].pipe]]
      BY <1>7, <3>1, <3>2
    <3>4. ASSUME wmsg[w].pipe = runPipe, NEW s \in Batch PROVE wmsg[w].sub < s
      <4>1. wmsg[w].sub <= last[c] /\ last[c] < s /\ s \in Nat /\ last[c] \in Nat
        BY <1>2, <1>4, <1>6, <1>7, <1>8, <3>2, <3>4
      <4> QED BY <3>1, <4>1
    <3> QED BY <3>3, <3>4
  <2> QED BY <1>1, <2>1 DEF OrderInv, OrderWorkers
<1>12. OrderPipes'
  <2> SUFFICES ASSUME NEW p \in PipeIds, stage[p] = "open" PROVE lastID[p] <= last'[camp[p]]
    BY <1>1 DEF OrderPipes
  <2>1. lastID[p] <= last[camp[p]] /\ lastID[p] \in 0 .. MaxSub /\ camp[p] \in Campaigns
    BY OrderTypes DEF OrderInv, OrderPipes
  <2> QED BY <1>7, <2>1
<1> QED BY <1>9, <1>10, <1>11, <1>12 DEF OrderInv

\* Where the elements of a queue are after one is appended or the head is taken.
LEMMA AppendPlaces ==
    ASSUME NEW T, NEW q \in Seq(T), NEW e \in T
    PROVE  \E n \in Nat : /\ DOMAIN q = 1 .. n /\ DOMAIN Append(q, e) = 1 .. (n + 1)
                          /\ \A i \in DOMAIN q : Append(q, e)[i] = q[i]
                          /\ Append(q, e)[n + 1] = e
<1>1. /\ Len(q) \in Nat /\ DOMAIN q = 1 .. Len(q)
      /\ DOMAIN Append(q, e) = 1 .. (Len(q) + 1)
      /\ \A i \in 1 .. Len(q) : Append(q, e)[i] = q[i]
      /\ Append(q, e)[Len(q) + 1] = e
  BY LenProperties, AppendProperties
<1> QED BY <1>1

\* The tail of a queue by its places.
LEMMA TailPlaces ==
    ASSUME NEW T, NEW q \in Seq(T), q # <<>>
    PROVE  \E n \in Nat : /\ DOMAIN q = 1 .. (n + 1) /\ DOMAIN Tail(q) = 1 .. n
                          /\ \A i \in 1 .. n : Tail(q)[i] = q[i + 1]
                          /\ Head(q) = q[1]
<1>1. /\ Len(q) \in Nat \ {0} /\ DOMAIN q = 1 .. Len(q)
      /\ DOMAIN Tail(q) = 1 .. (Len(q) - 1)
      /\ \A i \in 1 .. (Len(q) - 1) : Tail(q)[i] = q[i + 1]
      /\ Head(q) = q[1]
  BY EmptySeq, LenProperties, HeadTailProperties
<1>2. PICK k \in Nat \ {0} : k = Len(q)
  BY <1>1
<1>3. PICK n \in Nat : n = k - 1
  BY <1>2
<1>4. n + 1 = k
  BY <1>2, <1>3
<1>5. /\ DOMAIN q = 1 .. (n + 1) /\ DOMAIN Tail(q) = 1 .. n
      /\ \A i \in 1 .. n : Tail(q)[i] = q[i + 1]
      /\ Head(q) = q[1]
  BY <1>1, <1>2, <1>3, <1>4
<1> QED BY <1>5

\* Run queues the least of its batch: above what is queued and what workers have, below
\* the rest of the batch.
LEMMA OrderRunSend ==
    ASSUME TypeInv, CountInv, OrderInv, RunSend
    PROVE  OrderInv'
<1>1. /\ runPc = "send" /\ runPipe \in PipeIds /\ runPc' = "new" /\ runPipe' = runPipe
      /\ runBatch' = runBatch \ {MinOf(runBatch)} /\ runBatch # {}
      /\ UNCHANGED <<last, camp, lastID, stage, wmsg>>
  BY DEF RunSend, TypeInv, TypeOK, TypeRun, db, obj, workVars
<1>2. PICK m \in runBatch : m = MinOf(runBatch) /\ \A s \in runBatch : m <= s
  BY <1>1, MinOfProperty, OrderTypes
<1>3. PICK e \in Messages : /\ e.pipe = runPipe /\ e.camp = camp[runPipe] /\ e.sub = m
                            /\ campMsgQ' = Append(campMsgQ, e)
  <2>1. [pipe |-> runPipe, camp |-> camp[runPipe], sub |-> m] \in Messages
    BY <1>1, OrderTypes DEF Messages
  <2> QED BY <1>2, <2>1 DEF RunSend
<1>4. PICK n \in Nat : /\ DOMAIN campMsgQ = 1 .. n /\ DOMAIN campMsgQ' = 1 .. (n + 1)
                       /\ \A i \in DOMAIN campMsgQ : campMsgQ'[i] = campMsgQ[i]
                       /\ campMsgQ'[n + 1] = e
  <2>1. \E n \in Nat : /\ DOMAIN campMsgQ = 1 .. n /\ DOMAIN Append(campMsgQ, e) = 1 .. (n + 1)
                       /\ \A i \in DOMAIN campMsgQ : Append(campMsgQ, e)[i] = campMsgQ[i]
                       /\ Append(campMsgQ, e)[n + 1] = e
    <3>1. campMsgQ \in Seq(Messages)
      BY OrderTypes
    <3> QED BY <3>1, AppendPlaces
  <2> QED BY <1>3, <2>1
<1>5. /\ m \in Nat /\ m <= last[camp[runPipe]] /\ runBatch \subseteq Nat
      /\ \A s \in runBatch' : s \in runBatch /\ m < s
  BY <1>1, <1>2, OrderTypes DEF OrderInv, OrderRun
<1>6. OrderRun'
  BY <1>1 DEF OrderInv, OrderRun
<1>7. OrderQueue'
  <2>1. ASSUME NEW i \in DOMAIN campMsgQ', campMsgQ'[i].pipe # NoPipe
        PROVE  /\ campMsgQ'[i].camp = camp[campMsgQ'[i].pipe]
               /\ campMsgQ'[i].sub <= last[campMsgQ'[i].camp]
               /\ campMsgQ'[i].pipe = runPipe => \A s \in runBatch' : campMsgQ'[i].sub < s
    <3>1. CASE i \in DOMAIN campMsgQ
      BY <1>1, <1>4, <2>1, <3>1 DEF OrderInv, OrderQueue
    <3>2. CASE i = n + 1
      BY <1>3, <1>4, <1>5, <3>2
    <3> QED BY <1>4, <3>1, <3>2
  <2>2. ASSUME NEW i \in DOMAIN campMsgQ', NEW j \in DOMAIN campMsgQ',
               i < j, campMsgQ'[i].pipe = campMsgQ'[j].pipe, campMsgQ'[i].pipe # NoPipe
        PROVE  campMsgQ'[i].sub < campMsgQ'[j].sub
    <3>1. i \in DOMAIN campMsgQ
      BY <1>4, <2>2
    <3>2. CASE j \in DOMAIN campMsgQ
      BY <1>4, <2>2, <3>1, <3>2 DEF OrderInv, OrderQueue
    <3>3. CASE j = n + 1
      BY <1>2, <1>3, <1>4, <2>2, <3>1, <3>3 DEF OrderInv, OrderQueue
    <3> QED BY <1>4, <3>2, <3>3
  <2> QED BY <1>1, <2>1, <2>2 DEF OrderQueue
<1>8. OrderWorkers'
  <2>1. ASSUME NEW w \in Workers, wmsg[w].pipe # NoPipe, NEW i \in DOMAIN campMsgQ',
               campMsgQ'[i].pipe = wmsg[w].pipe
        PROVE  wmsg[w].sub < campMsgQ'[i].sub
    <3>1. CASE i \in DOMAIN campMsgQ
      BY <1>4, <2>1, <3>1 DEF OrderInv, OrderWorkers
    <3>2. CASE i = n + 1
      BY <1>2, <1>3, <1>4, <2>1, <3>2 DEF OrderInv, OrderWorkers
    <3> QED BY <1>4, <3>1, <3>2
  <2>2. \A w \in Workers : wmsg[w].pipe # NoPipe =>
            (wmsg[w].pipe = runPipe => \A s \in runBatch' : wmsg[w].sub < s)
    BY <1>5 DEF OrderInv, OrderWorkers
  <2> QED BY <1>1, <2>1, <2>2 DEF OrderInv, OrderWorkers
<1>9. OrderPipes'
  BY <1>1 DEF OrderInv, OrderPipes
<1> QED BY <1>6, <1>7, <1>8, <1>9 DEF OrderInv

\* A test message has no pipe.
LEMMA OrderTestMessage ==
    ASSUME TypeInv, OrderInv, NEW c \in Campaigns, NEW s \in Subs, TestMessage(c, s)
    PROVE  OrderInv'
<1>1. UNCHANGED <<last, camp, lastID, stage, wmsg, runPc, runPipe, runFrom, runBatch>>
  BY DEF TestMessage, db, obj, workVars, runVars
<1>2. PICK e \in Messages : e.pipe = NoPipe /\ campMsgQ' = Append(campMsgQ, e)
  <2>1. [pipe |-> NoPipe, camp |-> c, sub |-> s] \in Messages
    BY DEF Messages
  <2> QED BY <2>1 DEF TestMessage
<1>3. PICK n \in Nat : /\ DOMAIN campMsgQ = 1 .. n /\ DOMAIN campMsgQ' = 1 .. (n + 1)
                       /\ \A i \in DOMAIN campMsgQ : campMsgQ'[i] = campMsgQ[i]
                       /\ campMsgQ'[n + 1] = e
  <2>1. \E n \in Nat : /\ DOMAIN campMsgQ = 1 .. n /\ DOMAIN Append(campMsgQ, e) = 1 .. (n + 1)
                       /\ \A i \in DOMAIN campMsgQ : Append(campMsgQ, e)[i] = campMsgQ[i]
                       /\ Append(campMsgQ, e)[n + 1] = e
    <3>1. campMsgQ \in Seq(Messages)
      BY OrderTypes
    <3> QED BY <3>1, AppendPlaces
  <2> QED BY <1>2, <2>1
<1>4. \A i \in DOMAIN campMsgQ' : campMsgQ'[i].pipe # NoPipe =>
          i \in DOMAIN campMsgQ /\ campMsgQ'[i] = campMsgQ[i]
  BY <1>2, <1>3
<1>5. OrderRun' /\ OrderPipes'
  BY <1>1 DEF OrderInv, OrderRun, OrderPipes
<1>6. OrderQueue'
  BY <1>1, <1>4 DEF OrderInv, OrderQueue
<1>7. OrderWorkers'
  BY <1>1, <1>4 DEF OrderInv, OrderWorkers
<1> QED BY <1>5, <1>6, <1>7 DEF OrderInv

\* A worker takes the head of the queue: the least of its pipe that is queued, above
\* what the pipe's other workers have.
LEMMA OrderWorkerTake ==
    ASSUME TypeInv, CountInv, OrderInv, NEW w \in Workers, WorkerTake(w)
    PROVE  OrderInv'
<1>1. /\ campMsgQ # <<>> /\ campMsgQ' = Tail(campMsgQ)
      /\ UNCHANGED <<last, camp, lastID, stage, runPc, runPipe, runFrom, runBatch>>
  BY DEF WorkerTake, db, obj, runVars
<1>2. wmsg'[w] = Head(campMsgQ) /\ \A v \in Workers \ {w} : wmsg'[v] = wmsg[v]
  BY OrderTypes DEF WorkerTake
<1>3. PICK n \in Nat : /\ DOMAIN campMsgQ = 1 .. (n + 1) /\ DOMAIN campMsgQ' = 1 .. n
                       /\ \A i \in 1 .. n : campMsgQ'[i] = campMsgQ[i + 1]
                       /\ Head(campMsgQ) = campMsgQ[1]
  BY <1>1, OrderTypes, TailPlaces
<1>4. PICK e \in Messages : e = campMsgQ[1] /\ wmsg'[w] = e
  BY <1>2, <1>3, OrderTypes
<1>5. \A i \in DOMAIN campMsgQ' : i + 1 \in DOMAIN campMsgQ /\ campMsgQ'[i] = campMsgQ[i + 1] /\ 1 < i + 1
  BY <1>3
<1>6. 1 \in DOMAIN campMsgQ
  BY <1>3
<1>7. OrderRun' /\ OrderPipes'
  BY <1>1 DEF OrderInv, OrderRun, OrderPipes
<1>8. OrderQueue'
  <2>1. ASSUME NEW i \in DOMAIN campMsgQ', NEW j \in DOMAIN campMsgQ',
               i < j, campMsgQ'[i].pipe = campMsgQ'[j].pipe, campMsgQ'[i].pipe # NoPipe
        PROVE  campMsgQ'[i].sub < campMsgQ'[j].sub
    <3>1. i + 1 < j + 1
      BY <1>3, <2>1
    <3> QED BY <1>5, <2>1, <3>1 DEF OrderInv, OrderQueue
  <2>2. \A i \in DOMAIN campMsgQ' : campMsgQ'[i].pipe # NoPipe =>
            /\ campMsgQ'[i].camp = camp[campMsgQ'[i].pipe]
            /\ campMsgQ'[i].sub <= last[campMsgQ'[i].camp]
            /\ campMsgQ'[i].pipe = runPipe => \A s \in runBatch : campMsgQ'[i].sub < s
    BY <1>5 DEF OrderInv, OrderQueue
  <2> QED BY <1>1, <2>1, <2>2 DEF OrderQueue
<1>9. OrderWorkers'
  <2>1. ASSUME e.pipe # NoPipe
        PROVE  /\ \A i \in DOMAIN campMsgQ' : campMsgQ'[i].pipe = e.pipe => e.sub < campMsgQ'[i].sub
               /\ e.pipe = runPipe => \A s \in runBatch : e.sub < s
               /\ e.sub <= last[camp[e.pipe]]
    BY <1>4, <1>5, <1>6, <2>1 DEF OrderInv, OrderQueue
  <2>2. ASSUME NEW v \in Workers \ {w}, wmsg[v].pipe # NoPipe
        PROVE  /\ \A i \in DOMAIN campMsgQ' : campMsgQ'[i].pipe = wmsg[v].pipe => wmsg[v].sub < campMsgQ'[i].sub
               /\ wmsg[v].pipe = e.pipe => wmsg[v].sub < e.sub
    BY <1>4, <1>5, <1>6, <2>2 DEF OrderInv, OrderWorkers
  <2>3. e.sub \in Nat /\ \A v \in Workers : wmsg[v].sub \in Nat
    BY <1>4, <1>6, OrderTypes
  <2>4. \A v \in Workers \ {w} : wmsg[v].pipe = e.pipe /\ e.pipe # NoPipe => wmsg[v].sub # e.sub
    BY <2>2, <2>3
  <2> SUFFICES ASSUME NEW v \in Workers, wmsg'[v].pipe # NoPipe
               PROVE  /\ \A i \in DOMAIN campMsgQ' :
                            campMsgQ'[i].pipe = wmsg'[v].pipe => wmsg'[v].sub < campMsgQ'[i].sub
                      /\ wmsg'[v].pipe = runPipe => \A s \in runBatch : wmsg'[v].sub < s
                      /\ \A u \in Workers \ {v} :
                            wmsg'[u].pipe = wmsg'[v].pipe => wmsg'[u].sub # wmsg'[v].sub
                      /\ stage[wmsg'[v].pipe] = "open" => wmsg'[v].sub <= last[camp[wmsg'[v].pipe]]
    BY <1>1 DEF OrderWorkers
  <2>5. CASE v = w
    BY <1>2, <1>4, <2>1, <2>4, <2>5
  <2>6. CASE v # w
    <3>1. wmsg'[v] = wmsg[v] /\ wmsg[v].pipe # NoPipe
      BY <1>2, <2>6
    <3>2. \A u \in Workers \ {v} : wmsg'[u].pipe = wmsg'[v].pipe => wmsg'[u].sub # wmsg'[v].sub
      <4> TAKE u \in Workers \ {v}
      <4>1. CASE u = w
        BY <1>4, <2>4, <2>6, <3>1, <4>1
      <4>2. CASE u # w
        BY <1>2, <3>1, <4>2 DEF OrderInv, OrderWorkers
      <4> QED BY <4>1, <4>2
    <3>3. /\ wmsg[v].pipe = runPipe => \A s \in runBatch : wmsg[v].sub < s
          /\ stage[wmsg[v].pipe] = "open" => wmsg[v].sub <= last[camp[wmsg[v].pipe]]
      BY <3>1 DEF OrderInv, OrderWorkers
    <3> QED BY <2>2, <2>6, <3>1, <3>2, <3>3
  <2> QED BY <2>5, <2>6
<1> QED BY <1>7, <1>8, <1>9 DEF OrderInv

\* A worker stores the id of its message, which is not above the checkpoint.
LEMMA OrderWorkerStore ==
    ASSUME TypeInv, OrderInv, NEW w \in Workers, WorkerStore(w)
    PROVE  OrderInv'
<1>1. /\ UNCHANGED <<last, camp, campMsgQ, stage, wmsg, runPc, runPipe, runFrom, runBatch>>
      /\ lastID' = [lastID EXCEPT ![wmsg[w].pipe] = wmsg[w].sub]
  BY DEF WorkerStore, db, mgr, runVars
<1>2. OrderRun' /\ OrderQueue' /\ OrderWorkers'
  BY <1>1 DEF OrderInv, OrderRun, OrderQueue, OrderWorkers
<1>3. OrderPipes'
  <2> SUFFICES ASSUME NEW p \in PipeIds, stage[p] = "open" PROVE lastID'[p] <= last[camp[p]]
    BY <1>1 DEF OrderPipes
  <2>1. CASE p = wmsg[w].pipe
    <3>1. lastID'[p] = wmsg[w].sub /\ wmsg[w].pipe # NoPipe
      BY <1>1, <2>1, OrderTypes
    <3> QED BY <2>1, <3>1 DEF OrderInv, OrderWorkers
  <2>2. CASE p # wmsg[w].pipe
    <3>1. lastID'[p] = lastID[p]
      BY <1>1, <2>2, OrderTypes
    <3> QED BY <3>1 DEF OrderInv, OrderPipes
  <2> QED BY <2>1, <2>2
<1> QED BY <1>2, <1>3 DEF OrderInv

\* cleanup writes the checkpoint of its own campaign, which no open pipe works for any
\* more and Run has no pipe of.
LEMMA OrderCleanupCounts ==
    ASSUME TypeInv, CountInv, OnePipePerCampaign, OrderInv, NEW q \in PipeIds, CleanupCounts(q)
    PROVE  OrderInv'
<1>1. /\ UNCHANGED <<camp, campMsgQ, lastID, wmsg, runPc, runPipe, runFrom, runBatch>>
      /\ stage[q] = "open" /\ wg[q] = 0 /\ stage' = [stage EXCEPT ![q] = "checkErrors"]
  BY DEF CleanupCounts, GoStage, StageOnly, mgr, runVars, workVars
<1>2. \A d \in Campaigns \ {camp[q]} : last'[d] = last[d]
  BY OrderTypes DEF CleanupCounts, AddCounts
<1>3. ASSUME NEW p \in PipeIds, stage[p] = "open", p # q
      PROVE  camp[p] # camp[q] /\ last'[camp[p]] = last[camp[p]] /\ stage'[p] = "open"
  <2>1. pipes[camp[p]] = p /\ pipes[camp[q]] = q
    BY <1>1, <1>3 DEF OnePipePerCampaign, Live
  <2>2. camp[p] \in Campaigns
    BY OrderTypes
  <2> QED BY <1>1, <1>2, <1>3, <2>1, <2>2, OrderTypes
<1>4. \A p \in PipeIds : stage'[p] = "open" => stage[p] = "open" /\ p # q
  BY <1>1, OrderTypes
<1>5. runPipe # q /\ Queued(q) = {}
  BY <1>1, RunningOpen, BusyOpen
<1>6. OrderRun'
  <2>1. runPc = "batch" \/ runBatch # {} => runPipe \in PipeIds
    BY DEF TypeInv, TypeOK, TypeRun, OrderInv, OrderRun
  <2>2. runPipe \in PipeIds => stage[runPipe] = "open"
    BY RunningOpen
  <2> QED BY <1>1, <1>3, <1>5, <2>1, <2>2 DEF OrderInv, OrderRun
<1>7. OrderQueue'
  <2>1. ASSUME NEW i \in DOMAIN campMsgQ, campMsgQ[i].pipe # NoPipe
        PROVE  last'[campMsgQ[i].camp] = last[campMsgQ[i].camp]
    <3>1. campMsgQ[i].pipe \in PipeIds \ {q} /\ i \in Queued(campMsgQ[i].pipe)
      BY <1>5, <2>1, OrderTypes DEF Queued
    <3>2. stage[campMsgQ[i].pipe] = "open"
      BY <3>1, BusyOpen
    <3>3. campMsgQ[i].camp = camp[campMsgQ[i].pipe]
      BY <2>1 DEF OrderInv, OrderQueue
    <3> QED BY <1>3, <3>1, <3>2, <3>3
  <2> QED BY <1>1, <2>1 DEF OrderInv, OrderQueue
<1>8. OrderWorkers'
  <2>1. ASSUME NEW w \in Workers, wmsg[w].pipe # NoPipe, stage'[wmsg[w].pipe] = "open"
        PROVE  wmsg[w].sub <= last'[camp[wmsg[w].pipe]]
    <3>1. wmsg[w].pipe \in PipeIds
      BY <2>1, OrderTypes
    <3>2. stage[wmsg[w].pipe] = "open" /\ wmsg[w].pipe # q
      BY <1>4, <2>1, <3>1
    <3>3. wmsg[w].sub <= last[camp[wmsg[w].pipe]]
      BY <2>1, <3>2 DEF OrderInv, OrderWorkers
    <3> QED BY <1>3, <3>1, <3>2, <3>3
  <2> QED BY <1>1, <2>1 DEF OrderInv, OrderWorkers
<1>9. OrderPipes'
  BY <1>1, <1>3, <1>4 DEF OrderInv, OrderPipes
<1> QED BY <1>6, <1>7, <1>8, <1>9 DEF OrderInv

\* After a restart nothing is fetched yet.
LEMMA OrderRestart ==
    ASSUME Restart PROVE OrderInv'
<1>1. /\ campMsgQ' = <<>> /\ runBatch' = {} /\ runPc' = "idle"
      /\ wmsg' = [w \in Workers |-> NoMsg] /\ stage' = [p \in PipeIds |-> "free"]
  BY DEF Restart
<1>2. \A w \in Workers : wmsg'[w].pipe = NoPipe
  BY <1>1 DEF NoMsg
<1> QED BY <1>1, <1>2 DEF OrderInv, OrderRun, OrderQueue, OrderWorkers, OrderPipes

\* The rest of Run's steps: its batch shrinks or it lets go of its pipe.
LEMMA OrderRunner ==
    ASSUME TypeInv, CountInv, OrderInv,
           \/ RunPop \/ RunNewMessage \/ RunRenderFails \/ RunRequeue \/ RunFetchFails
           \/ (RunFetch /\ Batch = {})
    PROVE  OrderInv'
<1>1. UNCHANGED <<camp, last, campMsgQ, lastID, stage, wmsg>>
  BY DEF RunPop, RunNewMessage, RunRenderFails, RunRequeue, RunFetchFails, RunFetch, db, mgr, obj,
         workVars
<1>2. runBatch' \subseteq runBatch
  BY DEF RunPop, RunNewMessage, RunRenderFails, RunRequeue, RunStay, RunFetchFails, RunFetch
<1>3. runBatch' # {} => runPc' \in {"new", "send"} /\ runPipe' = runPipe
  <2>1. CASE RunPop \/ RunFetchFails \/ RunRequeue \/ (RunFetch /\ Batch = {})
    <3>1. runBatch' = {}
      BY <2>1 DEF RunPop, RunFetchFails, RunRequeue, RunStay, RunFetch, OrderInv, OrderRun
    <3> QED BY <3>1
  <2>2. CASE RunNewMessage \/ RunRenderFails
    BY <2>2 DEF RunNewMessage, RunRenderFails
  <2> QED BY <2>1, <2>2
<1>4. runPc' = "batch" => runFrom' = last[camp[runPipe']]
  BY DEF RunPop, RunNewMessage, RunRenderFails, RunRequeue, RunFetchFails, RunFetch
<1> QED BY <1>1, <1>2, <1>3, <1>4, OrderShrinks

\* The rest of the workers' steps: the worker keeps its message or is done with it.
LEMMA OrderWorker ==
    ASSUME TypeInv, CountInv, OrderInv, NEW w \in Workers,
           \/ WorkerCheck(w) \/ WorkerPush(w) \/ WorkerDone(w) \/ WorkerOnError(w) \/ WorkerLoad(w)
           \/ WorkerAdd(w)
    PROVE  OrderInv'
<1>1. UNCHANGED <<camp, last, campMsgQ, lastID, stage, runPc, runPipe, runFrom, runBatch>>
  BY DEF WorkerCheck, WorkerPush, WorkerDone, WorkerOnError, WorkerLoad, WorkerAdd, db, mgr, obj,
         runVars
<1>2. \A v \in Workers : wmsg'[v] = wmsg[v] \/ wmsg'[v] = NoMsg
  <2>1. wmsg' = wmsg \/ wmsg' = [wmsg EXCEPT ![w] = NoMsg]
    BY DEF WorkerCheck, WorkerPush, WorkerDone, WorkerOnError, WorkerLoad, WorkerAdd, Finish
  <2> QED BY <2>1, OrderTypes
<1> QED BY <1>1, <1>2, OrderShrinks DEF OrderInv, OrderRun

\* Every step keeps the order.
LEMMA OrderNext ==
    ASSUME TypeInv, CountInv, OnePipePerCampaign, OrderInv, [Next]_vars PROVE OrderInv'
<1>1. CASE /\ UNCHANGED <<camp, last, campMsgQ, lastID, wmsg, runPc, runPipe, runFrom, runBatch>>
           /\ \A p \in PipeIds : stage'[p] = "open" => stage[p] = "open"
  BY <1>1, OrderShrinks DEF OrderInv, OrderRun
<1>2. CASE Scanner
  <2>1. CASE ScanTick \/ ScanLoad \/ ScanReset \/ ScanQuery \/ \E c \in Campaigns : ScanRefuse(c)
    BY <1>1, <2>1 DEF ScanTick, ScanLoad, ScanReset, ScanQuery, ScanRefuse, db, mgr, obj, runVars,
                      workVars
  <2> QED BY <1>2, <2>1, OrderScanStart DEF Scanner
<1>3. CASE Runner
  BY <1>3, OrderRunner, OrderRunFetch, OrderRunSend DEF Runner
<1>4. CASE World
  <2>1. CASE ScanQueryFails \/ \E c \in Campaigns : Delete(c) \/ SendAtPasses(c)
                                                    \/ \E s \in Subs : Churn(c, s)
    BY <1>1, <2>1 DEF ScanQueryFails, Delete, SendAtPasses, Churn, db, mgr, obj, runVars, workVars
  <2> QED BY <1>4, <2>1, OrderRunner, OrderTestMessage, OrderRestart DEF World
<1>5. ASSUME NEW w \in Workers, Worker(w) PROVE OrderInv'
  BY <1>5, OrderWorkerTake, OrderWorkerStore, OrderWorker DEF Worker
<1>6. ASSUME NEW p \in PipeIds, Cleanup(p) PROVE OrderInv'
  <2>1. CASE ~ CleanupCounts(p)
    <3>1. /\ UNCHANGED <<camp, last, campMsgQ, lastID, wmsg, runPc, runPipe, runFrom, runBatch>>
          /\ \E st \in Stages \ {"open"} : stage' = [stage EXCEPT ![p] = st]
      BY <1>6, <2>1 DEF Cleanup, CleanupCheckErrors, CleanupCheckStopped, CleanupLoad, CleanupWrite,
                        CleanupRemove, GoStage, StageOnly, Stages, db, mgr, runVars, workVars
    <3>2. \A q \in PipeIds : stage'[q] = "open" => stage[q] = "open"
      BY <3>1, OrderTypes
    <3> QED BY <1>1, <3>1, <3>2
  <2> QED BY <2>1, OrderCleanupCounts
<1>7. ASSUME NEW r \in Requests, Request(r) PROVE OrderInv'
  <2>1. UNCHANGED <<camp, last, campMsgQ, lastID, wmsg, runPc, runPipe, runFrom, runBatch, stage>>
    BY <1>7 DEF Request, StatusCheck, StatusWrite, StatusStop, EditCheck, EditWrite, db, mgr, obj,
                runVars, workVars
  <2> QED BY <1>1, <2>1
<1>8. CASE UNCHANGED vars
  BY <1>1, <1>8 DEF vars, db, mgr, obj, runVars, workVars
<1> QED BY <1>2, <1>3, <1>4, <1>5, <1>6, <1>7, <1>8 DEF Next

\* The order, with the invariants it needs, holds in every reachable state.
LEMMA OrderInvCorrect == Spec => [](TypeInv /\ CountInv /\ OnePipePerCampaign /\ OrderInv)
<1>1. Init => OrderInv
  <2> SUFFICES ASSUME Init PROVE OrderInv
    OBVIOUS
  <2>1. /\ campMsgQ = <<>> /\ runBatch = {} /\ runPc = "idle"
        /\ \A w \in Workers : wmsg[w].pipe = NoPipe
        /\ \A p \in PipeIds : stage[p] = "free"
    BY DEF Init, NoMsg
  <2> QED BY <2>1 DEF OrderInv, OrderRun, OrderQueue, OrderWorkers, OrderPipes
<1>2. TypeInv /\ CountInv /\ OnePipePerCampaign /\ OrderInv /\ [Next]_vars => OrderInv'
  BY OrderNext
<1> QED BY <1>1, <1>2, CountInvCorrect, OnePipeCorrect, PTL DEF Spec

\* What a pipe has fetched is on its way once, and in the order of the subscribers: in
\* the queue, in Run's batch and at the workers, however many workers take it away and
\* whatever else is queued in between.
THEOREM OrderCorrect == Spec => []FetchedOnceInOrder
<1>1. TypeInv /\ OrderInv => FetchedOnceInOrder
  BY DEF OrderInv, OrderQueue, OrderWorkers, FetchedOnceInOrder
<1> QED BY <1>1, OrderInvCorrect, PTL

\* The id that a worker stored last, by a load and a store that another worker can come
\* between, is never above the campaign's checkpoint: the write of cleanup can repeat
\* subscribers, it cannot skip one.
THEOREM CheckpointCorrect == Spec => []CheckpointNotSkipped
<1>1. OrderInv => CheckpointNotSkipped
  BY DEF OrderInv, OrderPipes, CheckpointNotSkipped
<1> QED BY <1>1, OrderInvCorrect, PTL

-----------------------------------------------------------------------------
(* The pipes implement PipeLifetime. What a step does to every pipe's phase *)
(* and pending subscribers is lifted to a step of PipeLifetime.             *)

QueuedSubs(p) == {campMsgQ[i].sub : i \in Queued(p)}
HeldSubs(p) == {wmsg[w].sub : w \in InHand(p)}
NewSubs(p) == {s \in runBatch : Creating(p) = 1 /\ s = MinOf(runBatch)}

\* A pipe's phase, before a step and after it.
LEMMA PhaseCases ==
    ASSUME NEW p \in PipeIds
    PROVE  /\ stage[p] = "free" => Phase(p) = "none"
           /\ stage[p] # "free" /\ stage[p] # "open" => Phase(p) = "ended"
           /\ stage[p] = "open" /\ Token(p) > 0 => Phase(p) = "open"
           /\ stage[p] = "open" /\ ~ (Token(p) > 0) => Phase(p) = "closed"
           /\ stage'[p] = "free" => Phase(p)' = "none"
           /\ stage'[p] # "free" /\ stage'[p] # "open" => Phase(p)' = "ended"
           /\ stage'[p] = "open" /\ Token(p)' > 0 => Phase(p)' = "open"
           /\ stage'[p] = "open" /\ ~ (Token(p)' > 0) => Phase(p)' = "closed"
BY DEF Phase

\* Steps of PipeLifetime, from what happens to each pipe.
LEMMA LiftStutter ==
    ASSUME \A p \in PipeIds : Phase(p)' = Phase(p) /\ PendingSubs(p)' = PendingSubs(p)
    PROVE  [Lifetime!Next]_(Lifetime!vars)
BY DEF Lifetime!vars

\* One pipe goes to its next phase and nothing else is seen: a move of PipeLifetime.
LEMMA LiftMove ==
    ASSUME NEW q \in PipeIds,
           \A p \in PipeIds : PendingSubs(p)' = PendingSubs(p),
           \A p \in PipeIds \ {q} : Phase(p)' = Phase(p),
           \/ Phase(q) = "none" /\ Phase(q)' \in {"open", "closed"}
           \/ Phase(q) = "open" /\ Phase(q)' = "closed"
           \/ Phase(q) = "closed" /\ Phase(q)' = "ended" /\ PendingSubs(q) = {}
           \/ Phase(q) = "ended" /\ Phase(q)' = "none"
    PROVE  Lifetime!Next
<1> DEFINE ph == [p \in PipeIds |-> Phase(p)]
           pend == [p \in PipeIds |-> PendingSubs(p)]
<1>1. pend' = pend /\ ph' = [ph EXCEPT ![q] = Phase(q)'] /\ ph[q] = Phase(q) /\ pend[q] = PendingSubs(q)
  OBVIOUS
<1>2. Lifetime!Open(q) \/ Lifetime!Close(q) \/ Lifetime!End(q) \/ Lifetime!Forget(q)
  BY <1>1 DEF Lifetime!Open, Lifetime!Close, Lifetime!End, Lifetime!Forget, Lifetime!Move
<1> QED BY <1>2 DEF Lifetime!Next

\* A message appears: PipeLifetime issues it.
LEMMA LiftIssue ==
    ASSUME NEW q \in PipeIds, NEW s \in Subs, Phase(q) = "open", s \notin PendingSubs(q),
           PendingSubs(q)' = PendingSubs(q) \cup {s},
           \A p \in PipeIds : Phase(p)' = Phase(p),
           \A p \in PipeIds \ {q} : PendingSubs(p)' = PendingSubs(p)
    PROVE  Lifetime!Next
<1> DEFINE ph == [p \in PipeIds |-> Phase(p)]
           pend == [p \in PipeIds |-> PendingSubs(p)]
<1>1. /\ ph' = ph /\ pend' = [pend EXCEPT ![q] = @ \cup {s}]
      /\ ph[q] = Phase(q) /\ pend[q] = PendingSubs(q)
  OBVIOUS
<1>2. Lifetime!Issue(q, s)
  BY <1>1 DEF Lifetime!Issue
<1> QED BY <1>2 DEF Lifetime!Next

\* A message is gone: PipeLifetime settles it.
LEMMA LiftSettle ==
    ASSUME NEW q \in PipeIds, NEW s \in Subs, s \in PendingSubs(q),
           PendingSubs(q)' = PendingSubs(q) \ {s},
           \A p \in PipeIds : Phase(p)' = Phase(p),
           \A p \in PipeIds \ {q} : PendingSubs(p)' = PendingSubs(p)
    PROVE  Lifetime!Next
<1> DEFINE ph == [p \in PipeIds |-> Phase(p)]
           pend == [p \in PipeIds |-> PendingSubs(p)]
<1>1. /\ ph' = ph /\ pend' = [pend EXCEPT ![q] = @ \ {s}]
      /\ ph[q] = Phase(q) /\ pend[q] = PendingSubs(q)
  OBVIOUS
<1>2. Lifetime!Settle(q, s)
  BY <1>1 DEF Lifetime!Settle
<1> QED BY <1>2 DEF Lifetime!Next

\* Steps that leave a pipe's stage, its count and its messages alone.
LEMMA PendingKept ==
    ASSUME UNCHANGED <<campMsgQ, wpc, wmsg>>, runPc = "send" <=> runPc' = "send",
           runPc = "send" => UNCHANGED <<runBatch, runPipe>>, NEW p \in PipeIds
    PROVE  PendingSubs(p)' = PendingSubs(p)
<1>1. UNCHANGED <<QueuedSubs(p), HeldSubs(p)>>
  BY DEF QueuedSubs, HeldSubs, Queued, InHand
<1>2. NewSubs(p)' = NewSubs(p)
  BY DEF NewSubs, Creating
<1> QED BY <1>1, <1>2 DEF PendingSubs, QueuedSubs, HeldSubs, NewSubs

\* Steps that move neither pipes nor messages are stutters of PipeLifetime.
LEMMA StepNothing ==
    ASSUME UNCHANGED <<stage, nextPipes, runPipe, campMsgQ, wpc, wmsg>>,
           runPc = "send" <=> runPc' = "send", runPc = "send" => runBatch' = runBatch
    PROVE  [Lifetime!Next]_(Lifetime!vars)
<1>1. \A p \in PipeIds : Phase(p)' = Phase(p)
  BY DEF Phase, Token, Waiting
<1> QED BY <1>1, PendingKept, LiftStutter

\* Run takes a pipe, puts it back or lets it go: the pipe is closed when the last of the
\* count it was created with goes.
LEMMA StepToken ==
    ASSUME TypeInv, TypeInv', UNCHANGED <<stage, campMsgQ, wpc, wmsg>>,
           runPc # "send", runPc' # "send",
           NEW h \in PipeIds, \A p \in PipeIds \ {h} : Token(p)' = Token(p), Token(h)' <= Token(h)
    PROVE  [Lifetime!Next]_(Lifetime!vars)
<1>1. \A p \in PipeIds : PendingSubs(p)' = PendingSubs(p)
  BY PendingKept
<1>2. \A p \in PipeIds \ {h} : Phase(p)' = Phase(p)
  BY PhaseCases DEF Phase
<1>3. Token(h) \in Nat /\ Token(h)' \in Nat
  BY OutParts DEF Token
<1>4. Phase(h)' = Phase(h) \/ (Phase(h) = "open" /\ Phase(h)' = "closed")
  <2>1. CASE stage[h] = "open" /\ Token(h)' > 0
    BY <1>3, <2>1, PhaseCases
  <2>2. CASE stage[h] = "open" /\ ~ (Token(h) > 0)
    BY <1>3, <2>2, PhaseCases
  <2>3. CASE stage[h] = "open" /\ Token(h) > 0 /\ ~ (Token(h)' > 0)
    BY <2>3, PhaseCases
  <2>4. CASE stage[h] # "open"
    BY <2>4, PhaseCases DEF Phase
  <2> QED BY <2>1, <2>2, <2>3, <2>4
<1>5. CASE Phase(h)' = Phase(h)
  BY <1>1, <1>2, <1>5, LiftStutter
<1>6. CASE Phase(h) = "open" /\ Phase(h)' = "closed"
  BY <1>1, <1>2, <1>6, LiftMove
<1> QED BY <1>4, <1>5, <1>6

\* Run takes a pipe from nextPipes.
LEMMA StepRunPop ==
    ASSUME TypeInv, TypeInv', RunPop
    PROVE  [Lifetime!Next]_(Lifetime!vars)
<1>1. PICK h \in PipeIds : h = Head(nextPipes)
  BY HeadTailProperties DEF RunPop, TypeInv, TypeOK, TypeManager
<1>2. /\ nextPipes # <<>> /\ nextPipes' = Tail(nextPipes) /\ runPc = "idle" /\ runPipe = NoPipe
      /\ UNCHANGED <<campMsgQ, wpc, wmsg, stage>>
      /\ (runPipe' = h \/ runPipe' = NoPipe) /\ runPc' # "send"
  BY <1>1 DEF RunPop, workVars, TypeInv, TypeOK, TypeRun
<1>3. ASSUME NEW p \in PipeIds
      PROVE  (p # h => Token(p)' = Token(p)) /\ (p = h => Token(p)' <= Token(p))
  <2>1. /\ h = p => Cardinality(Waiting(p))' = Cardinality(Waiting(p)) - 1
        /\ h # p => Cardinality(Waiting(p))' = Cardinality(Waiting(p))
    BY <1>1, <1>2, NextPopped
  <2>2. p # NoPipe
    BY CapAssumption
  <2> QED BY <1>2, <2>1, <2>2, OutParts DEF Token
<1> QED BY <1>2, <1>3, StepToken

\* Run lets go of the pipe it has.
LEMMA StepRunReleases ==
    ASSUME TypeInv, TypeInv', UNCHANGED <<stage, campMsgQ, wpc, wmsg, nextPipes>>,
           runPc # "send", runPc' # "send", runPipe \in PipeIds, runPipe' = NoPipe
    PROVE  [Lifetime!Next]_(Lifetime!vars)
<1>1. ASSUME NEW p \in PipeIds
      PROVE  (p # runPipe => Token(p)' = Token(p)) /\ (p = runPipe => Token(p)' <= Token(p))
  <2>1. Waiting(p)' = Waiting(p) /\ p # NoPipe
    BY CapAssumption DEF Waiting
  <2> QED BY <2>1, OutParts DEF Token
<1> QED BY <1>1, StepToken

\* Run fetches the next batch, or lets the pipe go.
LEMMA StepRunFetch ==
    ASSUME TypeInv, TypeInv', RunFetch
    PROVE  [Lifetime!Next]_(Lifetime!vars)
<1>1. /\ UNCHANGED <<stage, campMsgQ, wpc, wmsg, nextPipes>>
      /\ runPc = "batch" /\ runPc' # "send" /\ runPipe \in PipeIds
  BY DEF RunFetch, mgr, workVars, TypeInv, TypeOK, TypeRun
<1>2. CASE Batch = {}
  <2>1. runPipe' = NoPipe
    BY <1>2 DEF RunFetch
  <2> QED BY <1>1, <2>1, StepRunReleases
<1>3. CASE Batch # {}
  <2>1. runPipe' = runPipe
    BY <1>3 DEF RunFetch
  <2> QED BY <1>1, <2>1, StepNothing
<1> QED BY <1>2, <1>3

\* A fetch that fails lets the pipe go.
LEMMA StepRunFetchFails ==
    ASSUME TypeInv, TypeInv', RunFetchFails
    PROVE  [Lifetime!Next]_(Lifetime!vars)
<1>1. UNCHANGED <<campMsgQ, wpc, wmsg, stage>> /\ runPc' = "idle" /\ runPipe' = NoPipe
  BY DEF RunFetchFails, workVars
<1>2. CASE runPc = "batch" /\ Release(runPipe) /\ UNCHANGED nextPipes
  <2>1. runPipe \in PipeIds
    BY <1>2 DEF TypeInv, TypeOK, TypeRun
  <2> QED BY <1>1, <1>2, <2>1, StepRunReleases
<1>3. CASE /\ runPc = "idle" /\ nextPipes # <<>>
           /\ Release(Head(nextPipes))
           /\ nextPipes' = Tail(nextPipes)
  <2>1. PICK h \in PipeIds : h = Head(nextPipes)
    BY <1>3, HeadTailProperties DEF TypeInv, TypeOK, TypeManager
  <2>2. ASSUME NEW p \in PipeIds
        PROVE  (p # h => Token(p)' = Token(p)) /\ (p = h => Token(p)' <= Token(p))
    <3>1. /\ h = p => Cardinality(Waiting(p))' = Cardinality(Waiting(p)) - 1
          /\ h # p => Cardinality(Waiting(p))' = Cardinality(Waiting(p))
      BY <1>3, <2>1, NextPopped
    <3>2. p # NoPipe /\ runPipe = NoPipe
      BY <1>3, CapAssumption DEF TypeInv, TypeOK, TypeRun
    <3> QED BY <1>1, <3>1, <3>2, OutParts DEF Token
  <2> QED BY <1>1, <1>3, <2>2, StepToken
<1> QED BY <1>2, <1>3 DEF RunFetchFails

\* Run puts the pipe back, or lets it go when nextPipes is full.
LEMMA StepRunRequeue ==
    ASSUME TypeInv, TypeInv', RunRequeue
    PROVE  [Lifetime!Next]_(Lifetime!vars)
<1>1. /\ UNCHANGED <<campMsgQ, wpc, wmsg, stage>> /\ runPipe \in PipeIds
      /\ runPc = "new" /\ runPc' = "idle" /\ runPipe' = NoPipe
  BY DEF RunRequeue, workVars, TypeInv, TypeOK, TypeRun
<1>2. CASE UNCHANGED nextPipes
  BY <1>1, <1>2, StepRunReleases
<1>3. CASE nextPipes' = Append(nextPipes, runPipe)
  <2>1. ASSUME NEW p \in PipeIds PROVE Token(p)' = Token(p) /\ Token(p) \in Nat
    <3>1. /\ runPipe = p => Cardinality(Waiting(p))' = Cardinality(Waiting(p)) + 1
          /\ runPipe # p => Cardinality(Waiting(p))' = Cardinality(Waiting(p))
      BY <1>1, <1>3, NextPushed
    <3>2. p # NoPipe
      BY CapAssumption
    <3> QED BY <1>1, <3>1, <3>2, OutParts DEF Token
  <2>2. PICK h \in PipeIds : h = runPipe
    BY <1>1
  <2>3. Token(h)' <= Token(h)
    BY <2>1
  <2> QED BY <1>1, <2>1, <2>3, StepToken
<1> QED BY <1>2, <1>3 DEF RunRequeue

\* newPipe opens a pipe, or one that is closed already.
LEMMA StepScanStart ==
    ASSUME TypeInv, TypeInv', CountInv, NEW c \in Campaigns, ScanStart(c)
    PROVE  [Lifetime!Next]_(Lifetime!vars)
<1>1. PICK q \in PipeIds :
        /\ stage[q] = "free" /\ stage' = [stage EXCEPT ![q] = "open"]
        /\ nextPipes' = nextPipes \/ nextPipes' = Append(nextPipes, q)
  BY DEF ScanStart, FreePipes
<1>2. UNCHANGED <<campMsgQ, wpc, wmsg, runPc, runPipe, runBatch>>
  BY DEF ScanStart, runVars, workVars
<1>3. \A p \in PipeIds : PendingSubs(p)' = PendingSubs(p)
  BY <1>2, PendingKept
<1>4. ASSUME NEW p \in PipeIds \ {q} PROVE Phase(p)' = Phase(p)
  <2>1. Cardinality(Waiting(p))' = Cardinality(Waiting(p))
    <3>1. CASE nextPipes' = nextPipes
      BY <3>1 DEF Waiting
    <3>2. CASE nextPipes' = Append(nextPipes, q)
      BY <3>2, NextPushed
    <3> QED BY <1>1, <3>1, <3>2
  <2>2. Token(p)' = Token(p) /\ stage'[p] = stage[p]
    BY <1>1, <1>2, <2>1, OrderTypes DEF Token
  <2> QED BY <2>2 DEF Phase
<1>5. Phase(q) = "none" /\ Phase(q)' \in {"open", "closed"}
  <2>1. stage'[q] = "open"
    BY <1>1, OrderTypes
  <2> QED BY <1>1, <2>1, PhaseCases
<1>6. Lifetime!Next
  BY <1>3, <1>4, <1>5, LiftMove
<1> QED BY <1>6

\* newMessage takes on a subscriber that is not pending: those in the queue and at the
\* workers are all below the least of the batch.
LEMMA StepRunNewMessage ==
    ASSUME TypeInv, TypeInv', CountInv, OrderInv, RunNewMessage
    PROVE  [Lifetime!Next]_(Lifetime!vars)
<1>1. /\ UNCHANGED <<nextPipes, campMsgQ, wpc, wmsg, stage, runPipe, runBatch>>
      /\ runPc = "new" /\ runPc' = "send" /\ runPipe \in PipeIds /\ runBatch # {}
  BY DEF RunNewMessage, mgr, workVars, TypeInv, TypeOK, TypeRun
<1>2. PICK s \in runBatch : s = MinOf(runBatch) /\ s \in Subs
  BY <1>1, OrderTypes, MinOfProperty
<1>3. \A p \in PipeIds : Phase(p)' = Phase(p)
  BY <1>1 DEF Phase, Token, Waiting
<1>4. \A p \in PipeIds : UNCHANGED <<QueuedSubs(p), HeldSubs(p)>>
  BY <1>1 DEF QueuedSubs, HeldSubs, Queued, InHand
<1>5. \A p \in PipeIds : NewSubs(p) = {} /\ (p # runPipe => NewSubs(p)' = {})
  BY <1>1 DEF NewSubs, Creating
<1>6. NewSubs(runPipe)' = {s}
  BY <1>1, <1>2 DEF NewSubs, Creating
<1>7. \A p \in PipeIds \ {runPipe} : PendingSubs(p)' = PendingSubs(p)
  BY <1>4, <1>5 DEF PendingSubs, QueuedSubs, HeldSubs, NewSubs
<1>8. PendingSubs(runPipe)' = PendingSubs(runPipe) \cup {s}
  BY <1>1, <1>4, <1>5, <1>6 DEF PendingSubs, QueuedSubs, HeldSubs, NewSubs
<1>9. s \notin PendingSubs(runPipe)
  <2>1. runPipe # NoPipe /\ s \in Nat
    BY <1>1, <1>2, OrderTypes
  <2>2. s \notin QueuedSubs(runPipe)
    <3>1. \A i \in Queued(runPipe) : campMsgQ[i].sub < s /\ campMsgQ[i].sub \in Nat
      BY <1>2, <2>1, OrderTypes DEF Queued, OrderInv, OrderQueue
    <3> QED BY <2>1, <3>1 DEF QueuedSubs
  <2>3. s \notin HeldSubs(runPipe)
    <3>1. \A w \in InHand(runPipe) : wmsg[w].sub < s /\ wmsg[w].sub \in Nat
      BY <1>2, <2>1, OrderTypes DEF InHand, OrderInv, OrderWorkers
    <3> QED BY <2>1, <3>1 DEF HeldSubs
  <2> QED BY <1>1, <1>5, <2>2, <2>3 DEF PendingSubs, QueuedSubs, HeldSubs, NewSubs
<1>10. Phase(runPipe) = "open"
  <2>1. stage[runPipe] = "open"
    BY <1>1, RunningOpen
  <2>2. Token(runPipe) > 0
    BY <1>1, OutParts DEF Token
  <2> QED BY <1>1, <2>1, <2>2, PhaseCases
<1>11. Lifetime!Next
  BY <1>1, <1>2, <1>3, <1>7, <1>8, <1>9, <1>10, LiftIssue
<1> QED BY <1>11

\* The message moves from Run's hands to the queue.
LEMMA StepRunSend ==
    ASSUME TypeInv, TypeInv', RunSend
    PROVE  [Lifetime!Next]_(Lifetime!vars)
<1>1. /\ runPc = "send" /\ runPipe \in PipeIds /\ runPc' = "new" /\ runBatch # {}
      /\ UNCHANGED <<nextPipes, stage, wpc, wmsg, runPipe>>
  BY DEF RunSend, TypeInv, TypeOK, TypeRun, obj, workVars
<1>2. PICK m \in runBatch : m = MinOf(runBatch)
  BY <1>1, MinOfProperty, OrderTypes
<1>3. PICK e \in Messages : e.pipe = runPipe /\ e.sub = m /\ campMsgQ' = Append(campMsgQ, e)
  <2>1. [pipe |-> runPipe, camp |-> camp[runPipe], sub |-> m] \in Messages
    BY <1>1, OrderTypes DEF Messages
  <2> QED BY <1>2, <2>1 DEF RunSend
<1>4. PICK n \in Nat : /\ DOMAIN campMsgQ = 1 .. n /\ DOMAIN campMsgQ' = 1 .. (n + 1)
                       /\ \A i \in DOMAIN campMsgQ : campMsgQ'[i] = campMsgQ[i]
                       /\ campMsgQ'[n + 1] = e
  <2>1. campMsgQ \in Seq(Messages)
    BY OrderTypes
  <2>2. \E n \in Nat : /\ DOMAIN campMsgQ = 1 .. n /\ DOMAIN Append(campMsgQ, e) = 1 .. (n + 1)
                       /\ \A i \in DOMAIN campMsgQ : Append(campMsgQ, e)[i] = campMsgQ[i]
                       /\ Append(campMsgQ, e)[n + 1] = e
    BY <2>1, AppendPlaces
  <2> QED BY <1>3, <2>2
<1>5. ASSUME NEW p \in PipeIds PROVE PendingSubs(p)' = PendingSubs(p)
  <2>1. HeldSubs(p)' = HeldSubs(p) /\ NewSubs(p)' = {}
    BY <1>1 DEF HeldSubs, InHand, NewSubs, Creating
  <2>2. CASE p = runPipe
    <3>1. NewSubs(p) = {m}
      BY <1>1, <1>2, <2>2 DEF NewSubs, Creating
    <3>2. Queued(p)' = Queued(p) \cup {n + 1}
      BY <1>3, <1>4, <2>2 DEF Queued
    <3>3. Queued(p) \subseteq DOMAIN campMsgQ
      BY DEF Queued
    <3>4. QueuedSubs(p)' = QueuedSubs(p) \cup {m}
      BY <1>3, <1>4, <3>2, <3>3 DEF QueuedSubs
    <3> QED BY <2>1, <3>1, <3>4 DEF PendingSubs, QueuedSubs, HeldSubs, NewSubs
  <2>3. CASE p # runPipe
    <3>1. NewSubs(p) = {}
      BY <1>1, <2>3 DEF NewSubs, Creating
    <3>2. Queued(p)' = Queued(p)
      BY <1>3, <1>4, <2>3 DEF Queued
    <3>3. Queued(p) \subseteq DOMAIN campMsgQ
      BY DEF Queued
    <3>4. QueuedSubs(p)' = QueuedSubs(p)
      BY <1>4, <3>2, <3>3 DEF QueuedSubs
    <3> QED BY <2>1, <3>1, <3>4 DEF PendingSubs, QueuedSubs, HeldSubs, NewSubs
  <2> QED BY <2>2, <2>3
<1>6. \A p \in PipeIds : Phase(p)' = Phase(p)
  BY <1>1 DEF Phase, Token, Waiting
<1> QED BY <1>5, <1>6, LiftStutter

\* The message moves from the queue to a worker.
LEMMA StepWorkerTake ==
    ASSUME TypeInv, TypeInv', NEW w \in Workers, WorkerTake(w)
    PROVE  [Lifetime!Next]_(Lifetime!vars)
<1>1. /\ campMsgQ # <<>> /\ campMsgQ' = Tail(campMsgQ) /\ wpc[w] = "idle"
      /\ UNCHANGED <<nextPipes, stage, runPc, runPipe, runBatch>>
  BY DEF WorkerTake, obj, runVars
<1>2. /\ wpc'[w] = "check" /\ wmsg'[w] = Head(campMsgQ)
      /\ \A v \in Workers \ {w} : wpc'[v] = wpc[v] /\ wmsg'[v] = wmsg[v]
  BY DEF WorkerTake, Goto, TypeInv, TypeOK, TypeWorkers
<1>3. PICK n \in Nat : /\ DOMAIN campMsgQ = 1 .. (n + 1) /\ DOMAIN campMsgQ' = 1 .. n
                       /\ \A i \in 1 .. n : campMsgQ'[i] = campMsgQ[i + 1]
                       /\ Head(campMsgQ) = campMsgQ[1]
  BY <1>1, OrderTypes, TailPlaces
<1>4. ASSUME NEW p \in PipeIds PROVE PendingSubs(p)' = PendingSubs(p)
  <2>1. NewSubs(p)' = NewSubs(p)
    BY <1>1 DEF NewSubs, Creating
  <2>2. \A s : s \in QueuedSubs(p) <=> \/ s \in QueuedSubs(p)'
                                       \/ campMsgQ[1].pipe = p /\ s = campMsgQ[1].sub
    <3> TAKE s
    <3>1. s \in QueuedSubs(p) <=> \E i \in 1 .. (n + 1) : campMsgQ[i].pipe = p /\ s = campMsgQ[i].sub
      BY <1>3 DEF QueuedSubs, Queued
    <3>2. s \in QueuedSubs(p)' <=> \E i \in 1 .. n : campMsgQ[i + 1].pipe = p /\ s = campMsgQ[i + 1].sub
      <4>1. \A i : i \in Queued(p)' <=> i \in 1 .. n /\ campMsgQ[i + 1].pipe = p
        BY <1>3 DEF Queued
      <4>2. \A i \in 1 .. n : campMsgQ'[i].sub = campMsgQ[i + 1].sub
        BY <1>3
      <4>3. s \in QueuedSubs(p)' <=> \E i \in Queued(p)' : s = campMsgQ'[i].sub
        BY DEF QueuedSubs
      <4> QED BY <4>1, <4>2, <4>3
    <3>3. ASSUME NEW i \in 1 .. (n + 1) PROVE i = 1 \/ (i - 1 \in 1 .. n /\ i = (i - 1) + 1)
      OBVIOUS
    <3>4. ASSUME NEW i \in 1 .. n PROVE i + 1 \in 1 .. (n + 1)
      OBVIOUS
    <3>5. 1 \in 1 .. (n + 1)
      OBVIOUS
    <3>6. s \in QueuedSubs(p) => s \in QueuedSubs(p)' \/ (campMsgQ[1].pipe = p /\ s = campMsgQ[1].sub)
      <4> SUFFICES ASSUME NEW i \in 1 .. (n + 1), campMsgQ[i].pipe = p, s = campMsgQ[i].sub
                   PROVE  s \in QueuedSubs(p)' \/ (campMsgQ[1].pipe = p /\ s = campMsgQ[1].sub)
        BY <3>1
      <4>1. CASE i = 1
        BY <4>1
      <4>2. CASE i # 1
        <5>1. PICK k \in 1 .. n : k + 1 = i
          BY <3>3, <4>2
        <5> QED BY <3>2, <5>1
      <4> QED BY <4>1, <4>2
    <3> QED BY <3>1, <3>2, <3>4, <3>5, <3>6
  <2>3. \A s : s \in HeldSubs(p)' <=> \/ s \in HeldSubs(p)
                                      \/ campMsgQ[1].pipe = p /\ s = campMsgQ[1].sub
    <3>1. InHand(p)' = IF campMsgQ[1].pipe = p THEN InHand(p) \cup {w} ELSE InHand(p)
      BY <1>1, <1>2, <1>3 DEF InHand
    <3>2. w \notin InHand(p) /\ InHand(p) \subseteq Workers
      BY <1>1 DEF InHand
    <3> QED BY <1>2, <1>3, <3>1, <3>2 DEF HeldSubs
  <2>4. PendingSubs(p) = QueuedSubs(p) \cup HeldSubs(p) \cup NewSubs(p)
    BY DEF PendingSubs, QueuedSubs, HeldSubs, NewSubs
  <2>5. PendingSubs(p)' = QueuedSubs(p)' \cup HeldSubs(p)' \cup NewSubs(p)'
    BY DEF PendingSubs, QueuedSubs, HeldSubs, NewSubs
  <2> QED BY <2>1, <2>2, <2>3, <2>4, <2>5
<1>5. \A p \in PipeIds : Phase(p)' = Phase(p)
  BY <1>1 DEF Phase, Token, Waiting
<1> QED BY <1>4, <1>5, LiftStutter

\* A worker settles its subscriber, which is pending with it and nowhere else.
LEMMA StepSettles ==
    ASSUME TypeInv, TypeInv', OrderInv, NEW w \in Workers, NEW h \in PipeIds, w \in InHand(h),
           \A p \in PipeIds : w \notin InHand(p)',
           \A v \in Workers \ {w} : wpc'[v] = wpc[v] /\ wmsg'[v] = wmsg[v],
           UNCHANGED <<nextPipes, campMsgQ, runPc, runPipe, runBatch, stage>>
    PROVE  [Lifetime!Next]_(Lifetime!vars)
<1>1. wmsg[w].pipe = h /\ h # NoPipe
  BY OrderTypes DEF InHand
<1>2. PICK s \in Subs : s = wmsg[w].sub
  <2>1. wmsg[w] \in Messages
    BY <1>1, OrderTypes DEF NoMsg
  <2> QED BY <2>1 DEF Messages
<1>3. \A p \in PipeIds : UNCHANGED <<QueuedSubs(p), NewSubs(p)>>
  BY DEF QueuedSubs, Queued, NewSubs, Creating
<1>4. \A p \in PipeIds : InHand(p)' = InHand(p) \ {w} /\ InHand(p) \subseteq Workers
  BY DEF InHand
<1>5. \A p \in PipeIds \ {h} : PendingSubs(p)' = PendingSubs(p)
  <2> TAKE p \in PipeIds \ {h}
  <2>1. w \notin InHand(p)
    BY <1>1 DEF InHand
  <2>2. HeldSubs(p)' = HeldSubs(p)
    BY <1>4, <2>1 DEF HeldSubs
  <2> QED BY <1>3, <2>2 DEF PendingSubs, QueuedSubs, HeldSubs, NewSubs
<1>6. PendingSubs(h)' = PendingSubs(h) \ {s} /\ s \in PendingSubs(h)
  <2>1. s \in HeldSubs(h)
    BY <1>2 DEF HeldSubs
  <2>2. \A v \in InHand(h) \ {w} : wmsg[v].sub # s
    BY <1>1, <1>2 DEF InHand, OrderInv, OrderWorkers
  <2>3. HeldSubs(h)' = {wmsg[v].sub : v \in InHand(h) \ {w}}
    BY <1>4 DEF HeldSubs
  <2>4. HeldSubs(h)' = HeldSubs(h) \ {s}
    BY <1>2, <2>2, <2>3 DEF HeldSubs
  <2>5. s \notin QueuedSubs(h)
    <3>1. \A i \in Queued(h) : s < campMsgQ[i].sub /\ campMsgQ[i].sub \in Nat
      BY <1>1, <1>2, OrderTypes DEF Queued, OrderInv, OrderWorkers
    <3>2. s \in Nat
      BY <1>2 DEF Subs
    <3> QED BY <3>1, <3>2 DEF QueuedSubs
  <2>6. s \notin NewSubs(h)
    <3>1. s \in Nat /\ runBatch \subseteq Nat
      BY <1>2, OrderTypes DEF Subs
    <3>2. Creating(h) = 1 => \A x \in runBatch : s < x
      BY <1>1, <1>2 DEF Creating, OrderInv, OrderWorkers
    <3> QED BY <3>1, <3>2 DEF NewSubs
  <2>7. PendingSubs(h) = QueuedSubs(h) \cup HeldSubs(h) \cup NewSubs(h)
    BY DEF PendingSubs, QueuedSubs, HeldSubs, NewSubs
  <2>8. PendingSubs(h)' = QueuedSubs(h)' \cup HeldSubs(h)' \cup NewSubs(h)'
    BY DEF PendingSubs, QueuedSubs, HeldSubs, NewSubs
  <2> QED BY <1>3, <2>1, <2>4, <2>5, <2>6, <2>7, <2>8
<1>7. \A p \in PipeIds : Phase(p)' = Phase(p)
  BY DEF Phase, Token, Waiting
<1>8. Lifetime!Next
  BY <1>5, <1>6, <1>7, LiftSettle
<1> QED BY <1>8

\* A worker goes on with the message it has in hand, or with one that is settled.
LEMMA StepKeeps ==
    ASSUME NEW w \in Workers, \A p \in PipeIds : w \in InHand(p)' <=> w \in InHand(p),
           \A p \in PipeIds : w \in InHand(p) => wmsg'[w] = wmsg[w],
           \A v \in Workers \ {w} : wpc'[v] = wpc[v] /\ wmsg'[v] = wmsg[v],
           UNCHANGED <<nextPipes, campMsgQ, runPc, runPipe, runBatch, stage>>
    PROVE  [Lifetime!Next]_(Lifetime!vars)
<1>1. ASSUME NEW p \in PipeIds PROVE PendingSubs(p)' = PendingSubs(p)
  <2>1. UNCHANGED <<QueuedSubs(p), NewSubs(p)>>
    BY DEF QueuedSubs, Queued, NewSubs, Creating
  <2>2. InHand(p)' = InHand(p)
    BY DEF InHand
  <2>3. \A v \in InHand(p) : wmsg'[v] = wmsg[v]
    BY DEF InHand
  <2>4. HeldSubs(p)' = HeldSubs(p)
    BY <2>2, <2>3 DEF HeldSubs
  <2> QED BY <2>1, <2>4 DEF PendingSubs, QueuedSubs, HeldSubs, NewSubs
<1>2. \A p \in PipeIds : Phase(p)' = Phase(p)
  BY DEF Phase, Token, Waiting
<1> QED BY <1>1, <1>2, LiftStutter

\* The steps of a worker: one settles a message, the others are not seen.
LEMMA StepWorker ==
    ASSUME TypeInv, TypeInv', OrderInv, NEW w \in Workers, Worker(w)
    PROVE  [Lifetime!Next]_(Lifetime!vars)
<1>1. wpc \in [Workers -> WorkerPcs] /\ wmsg \in [Workers -> Messages \cup {NoMsg}]
  BY DEF TypeInv, TypeOK, TypeWorkers
<1>2. CASE WorkerTake(w)
  BY <1>2, StepWorkerTake
<1> SUFFICES ASSUME ~ WorkerTake(w) PROVE [Lifetime!Next]_(Lifetime!vars)
  BY <1>2
<1>3. UNCHANGED <<nextPipes, campMsgQ, runPc, runPipe, runBatch, stage>>
  BY DEF Worker, WorkerCheck, WorkerPush, WorkerDone, WorkerOnError, WorkerLoad, WorkerStore,
         WorkerAdd, mgr, obj, runVars
<1>4. \A v \in Workers \ {w} : wpc'[v] = wpc[v] /\ wmsg'[v] = wmsg[v]
  BY <1>1 DEF Worker, WorkerCheck, WorkerPush, WorkerDone, WorkerOnError, WorkerLoad, WorkerStore,
              WorkerAdd, Finish, Goto
<1>5. PICK h : h = wmsg[w].pipe
  OBVIOUS
<1>6. h \in PipeIds \cup {NoPipe} /\ NoPipe \notin PipeIds
  BY <1>5, OrderTypes
<1>7. CASE h \in PipeIds /\ ((WorkerCheck(w) /\ Dropped(h)) \/ WorkerDone(w))
  <2>1. w \in InHand(h)
    BY <1>5, <1>7 DEF WorkerCheck, WorkerDone, InHand
  <2>2. wpc'[w] \in {"idle", "load", "onError"}
    BY <1>1, <1>5, <1>7 DEF WorkerCheck, WorkerDone, Finish, Goto
  <2>3. \A p \in PipeIds : w \notin InHand(p)'
    BY <2>2 DEF InHand
  <2> QED BY <1>3, <1>4, <1>7, <2>1, <2>3, StepSettles
<1>8. CASE h = NoPipe /\ WorkerDone(w)
  <2>1. \A p \in PipeIds : w \notin InHand(p)
    BY <1>5, <1>6, <1>8 DEF InHand
  <2>2. wpc'[w] = "idle"
    BY <1>1, <1>5, <1>8 DEF WorkerDone, Finish, Goto
  <2>3. \A p \in PipeIds : w \notin InHand(p)'
    BY <2>2 DEF InHand
  <2> QED BY <1>3, <1>4, <2>1, <2>3, StepKeeps
<1>9. CASE (WorkerCheck(w) /\ ~ Dropped(h)) \/ WorkerPush(w)
  <2>1. wpc[w] \in {"check", "push"} /\ wpc'[w] \in {"push", "doneOk", "doneErr"} /\ wmsg' = wmsg
    BY <1>1, <1>5, <1>9 DEF WorkerCheck, WorkerPush, Goto
  <2>2. \A p \in PipeIds : w \in InHand(p)' <=> w \in InHand(p)
    BY <2>1 DEF InHand
  <2> QED BY <1>3, <1>4, <2>1, <2>2, StepKeeps
<1>10. CASE WorkerOnError(w) \/ WorkerLoad(w) \/ WorkerStore(w) \/ WorkerAdd(w)
  <2>1. wpc[w] \in {"onError", "load", "store", "add"} /\ wpc'[w] \in {"idle", "store", "add"}
    BY <1>1, <1>10 DEF WorkerOnError, WorkerLoad, WorkerStore, WorkerAdd, Finish, Goto
  <2>2. \A p \in PipeIds : w \notin InHand(p)' /\ w \notin InHand(p)
    BY <2>1 DEF InHand
  <2> QED BY <1>3, <1>4, <2>2, StepKeeps
<1>11. Dropped(h) => h \in PipeIds
  BY <1>6 DEF Dropped
<1> QED BY <1>6, <1>7, <1>8, <1>9, <1>10, <1>11 DEF Worker

\* The goroutine of a pipe ends it when nothing is pending, and forgets it last.
LEMMA StepCleanup ==
    ASSUME TypeInv, TypeInv', CountInv, NEW h \in PipeIds, Cleanup(h)
    PROVE  [Lifetime!Next]_(Lifetime!vars)
<1>1. UNCHANGED <<nextPipes, campMsgQ, runPc, runPipe, runBatch, wpc, wmsg>>
  BY DEF Cleanup, CleanupCounts, CleanupCheckErrors, CleanupCheckStopped, CleanupLoad, CleanupWrite,
         CleanupRemove, StageOnly, mgr, runVars, workVars
<1>2. \A p \in PipeIds : PendingSubs(p)' = PendingSubs(p) /\ Token(p)' = Token(p)
  BY <1>1, PendingKept DEF Token, Waiting
<1>3. /\ \A p \in PipeIds \ {h} : stage'[p] = stage[p]
      /\ stage[h] # "free" /\ stage'[h] # "open"
      /\ stage[h] = "open" => stage'[h] # "free" /\ wg[h] = 0
  BY OrderTypes DEF Cleanup, CleanupCounts, CleanupCheckErrors, CleanupCheckStopped, CleanupLoad,
                    CleanupWrite, CleanupRemove, GoStage
<1>4. \A p \in PipeIds \ {h} : Phase(p)' = Phase(p)
  BY <1>2, <1>3 DEF Phase
<1>5. CASE stage[h] = "open"
  <2>1. Out(h) = 0
    BY <1>3, <1>5 DEF CountInv, Live
  <2>2. Queued(h) = {} /\ InHand(h) = {} /\ Token(h) = 0 /\ runPipe # h
    BY <1>3, <1>5, <2>1, NothingOut
  <2>3. PendingSubs(h) = {}
    BY <2>2 DEF PendingSubs, Creating
  <2>4. Phase(h) = "closed" /\ Phase(h)' = "ended"
    BY <1>3, <1>5, <2>2, PhaseCases
  <2>5. Lifetime!Next
    BY <1>2, <1>4, <2>3, <2>4, LiftMove
  <2> QED BY <2>5
<1>6. CASE stage[h] # "open"
  <2>1. Phase(h) = "ended"
    BY <1>3, <1>6, PhaseCases
  <2>2. Phase(h)' = "ended" \/ Phase(h)' = "none"
    BY <1>3, PhaseCases
  <2>3. CASE Phase(h)' = "ended"
    BY <1>2, <1>4, <2>1, <2>3, LiftStutter
  <2>4. CASE Phase(h)' = "none"
    <3>1. Lifetime!Next
      BY <1>2, <1>4, <2>1, <2>4, LiftMove
    <3> QED BY <3>1
  <2> QED BY <2>2, <2>3, <2>4
<1> QED BY <1>5, <1>6

\* A test message is pending for no pipe.
LEMMA StepTestMessage ==
    ASSUME TypeInv, NEW c \in Campaigns, NEW x \in Subs, TestMessage(c, x)
    PROVE  [Lifetime!Next]_(Lifetime!vars)
<1>1. UNCHANGED <<nextPipes, stage, wpc, wmsg, runPc, runPipe, runBatch>>
  BY DEF TestMessage, obj, workVars, runVars
<1>2. PICK e \in Messages : e.pipe = NoPipe /\ campMsgQ' = Append(campMsgQ, e)
  <2>1. [pipe |-> NoPipe, camp |-> c, sub |-> x] \in Messages
    BY DEF Messages
  <2> QED BY <2>1 DEF TestMessage
<1>3. PICK n \in Nat : /\ DOMAIN campMsgQ = 1 .. n /\ DOMAIN campMsgQ' = 1 .. (n + 1)
                       /\ \A i \in DOMAIN campMsgQ : campMsgQ'[i] = campMsgQ[i]
                       /\ campMsgQ'[n + 1] = e
  <2>1. campMsgQ \in Seq(Messages)
    BY OrderTypes
  <2>2. \E n \in Nat : /\ DOMAIN campMsgQ = 1 .. n /\ DOMAIN Append(campMsgQ, e) = 1 .. (n + 1)
                       /\ \A i \in DOMAIN campMsgQ : Append(campMsgQ, e)[i] = campMsgQ[i]
                       /\ Append(campMsgQ, e)[n + 1] = e
    BY <2>1, AppendPlaces
  <2> QED BY <1>2, <2>2
<1>4. ASSUME NEW p \in PipeIds PROVE PendingSubs(p)' = PendingSubs(p)
  <2>1. UNCHANGED <<HeldSubs(p), NewSubs(p)>>
    BY <1>1 DEF HeldSubs, InHand, NewSubs, Creating
  <2>2. Queued(p)' = Queued(p) /\ Queued(p) \subseteq DOMAIN campMsgQ
    BY <1>2, <1>3, CapAssumption DEF Queued
  <2>3. QueuedSubs(p)' = QueuedSubs(p)
    BY <1>3, <2>2 DEF QueuedSubs
  <2> QED BY <2>1, <2>3 DEF PendingSubs, QueuedSubs, HeldSubs, NewSubs
<1>5. \A p \in PipeIds : Phase(p)' = Phase(p)
  BY <1>1 DEF Phase, Token, Waiting
<1> QED BY <1>4, <1>5, LiftStutter

\* With the process everything the pipes had is gone.
LEMMA StepRestart ==
    ASSUME Restart PROVE Lifetime!Next
<1>1. /\ campMsgQ' = <<>> /\ runPc' = "idle"
      /\ \A w \in Workers : wpc'[w] = "idle"
      /\ \A p \in PipeIds : stage'[p] = "free"
  BY DEF Restart
<1>2. \A p \in PipeIds : Queued(p)' = {} /\ InHand(p)' = {} /\ Creating(p)' = 0
  BY <1>1 DEF Queued, InHand, Creating
<1>3. \A p \in PipeIds : Phase(p)' = "none" /\ PendingSubs(p)' = {}
  BY <1>1, <1>2, PhaseCases DEF PendingSubs
<1>4. Lifetime!Vanish
  BY <1>3 DEF Lifetime!Vanish
<1> QED BY <1>4 DEF Lifetime!Next

\* Every step of the manager is a step of PipeLifetime or none.
LEMMA StepNext ==
    ASSUME TypeInv, CountInv, OrderInv, [Next]_vars PROVE [Lifetime!Next]_(Lifetime!vars)
<1>0. TypeInv'
  BY TypeNext
<1>1. CASE UNCHANGED <<stage, nextPipes, campMsgQ, wpc, wmsg, runPc, runPipe, runBatch>>
  BY <1>1, StepNothing
<1>2. CASE Scanner
  <2>1. CASE ScanTick \/ ScanLoad \/ ScanReset \/ ScanQuery \/ \E c \in Campaigns : ScanRefuse(c)
    BY <1>1, <2>1 DEF ScanTick, ScanLoad, ScanReset, ScanQuery, ScanRefuse, mgr, obj, runVars, workVars
  <2> QED BY <1>0, <1>2, <2>1, StepScanStart DEF Scanner
<1>3. CASE Runner
  BY <1>0, <1>3, StepRunPop, StepRunFetch, StepRunNewMessage, StepRunSend, StepRunRequeue DEF Runner
<1>4. CASE World
  <2>1. CASE ScanQueryFails \/ \E c \in Campaigns : Delete(c) \/ SendAtPasses(c)
                                                    \/ \E s \in Subs : Churn(c, s)
    BY <1>1, <2>1 DEF ScanQueryFails, Delete, SendAtPasses, Churn, mgr, obj, runVars, workVars
  <2>2. CASE RunRenderFails
    <3>1. UNCHANGED <<stage, nextPipes, campMsgQ, wpc, wmsg, runPc, runPipe>> /\ runPc = "new"
      BY <2>2 DEF RunRenderFails, mgr, obj, workVars
    <3> QED BY <3>1, StepNothing
  <2>3. CASE Restart
    BY <2>3, StepRestart
  <2> QED BY <1>0, <1>4, <2>1, <2>2, <2>3, StepRunFetchFails, StepTestMessage DEF World
<1>5. ASSUME NEW w \in Workers, Worker(w) PROVE [Lifetime!Next]_(Lifetime!vars)
  BY <1>0, <1>5, StepWorker
<1>6. ASSUME NEW p \in PipeIds, Cleanup(p) PROVE [Lifetime!Next]_(Lifetime!vars)
  BY <1>0, <1>6, StepCleanup
<1>7. ASSUME NEW r \in Requests, Request(r) PROVE [Lifetime!Next]_(Lifetime!vars)
  <2>1. UNCHANGED <<stage, nextPipes, campMsgQ, wpc, wmsg, runPc, runPipe, runBatch>>
    BY <1>7 DEF Request, StatusCheck, StatusWrite, StatusStop, EditCheck, EditWrite, mgr, obj, runVars,
                workVars
  <2> QED BY <1>1, <2>1
<1>8. CASE UNCHANGED vars
  BY <1>1, <1>8 DEF vars, mgr, obj, runVars, workVars
<1> QED BY <1>2, <1>3, <1>4, <1>5, <1>6, <1>7, <1>8 DEF Next

\* The pipes keep the promise of PipeLifetime: whatever interleaving of the scanner, Run,
\* the workers, the requests and the failures, every message is taken on by an open pipe
\* once, settled once, and the pipe ends only closed and with nothing pending.
THEOREM LifetimeCorrect == Spec => PipesDrain
<1>1. Init => Lifetime!Init
  <2> SUFFICES ASSUME Init PROVE Lifetime!Init
    OBVIOUS
  <2>1. /\ campMsgQ = <<>> /\ runPc = "idle"
        /\ \A w \in Workers : wpc[w] = "idle"
        /\ \A p \in PipeIds : stage[p] = "free"
    BY DEF Init
  <2>2. \A p \in PipeIds : Queued(p) = {} /\ InHand(p) = {} /\ Creating(p) = 0
    BY <2>1 DEF Queued, InHand, Creating
  <2>3. \A p \in PipeIds : Phase(p) = "none" /\ PendingSubs(p) = {}
    BY <2>1, <2>2, PhaseCases DEF PendingSubs
  <2> QED BY <2>3 DEF Lifetime!Init
<1>2. TypeInv /\ CountInv /\ OrderInv /\ [Next]_vars => [Lifetime!Next]_(Lifetime!vars)
  BY StepNext
<1> QED BY <1>1, <1>2, OrderInvCorrect, PTL DEF Spec, PipesDrain, Lifetime!Spec
===============================================================================
