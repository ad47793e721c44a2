---------------------------- MODULE Importer_proofs ----------------------------
(***************************************************************************)
(* Theorems about Importer, for any number of sessions, requests, files    *)
(* and rows, any size of batch and of queue: a stop request ends one       *)
(* session at most; the rows of a file are committed once and in order,    *)
(* and all of them when a session ends undisturbed; and the status that    *)
(* is shown counts what is stored.                                         *)
(***************************************************************************)
EXTENDS Importer, FiniteSetTheorems, TLAPS

Signalling == {r \in Requests : request[r] = "signal"}
Pending == IF stop THEN 1 ELSE 0

\* Every stop request is in one of four places: on its way to the channel, in it, taken by a
\* session, or it had no effect. The first three are counted; stops counts them all.
StopInv ==
    /\ request \in [Requests -> RequestPcs]
    /\ stop \in BOOLEAN
    /\ stops \in Nat
    /\ stopped \subseteq Sessions
    /\ Cardinality(stopped) + Pending + Cardinality(Signalling) <= stops

\* The sets that are counted are finite.
LEMMA FiniteCounts ==
    ASSUME StopInv
    PROVE  /\ IsFiniteSet(stopped) /\ Cardinality(stopped) \in Nat
           /\ IsFiniteSet(Signalling) /\ Cardinality(Signalling) \in Nat
  <1>1. IsFiniteSet(stopped)
    BY ImporterAssumption, FS_Subset DEF StopInv
  <1>2. IsFiniteSet(Signalling)
    <2>1. Signalling \subseteq Requests
      BY DEF Signalling
    <2> QED
      BY <2>1, ImporterAssumption, FS_Subset
  <1> QED
    BY <1>1, <1>2, FS_CardinalityType

\* Nothing was requested, sent or taken at the start.
LEMMA StopInit == Init => StopInv
  <1> SUFFICES ASSUME Init PROVE StopInv
    OBVIOUS
  <1>1. Signalling = {}
    BY DEF Init, Signalling
  <1>2. stopped = {} /\ stop = FALSE /\ stops = 0
    BY DEF Init
  <1>3. request \in [Requests -> RequestPcs]
    BY DEF Init, RequestPcs
  <1>4. Cardinality(stopped) = 0 /\ Cardinality(Signalling) = 0
    BY <1>1, <1>2, FS_EmptySet
  <1>5. Pending = 0
    BY <1>2 DEF Pending
  <1>6. stop \in BOOLEAN /\ stopped \subseteq Sessions /\ stops = 0
    BY <1>2, Zenon
  <1> QED
    BY <1>3, <1>4, <1>5, <1>6 DEF StopInv

\* A request that moves between other places than the way to the channel disturbs no count.
LEMMA StopRequestMoves ==
    ASSUME StopInv, NEW r \in Requests, NEW from \in RequestPcs \ {"signal"},
           NEW to \in RequestPcs \ {"signal"},
           RequestAt(r, from, to), UNCHANGED <<stop, stops, stopped>>
    PROVE  StopInv'
  <1>1. request' \in [Requests -> RequestPcs]
    BY DEF StopInv, RequestAt
  <1>2. Signalling' = Signalling
    BY DEF StopInv, RequestAt, Signalling
  <1> QED
    BY <1>1, <1>2 DEF StopInv, Pending

\* Importer.Stop while nothing is importing goes elsewhere; else it is on its way.
LEMMA StopRequestStep ==
    ASSUME StopInv, NEW r \in Requests, StopRequest(r)
    PROVE  StopInv'
  <1>1. stops' = stops + 1 /\ stop' = stop /\ stopped' = stopped
    BY DEF StopRequest, importer
  <1>2. request' \in [Requests -> RequestPcs]
    BY DEF StopInv, StopRequest, RequestAt, RequestPcs
  <1>3. CASE status = "importing"
    <2>1. Signalling' = Signalling \cup {r} /\ r \notin Signalling
      BY <1>3 DEF StopInv, StopRequest, RequestAt, Signalling
    <2>2. Cardinality(Signalling') = Cardinality(Signalling) + 1
      BY <2>1, FiniteCounts, FS_AddElement
    <2> QED
      BY <1>1, <1>2, <2>2, FiniteCounts DEF StopInv, Pending
  <1>4. CASE status # "importing"
    <2>1. Signalling' = Signalling
      BY <1>4 DEF StopInv, StopRequest, RequestAt, Signalling
    <2> QED
      BY <1>1, <1>2, <2>1, FiniteCounts DEF StopInv, Pending
  <1> QED
    BY <1>3, <1>4

\* The signal enters the channel, or is dropped because one is there.
LEMMA StopSignalStep ==
    ASSUME StopInv, NEW r \in Requests, StopSignal(r)
    PROVE  StopInv'
  <1>1. stops' = stops /\ stop' = TRUE /\ stopped' = stopped
    BY DEF StopSignal, history
  <1>2. request' \in [Requests -> RequestPcs]
    BY DEF StopInv, StopSignal, RequestAt, RequestPcs
  <1>3. Signalling' = Signalling \ {r} /\ r \in Signalling
    BY DEF StopInv, StopSignal, RequestAt, Signalling
  <1>4. Cardinality(Signalling') = Cardinality(Signalling) - 1
    BY <1>3, FiniteCounts, FS_RemoveElement
  <1> QED
    BY <1>1, <1>2, <1>4, FiniteCounts DEF StopInv, Pending

\* A loader that finds a signal takes it out of the channel and stops.
LEMMA LoadLoopStep ==
    ASSUME StopInv, NEW s \in Sessions, LoadLoop(s)
    PROVE  StopInv'
  <1>1. stops' = stops /\ request' = request
    BY DEF LoadLoop, requests
  <1>2. Signalling' = Signalling
    BY <1>1 DEF Signalling
  <1>3. CASE stop
    <2>1. stop' = FALSE /\ stopped' = stopped \cup {s}
      BY <1>3 DEF LoadLoop, SignalTaken
    <2>2. Cardinality(stopped') <= Cardinality(stopped) + 1 /\ Cardinality(stopped') \in Nat
      <3>1. IsFiniteSet(stopped) /\ Cardinality(stopped) \in Nat
        BY FiniteCounts
      <3>2. Cardinality(stopped \cup {s})
              = IF s \in stopped THEN Cardinality(stopped) ELSE Cardinality(stopped) + 1
        BY <3>1, FS_AddElement, Zenon
      <3>3. stopped' = stopped \cup {s}
        BY <2>1
      <3> QED
        BY <3>1, <3>2, <3>3
    <2>3. Pending = 1 /\ Pending' = 0
      BY <1>3, <2>1 DEF Pending
    <2>4. Cardinality(stopped') + Pending' + Cardinality(Signalling') <= stops'
      BY <1>1, <1>2, <2>2, <2>3, FiniteCounts DEF StopInv
    <2> QED
      BY <1>1, <2>1, <2>4 DEF StopInv
  <1>4. CASE ~stop
    BY <1>1, <1>2, <1>4 DEF LoadLoop, StopInv, Pending
  <1> QED
    BY <1>3, <1>4

\* All other steps of requests leave the channel and the counts alone.
LEMMA RequestSteps ==
    ASSUME StopInv, NEW r \in Requests,
           \/ \E f \in Files : Upload(r, f)
           \/ StartImport(r) \/ StopReset(r) \/ StopStatus(r)
    PROVE  StopInv'
  <1>1. UNCHANGED <<stop, stops, stopped>>
    BY DEF Upload, StartImport, NewSessionCheck, NewSessionSet, NewSessionStart, StopReset, StopStatus,
           importer, history
  <1>2. \E from, to \in RequestPcs \ {"signal"} : RequestAt(r, from, to)
    BY DEF Upload, StartImport, NewSessionCheck, NewSessionSet, NewSessionStart, StopReset, StopStatus,
           RequestPcs
  <1> QED
    BY <1>1, <1>2, StopRequestMoves

\* Neither do the other steps of a session, nor a jam.
LEMMA SessionSteps ==
    ASSUME StopInv,
           \/ Jam
           \/ \E s \in Sessions :
                \/ ExtractZIP(s) \/ LoadStart(s) \/ LoadOpen(s) \/ LoadEOF(s) \/ LoadRow(s)
                \/ LoadSend(s) \/ LoadFail(s) \/ Import(s)
    PROVE  StopInv'
  <1>1. UNCHANGED <<request, stop, stops, stopped>>
    <2>1. ASSUME Jam PROVE UNCHANGED <<request, stop, stops, stopped>>
      BY <2>1 DEF Jam, requests, history
    <2>2. ASSUME NEW s \in Sessions,
                 \/ ExtractZIP(s) \/ LoadStart(s) \/ LoadOpen(s) \/ LoadEOF(s) \/ LoadRow(s)
                 \/ LoadSend(s) \/ LoadFail(s)
          PROVE  UNCHANGED <<request, stop, stops, stopped>>
      BY <2>2 DEF ExtractZIP, LoadStart, LoadOpen, LoadEOF, LoadRow, LoadSend, LoadFail,
                  importer, requests, history
    <2>3. ASSUME NEW s \in Sessions, Import(s)
          PROVE  UNCHANGED <<request, stop, stops, stopped>>
      BY <2>3 DEF Import, Insert, BeginFails, InsertFails, QueueClosed, Commit, LastCommit, Count, Finish,
                  importer, requests, history
    <2> QED
      BY <2>1, <2>2, <2>3
  <1> QED
    BY <1>1 DEF StopInv, Pending, Signalling

\* Every step keeps the count.
LEMMA StopNext == StopInv /\ [Next]_vars => StopInv'
  <1> SUFFICES ASSUME StopInv, [Next]_vars PROVE StopInv'
    OBVIOUS
  <1>1. CASE UNCHANGED vars
    BY <1>1 DEF vars, importer, requests, history, StopInv, Pending, Signalling
  <1>2. ASSUME NEW r \in Requests, NEW f \in Files, Upload(r, f) PROVE StopInv'
    BY <1>2, RequestSteps
  <1>3. ASSUME NEW r \in Requests, StopRequest(r) PROVE StopInv'
    BY <1>3, StopRequestStep
  <1>4. ASSUME NEW r \in Requests, StartImport(r) PROVE StopInv'
    BY <1>4, RequestSteps
  <1>5. ASSUME NEW r \in Requests, StopImport(r) PROVE StopInv'
    BY <1>5, RequestSteps, StopSignalStep DEF StopImport
  <1>6. ASSUME NEW s \in Sessions, Load(s) PROVE StopInv'
    BY <1>6, SessionSteps, LoadLoopStep DEF Load
  <1>7. ASSUME NEW s \in Sessions, Import(s) PROVE StopInv'
    BY <1>7, SessionSteps
  <1>8. CASE Jam
    BY <1>8, SessionSteps
  <1> QED
    BY <1>1, <1>2, <1>3, <1>4, <1>5, <1>6, <1>7, <1>8 DEF Next

\* However many sessions share the stop channel (importer.go:521, 602), the sessions that
\* were stopped and the signal still waiting are no more than the stop requests made.
THEOREM StopsCorrect == Spec => []StopsOneAtMost
  <1>1. StopInv => StopsOneAtMost
    BY FiniteCounts DEF StopInv, StopsOneAtMost, Pending
  <1> QED
    BY <1>1, StopInit, StopNext, PTL DEF Spec

-----------------------------------------------------------------------------
(* What a session imports. A session is followed by where its rows are: in *)
(* its queue, in its transaction, in the database.                         *)

Increasing(q) == \A i, j \in 1..Len(q) : i < j => q[i] < q[j]
Below(P, Q) == \A m \in P, n \in Q : m < n
Counting(s) == committer[s] \in {"count", "lastCount"}

\* The rows the loader is done with, and those of them the committer is to have.
Passed(s) == IF loader[s] = "send" THEN pos[s] - 1 ELSE pos[s]
Sent(s) == {n \in 1..Passed(s) : file[s].rows[n] = "row"}

FileType == [zip : BOOLEAN, rows : Seq(RowKinds)]

SharedTyped ==
    /\ status \in Statuses /\ imported \in Nat /\ {hasLog, stop, jammed} \subseteq BOOLEAN
    /\ request \in [Requests -> RequestPcs] /\ upload \in [Requests -> FileType]
    /\ latest \in Sessions \cup {NoSession}
    /\ troubled \subseteq Sessions /\ disturbed \subseteq Sessions /\ stopped \subseteq Sessions
    /\ stops \in 0..MaxStops /\ faults \in 0..MaxFaults
SessionsTyped ==
    /\ file \in [Sessions -> FileType]
    /\ loader \in [Sessions -> LoaderPcs] /\ committer \in [Sessions -> CommitterPcs]
    /\ pos \in [Sessions -> Nat]
    /\ queue \in [Sessions -> Seq(Nat)] /\ tx \in [Sessions -> Seq(Nat)] /\ committed \in [Sessions -> Seq(Nat)]
    /\ closed \in [Sessions -> BOOLEAN] /\ torn \in [Sessions -> BOOLEAN]

\* A session that was not started is empty; only a loader that is gone has closed its queue.
Started(s) ==
    /\ committer[s] = "unborn" <=> loader[s] = "unborn"
    /\ committer[s] = "unborn" =>
         pos[s] = 0 /\ queue[s] = <<>> /\ tx[s] = <<>> /\ committed[s] = <<>> /\ ~torn[s]
    /\ closed[s] => loader[s] = "gone"

\* Queue and transaction are bounded; a transaction that was rolled back is not used again.
Batched(s) ==
    /\ Len(queue[s]) <= CommitBatchSize /\ Len(tx[s]) <= CommitBatchSize
    /\ committer[s] = "take" => Len(tx[s]) < CommitBatchSize
    /\ committer[s] \in {"finish", "failed", "gone"} => tx[s] = <<>>
    /\ torn[s] => committer[s] \in {"last", "finish", "failed", "gone"} /\ s \in troubled

\* The rows that are in the database are before those in the transaction, and these before
\* those in the queue.
Ordered(s) ==
    /\ pos[s] <= Len(file[s].rows)
    /\ loader[s] = "send" => pos[s] > 0 /\ file[s].rows[pos[s]] = "row"
    /\ Elements(queue[s]) \cup Elements(tx[s]) \cup Elements(committed[s]) \subseteq Sent(s)
    /\ Increasing(queue[s]) /\ Increasing(tx[s]) /\ Increasing(committed[s])
    /\ Below(Elements(tx[s]), Elements(queue[s])) /\ Below(Elements(committed[s]), Elements(queue[s]))
    /\ Counting(s) \/ Below(Elements(committed[s]), Elements(tx[s]))

\* While nothing fails and nobody stops it, every row the loader is done with is in one of
\* these places, and who ends has left none behind.
Complete(s) == s \notin troubled \cup stopped =>
    /\ Sent(s) \subseteq Elements(queue[s]) \cup Elements(tx[s]) \cup Elements(committed[s])
    /\ Counting(s) => Elements(tx[s]) \subseteq Elements(committed[s])
    /\ loader[s] # "fail" /\ committer[s] # "failed"
    /\ loader[s] = "gone" => pos[s] = Len(file[s].rows)
    /\ committer[s] \in {"last", "lastCount", "finish", "gone"} => loader[s] = "gone" /\ queue[s] = <<>>

Session(s) == Started(s) /\ Batched(s) /\ Ordered(s) /\ Complete(s)

\* A row is added at the end.
LEMMA AppendRow ==
    ASSUME NEW q \in Seq(Nat), NEW n \in Nat
    PROVE  /\ Append(q, n) \in Seq(Nat) /\ Len(Append(q, n)) = Len(q) + 1
           /\ Elements(Append(q, n)) = Elements(q) \cup {n}
           /\ Increasing(q) /\ Below(Elements(q), {n}) => Increasing(Append(q, n))
<1> DEFINE p == Append(q, n)
<1>1. /\ p \in Seq(Nat) /\ Len(p) = Len(q) + 1 /\ Len(q) \in Nat
      /\ p[Len(q) + 1] = n /\ \A i \in 1..Len(q) : p[i] = q[i]
    OBVIOUS
<1> HIDE DEF p
<1>2. Elements(p) = Elements(q) \cup {n}
    <2>1. \A i \in 1..Len(p) : i \in 1..Len(q) \/ i = Len(q) + 1
        BY <1>1
    <2>2. Len(q) + 1 \in 1..Len(p) /\ \A i \in 1..Len(q) : i \in 1..Len(p)
        BY <1>1
    <2> QED
        BY <1>1, <2>1, <2>2 DEF Elements
<1>3. ASSUME Increasing(q), Below(Elements(q), {n})
      PROVE  Increasing(p)
    <2> SUFFICES ASSUME NEW i \in 1..Len(p), NEW j \in 1..Len(p), i < j
                 PROVE  p[i] < p[j]
        BY DEF Increasing
    <2>1. i \in 1..Len(q) /\ p[i] = q[i]
        BY <1>1
    <2>2. CASE j \in 1..Len(q)
        BY <1>1, <1>3, <2>1, <2>2 DEF Increasing
    <2>3. CASE j = Len(q) + 1
        <3>1. q[i] \in Elements(q)
            BY <2>1 DEF Elements
        <3> QED
            BY <1>1, <1>3, <2>1, <2>3, <3>1 DEF Below
    <2>4. j \in 1..Len(q) \/ j = Len(q) + 1
        <3>1. Len(p) = Len(q) + 1 /\ Len(q) \in Nat
            BY <1>1
        <3>2. j \in Nat /\ 1 <= j /\ j <= Len(q) + 1
            BY <3>1
        <3> QED
            BY ONLY <3>1, <3>2
    <2> QED
        BY <2>2, <2>3, <2>4
<1> QED
    BY <1>1, <1>2, <1>3 DEF p

\* The first row is taken.
LEMMA TakeRow ==
    ASSUME NEW q \in Seq(Nat), q # <<>>
    PROVE  /\ Tail(q) \in Seq(Nat) /\ Len(Tail(q)) = Len(q) - 1 /\ Head(q) \in Nat
           /\ Elements(q) = Elements(Tail(q)) \cup {Head(q)}
           /\ Increasing(q) => Increasing(Tail(q)) /\ Below({Head(q)}, Elements(Tail(q)))
<1> DEFINE p == Tail(q)
<1>1. /\ p \in Seq(Nat) /\ Len(p) = Len(q) - 1 /\ Len(q) \in Nat \ {0} /\ Head(q) = q[1] /\ q[1] \in Nat
      /\ \A i \in 1..Len(p) : p[i] = q[i + 1]
    OBVIOUS
<1> HIDE DEF p
<1>2. Elements(q) = Elements(p) \cup {q[1]}
    <2>1. \A i \in 1..Len(q) : i = 1 \/ (i - 1 \in 1..Len(p) /\ p[i - 1] = q[i])
        BY <1>1
    <2>2. 1 \in 1..Len(q) /\ \A i \in 1..Len(p) : i + 1 \in 1..Len(q)
        BY <1>1
    <2>3. ASSUME NEW i \in 1..Len(q)
          PROVE  q[i] \in Elements(p) \cup {q[1]}
        BY <2>1 DEF Elements
    <2>4. ASSUME NEW i \in 1..Len(p)
          PROVE  p[i] \in Elements(q)
        BY <1>1, <2>2 DEF Elements
    <2>5. q[1] \in Elements(q)
        BY <2>2 DEF Elements
    <2> QED
        BY <2>3, <2>4, <2>5 DEF Elements
<1>3. ASSUME Increasing(q)
      PROVE  Increasing(p) /\ Below({q[1]}, Elements(p))
    <2>1. \A i \in 1..Len(p) : i + 1 \in 1..Len(q) /\ 1 < i + 1
        BY <1>1
    <2>2. 1 \in 1..Len(q)
        BY <1>1
    <2>3. Below({q[1]}, Elements(p))
        BY <1>1, <1>3, <2>1, <2>2 DEF Increasing, Below, Elements
    <2>4. Increasing(p)
        <3> SUFFICES ASSUME NEW i \in 1..Len(p), NEW j \in 1..Len(p), i < j
                     PROVE  p[i] < p[j]
            BY DEF Increasing
        <3>1. i + 1 < j + 1 /\ i + 1 \in 1..Len(q) /\ j + 1 \in 1..Len(q)
            BY <2>1
        <3>2. q[i + 1] < q[j + 1]
            BY <1>3, <3>1 DEF Increasing
        <3> QED
            BY <1>1, <3>2
    <2> QED
        BY <2>3, <2>4
<1> QED
    BY <1>1, <1>2, <1>3 DEF p

\* A transaction's rows come after those that are in the database.
LEMMA JoinRows ==
    ASSUME NEW p \in Seq(Nat), NEW q \in Seq(Nat)
    PROVE  /\ p \o q \in Seq(Nat) /\ Len(p \o q) = Len(p) + Len(q)
           /\ Elements(p \o q) = Elements(p) \cup Elements(q)
           /\ Increasing(p) /\ Increasing(q) /\ Below(Elements(p), Elements(q)) => Increasing(p \o q)
<1> DEFINE r == p \o q
<1>1. /\ r \in Seq(Nat) /\ Len(r) = Len(p) + Len(q) /\ Len(p) \in Nat /\ Len(q) \in Nat
      /\ \A i \in 1..Len(r) : r[i] = IF i <= Len(p) THEN p[i] ELSE q[i - Len(p)]
    OBVIOUS
<1> HIDE DEF r
<1>2. \A i \in 1..Len(r) : (i \in 1..Len(p) /\ r[i] = p[i]) \/ (i - Len(p) \in 1..Len(q) /\ r[i] = q[i - Len(p)])
    BY <1>1
<1>3. /\ \A i \in 1..Len(p) : i \in 1..Len(r) /\ r[i] = p[i]
      /\ \A i \in 1..Len(q) : i + Len(p) \in 1..Len(r) /\ r[i + Len(p)] = q[i]
    <2>1. ASSUME NEW i \in 1..Len(p)
          PROVE  i \in 1..Len(r) /\ r[i] = p[i]
        <3>1. Len(p) \in Nat /\ Len(q) \in Nat /\ Len(r) = Len(p) + Len(q) /\ i \in Nat /\ i <= Len(p)
            BY <1>1
        <3>2. i \in 1..Len(r)
            BY <3>1
        <3> QED
            BY <1>1, <3>1, <3>2
    <2>2. ASSUME NEW i \in 1..Len(q)
          PROVE  i + Len(p) \in 1..Len(r) /\ ~(i + Len(p) <= Len(p)) /\ i + Len(p) - Len(p) = i
        <3>1. Len(p) \in Nat /\ Len(q) \in Nat /\ Len(r) = Len(p) + Len(q) /\ i \in Nat
            BY <1>1
        <3> QED
            BY <3>1
    <2>3. \A i \in 1..Len(q) : r[i + Len(p)] = q[i]
        BY <1>1, <2>2
    <2> QED
        BY <2>1, <2>2, <2>3
<1>4. Elements(r) = Elements(p) \cup Elements(q)
    <2>1. ASSUME NEW i \in 1..Len(r)
          PROVE  r[i] \in Elements(p) \cup Elements(q)
        BY <1>2 DEF Elements
    <2>2. ASSUME NEW i \in 1..Len(p)
          PROVE  p[i] \in Elements(r)
        BY <1>3 DEF Elements
    <2>3. ASSUME NEW i \in 1..Len(q)
          PROVE  q[i] \in Elements(r)
        BY <1>3 DEF Elements
    <2> QED
        BY <2>1, <2>2, <2>3 DEF Elements
<1>5. ASSUME Increasing(p), Increasing(q), Below(Elements(p), Elements(q))
      PROVE  Increasing(r)
    <2> SUFFICES ASSUME NEW i \in 1..Len(r), NEW j \in 1..Len(r), i < j
                 PROVE  r[i] < r[j]
        BY DEF Increasing
    <2>1. CASE i \in 1..Len(p) /\ j \in 1..Len(p)
        BY <1>3, <1>5, <2>1 DEF Increasing
    <2>2. CASE i \in 1..Len(p) /\ j - Len(p) \in 1..Len(q)
        <3>1. p[i] < q[j - Len(p)]
            BY <1>5, <2>2 DEF Below, Elements
        <3>2. r[i] = p[i] /\ r[j] = q[j - Len(p)]
            BY <1>1, <2>2
        <3> QED
            BY <3>1, <3>2
    <2>3. CASE i - Len(p) \in 1..Len(q) /\ j - Len(p) \in 1..Len(q)
        <3>1. q[i - Len(p)] < q[j - Len(p)]
            <4>1. i - Len(p) < j - Len(p)
                BY <1>1
            <4> QED
                BY <1>5, <2>3, <4>1 DEF Increasing
        <3>2. r[i] = q[i - Len(p)] /\ r[j] = q[j - Len(p)]
            BY <1>1, <2>3
        <3> QED
            BY <3>1, <3>2
    <2> QED
        BY <1>1, <2>1, <2>2, <2>3
<1> QED
    BY <1>1, <1>4, <1>5 DEF r

\* A batch is full exactly when it has commitBatchSize rows.
LEMMA FullAtSize ==
    ASSUME NEW n \in 1..CommitBatchSize
    PROVE  FullBatch(n) <=> n = CommitBatchSize
<1>1. CommitBatchSize \in Nat \ {0}
    BY ImporterAssumption
<1>2. ASSUME n < CommitBatchSize PROVE n % CommitBatchSize = n
    BY <1>1, <1>2
<1>3. CommitBatchSize % CommitBatchSize = 0
    BY <1>1
<1> QED
    BY <1>1, <1>2, <1>3 DEF FullBatch

-----------------------------------------------------------------------------
(* Types, and that there is a session for every request that makes one.    *)

Busy == {r \in Requests : request[r] \in {"check", "set", "log"}}
RoomInv == Cardinality(Busy) <= Cardinality(Unborn)
Typed == SharedTyped /\ SessionsTyped

\* Requests and sessions are finitely many.
LEMMA FiniteRoom ==
    /\ IsFiniteSet(Busy) /\ Cardinality(Busy) \in Nat
    /\ IsFiniteSet(Unborn) /\ Cardinality(Unborn) \in Nat
<1>1. Busy \subseteq Requests /\ Unborn \subseteq Sessions
    BY DEF Busy, Unborn
<1> QED
    BY <1>1, ImporterAssumption, FS_Subset, FS_CardinalityType

\* A session is made from one that is free, while a request holds a place for it.
LEMMA RoomForOne ==
    ASSUME RoomInv, NEW r \in Busy
    PROVE  /\ (CHOOSE new \in Unborn : TRUE) \in Unborn
           /\ Cardinality(Busy \ {r}) = Cardinality(Busy) - 1
           /\ \A s \in Unborn : Cardinality(Unborn \ {s}) = Cardinality(Unborn) - 1
<1>1. Cardinality(Busy \ {r}) = Cardinality(Busy) - 1 /\ Cardinality(Busy \ {r}) \in Nat
    BY FiniteRoom, FS_RemoveElement, FS_CardinalityType
<1>2. Cardinality(Unborn) # 0
    BY <1>1, FiniteRoom DEF RoomInv
<1>3. Unborn # {}
    BY <1>2, FS_EmptySet
<1> QED
    BY <1>1, <1>3, FiniteRoom, FS_RemoveElement

\* Requests that end or go on, and sessions that were started, take no room.
LEMMA RoomKept ==
    ASSUME RoomInv, Busy' \subseteq Busy, Unborn' = Unborn
    PROVE  RoomInv'
<1>1. Cardinality(Busy') <= Cardinality(Busy) /\ Cardinality(Busy') \in Nat
    BY FiniteRoom, FS_Subset, FS_CardinalityType
<1> QED
    BY <1>1, FiniteRoom DEF RoomInv

\* Requests other than those that start a session.
LEMMA RequestsTyped ==
    ASSUME Typed, RoomInv, NEW r \in Requests,
           \/ \E f \in Files : Upload(r, f)
           \/ NewSessionCheck(r) \/ NewSessionSet(r) \/ StopRequest(r) \/ StopImport(r)
    PROVE  Typed' /\ RoomInv' /\ UNCHANGED <<loading, queue, committing>>
<1>1. UNCHANGED <<loading, queue, committing>>
    BY DEF Upload, NewSessionCheck, NewSessionSet, StopRequest, StopImport, StopReset, StopSignal, StopStatus
<1>2. SessionsTyped' /\ Unborn' = Unborn /\ UNCHANGED <<latest, troubled, stopped, faults>>
    <2>1. SessionsTyped' /\ Unborn' = Unborn
        BY <1>1 DEF Typed, SessionsTyped, Unborn, loading, committing
    <2>2. UNCHANGED <<latest, troubled, stopped, faults>>
        BY DEF Upload, NewSessionCheck, NewSessionSet, StopRequest, StopImport, StopReset, StopSignal,
               StopStatus, history
    <2> QED
        BY <2>1, <2>2
<1>3. ASSUME NEW f \in Files, Upload(r, f)
      PROVE  Typed' /\ RoomInv'
    <2>1. f \in FileType
        BY ImporterAssumption DEF FileType
    <2>2. /\ request[r] = "idle" /\ request' = [request EXCEPT ![r] = "check"]
          /\ upload' = [upload EXCEPT ![r] = f] /\ UNCHANGED <<importer, history>>
          /\ Cardinality(Busy) < Cardinality(Unborn)
        BY <1>3 DEF Upload, RequestAt, Busy
    <2>3. SharedTyped'
        BY <2>1, <2>2 DEF Typed, SharedTyped, RequestPcs, importer, history
    <2>4. Busy' = Busy \cup {r} /\ r \notin Busy
        BY <2>2 DEF Typed, SharedTyped, Busy
    <2>5. Cardinality(Busy') = Cardinality(Busy) + 1
        BY <2>4, FiniteRoom, FS_AddElement
    <2> QED
        BY <1>2, <2>2, <2>3, <2>5, FiniteRoom DEF Typed, RoomInv
<1>4. CASE NewSessionCheck(r) \/ NewSessionSet(r)
    <2>1. Busy' \subseteq Busy
        BY <1>4 DEF NewSessionCheck, NewSessionSet, RequestAt, Typed, SharedTyped, Busy
    <2>4. RoomInv'
        BY <1>2, <2>1, RoomKept
    <2>2. CASE NewSessionCheck(r)
        <3>1. PICK to \in RequestPcs, g \in FileType :
                request' = [request EXCEPT ![r] = to] /\ upload' = [upload EXCEPT ![r] = g]
            <4>1. NoFile \in FileType /\ upload[r] \in FileType
                BY DEF NoFile, FileType, Typed, SharedTyped
            <4> QED
                BY <2>2, <4>1 DEF NewSessionCheck, RequestAt, RequestPcs
        <3>2. UNCHANGED <<importer, history>>
            BY <2>2 DEF NewSessionCheck
        <3>3. SharedTyped'
            BY <3>1, <3>2 DEF Typed, SharedTyped, importer, history
        <3> QED
            BY <1>1, <1>2, <2>4, <3>3 DEF Typed
    <2>3. CASE NewSessionSet(r)
        <3>1. LiveSessions \subseteq Sessions
            BY DEF LiveSessions
        <3> QED
            BY <1>2, <2>3, <2>4, <3>1
            DEF NewSessionSet, RequestAt, RequestPcs, Statuses, Typed, SharedTyped
    <2> QED
        BY <1>4, <2>2, <2>3
<1>5. CASE StopRequest(r) \/ StopImport(r)
    <2>1. Busy' \subseteq Busy
        BY <1>5 DEF StopRequest, StopImport, StopReset, StopSignal, StopStatus, RequestAt, Typed, SharedTyped, Busy
    <2>2. SharedTyped'
        <3>1. CASE StopRequest(r)
            <4>1. stops' \in 0..MaxStops
                BY <3>1, ImporterAssumption DEF StopRequest, Typed, SharedTyped
            <4> QED
                BY <3>1, <4>1 DEF StopRequest, RequestAt, RequestPcs, Typed, SharedTyped, importer
        <3>2. CASE StopReset(r)
            <4>1. LiveSessions \subseteq Sessions
                BY DEF LiveSessions
            <4> QED
                BY <3>2, <4>1 DEF StopReset, RequestAt, RequestPcs, Statuses, Typed, SharedTyped
        <3>3. CASE StopSignal(r)
            BY <3>3 DEF StopSignal, RequestAt, RequestPcs, Typed, SharedTyped, history
        <3>4. CASE StopStatus(r)
            BY <3>4 DEF StopStatus, RequestAt, RequestPcs, Statuses, Typed, SharedTyped, history
        <3> QED
            BY <1>5, <3>1, <3>2, <3>3, <3>4 DEF StopImport
    <2>3. RoomInv'
        BY <1>2, <2>1, RoomKept
    <2> QED
        BY <1>1, <1>2, <2>2, <2>3 DEF Typed
<1> QED
    BY <1>1, <1>3, <1>4, <1>5

\* A request starts a session that was not started before, with its file.
LEMMA StartTyped ==
    ASSUME Typed, RoomInv, NEW r \in Requests, NewSessionStart(r)
    PROVE  /\ Typed' /\ RoomInv'
           /\ \/ UNCHANGED <<loading, committing, latest, disturbed>>
              \/ \E s \in Unborn, to \in {"zip", "start"}, f \in FileType :
                   /\ file' = [file EXCEPT ![s] = f] /\ loader' = [loader EXCEPT ![s] = to]
                   /\ committer' = [committer EXCEPT ![s] = "take"] /\ latest' = s
                   /\ (disturbed' = disturbed /\ LiveSessions = {} /\ status = "importing" /\ imported = 0) \/ s \in disturbed'
                   /\ UNCHANGED <<pos, closed, tx, torn, committed>>
<1>1. /\ request[r] = "log" /\ request' = [request EXCEPT ![r] = "idle"] /\ upload' = [upload EXCEPT ![r] = NoFile]
      /\ UNCHANGED <<importer, pos, closed, queue, tx, torn, committed, troubled, stopped, stops, faults>>
    BY DEF NewSessionStart, RequestAt
<1>2. NoFile \in FileType /\ upload[r] \in FileType /\ LiveSessions \subseteq Sessions
    BY DEF NoFile, FileType, Typed, SharedTyped, LiveSessions
<1>3. r \in Busy /\ Busy' = Busy \ {r}
    BY <1>1 DEF Busy, Typed, SharedTyped
<1>4. CASE ~hasLog
    <2>1. UNCHANGED <<file, loader, committer, latest, disturbed>>
        BY <1>4 DEF NewSessionStart
    <2>2. Unborn' = Unborn
        BY <2>1 DEF Unborn
    <2>3. SharedTyped'
        BY <1>1, <1>2, <2>1 DEF Typed, SharedTyped, RequestPcs, importer
    <2>4. SessionsTyped'
        BY <1>1, <2>1 DEF Typed, SessionsTyped
    <2> QED
        BY <1>1, <1>3, <2>1, <2>2, <2>3, <2>4, RoomKept DEF Typed, loading, committing
<1>5. CASE hasLog
    <2>1. PICK s : s = CHOOSE new \in Unborn : TRUE
        OBVIOUS
    <2>2. s \in Unborn /\ s \in Sessions
        BY <1>3, <2>1, RoomForOne DEF Unborn
    <2>3. PICK to \in {"zip", "start"} : to = IF upload[r].zip THEN "zip" ELSE "start"
        OBVIOUS
    <2>4. /\ file' = [file EXCEPT ![s] = upload[r]] /\ loader' = [loader EXCEPT ![s] = to]
          /\ committer' = [committer EXCEPT ![s] = "take"] /\ latest' = s
          /\ disturbed' = IF LiveSessions = {} /\ status = "importing" /\ imported = 0 THEN disturbed
                          ELSE disturbed \cup LiveSessions \cup {s}
        BY <1>5, <2>1, <2>3 DEF NewSessionStart
    <2>5. Unborn' = Unborn \ {s}
        BY <2>2, <2>4 DEF Unborn, Typed, SessionsTyped
    <2>6. RoomInv'
        BY <1>3, <2>2, <2>5, RoomForOne, FiniteRoom DEF RoomInv
    <2>7. SharedTyped'
        BY <1>1, <1>2, <2>2, <2>4 DEF Typed, SharedTyped, RequestPcs, importer
    <2>8. SessionsTyped'
        BY <1>1, <1>2, <2>2, <2>4 DEF Typed, SessionsTyped, LoaderPcs, CommitterPcs
    <2> QED
        BY <1>1, <1>2, <2>2, <2>4, <2>6, <2>7, <2>8 DEF Typed
<1> QED
    BY <1>4, <1>5

-----------------------------------------------------------------------------
(* The steps of a session.                                                 *)

\* What a step leaves as it was of session t.
Same(t) ==
    /\ file'[t] = file[t] /\ loader'[t] = loader[t] /\ pos'[t] = pos[t] /\ closed'[t] = closed[t]
    /\ queue'[t] = queue[t] /\ committer'[t] = committer[t] /\ tx'[t] = tx[t] /\ torn'[t] = torn[t]
    /\ committed'[t] = committed[t]
    /\ (t \in troubled' <=> t \in troubled) /\ (t \in stopped' <=> t \in stopped)
Others(s) == \A t \in Sessions \ {s} : Same(t)

\* A session goes on as it was while others move.
LEMMA SameSession ==
    ASSUME NEW t \in Sessions, Session(t), Same(t)
    PROVE  Session(t)'
<1>1. Passed(t)' = Passed(t) /\ Sent(t)' = Sent(t) /\ (Counting(t)' <=> Counting(t))
    BY DEF Same, Passed, Sent, Counting
<1>2. Started(t)' /\ Batched(t)'
    BY DEF Session, Same, Started, Batched
<1>3. Ordered(t)'
    BY <1>1 DEF Session, Same, Ordered
<1>4. Complete(t)'
    BY <1>1 DEF Session, Same, Complete
<1> QED
    BY <1>2, <1>3, <1>4 DEF Session

\* The loader moves without reading or sending a row.
LEMMA LoaderMoves ==
    ASSUME Typed, NEW s \in Sessions, Session(s), NEW to \in {"start", "fail", "open", "loop", "read", "away", "gone"},
           loader[s] \notin {"unborn", "send", "away", "gone"}, loader' = [loader EXCEPT ![s] = to],
           UNCHANGED <<file, pos, queue, committing>>,
           closed' = closed \/ (to = "gone" /\ closed' = [closed EXCEPT ![s] = TRUE]),
           troubled' \in {troubled, troubled \cup {s}}, stopped' \in {stopped, stopped \cup {s}},
           to = "fail" => s \in troubled',
           to = "gone" => s \in troubled' \cup stopped' \/ pos[s] = Len(file[s].rows)
    PROVE  SessionsTyped' /\ Session(s)' /\ Others(s) /\ Unborn' = Unborn
<1>1. UNCHANGED <<file, pos, queue, committer, tx, torn, committed>>
    BY DEF committing
<1>2. loader'[s] = to /\ \A t \in Sessions \ {s} : loader'[t] = loader[t]
    BY DEF Typed, SessionsTyped
<1>3. closed'[s] => closed[s] \/ to = "gone"
    BY DEF Typed, SessionsTyped
<1>4. SessionsTyped'
    BY <1>1 DEF Typed, SessionsTyped, LoaderPcs
<1>5. Others(s) /\ Unborn' = Unborn
    BY <1>1, <1>2 DEF Others, Same, Unborn, Typed, SessionsTyped
<1>6. Passed(s)' = Passed(s) /\ Sent(s)' = Sent(s) /\ (Counting(s)' <=> Counting(s))
    BY <1>1, <1>2 DEF Passed, Sent, Counting
<1>7. Started(s)'
    BY <1>1, <1>2, <1>3 DEF Session, Started
<1>8. Batched(s)'
    BY <1>1 DEF Session, Batched
<1>9. Ordered(s)'
    BY <1>1, <1>2, <1>6 DEF Session, Ordered
<1>10. Complete(s)'
    BY <1>1, <1>2, <1>6 DEF Session, Complete
<1> QED
    BY <1>4, <1>5, <1>7, <1>8, <1>9, <1>10 DEF Session

\* The steps of the loader up to the rows, its looks at the stop channel and its end.
LEMMA LoaderSteps ==
    ASSUME Typed, NEW s \in Sessions, Session(s),
           ExtractZIP(s) \/ LoadStart(s) \/ LoadOpen(s) \/ LoadLoop(s) \/ LoadEOF(s) \/ LoadFail(s)
    PROVE  Typed' /\ Session(s)' /\ Others(s) /\ Unborn' = Unborn
<1>1. /\ \E to \in {"start", "fail", "open", "loop", "read", "away", "gone"} :
           /\ loader[s] \notin {"unborn", "send", "away", "gone"} /\ loader' = [loader EXCEPT ![s] = to]
           /\ closed' = closed \/ (to = "gone" /\ closed' = [closed EXCEPT ![s] = TRUE])
           /\ to = "fail" => s \in troubled'
           /\ to = "gone" => s \in troubled' \cup stopped' \/ pos[s] = Len(file[s].rows)
      /\ UNCHANGED <<file, pos, queue, committing>>
      /\ troubled' \in {troubled, troubled \cup {s}} /\ stopped' \in {stopped, stopped \cup {s}}
    <2>1. CASE ExtractZIP(s)
        BY <2>1 DEF ExtractZIP, LoaderAt
    <2>2. CASE LoadStart(s)
        BY <2>2 DEF LoadStart, LoaderAt, history
    <2>3. CASE LoadOpen(s)
        BY <2>3 DEF LoadOpen, LoaderAt
    <2>4. CASE LoadLoop(s)
        BY <2>4 DEF LoadLoop, LoaderAt, Quit, Close
    <2>5. CASE LoadEOF(s)
        BY <2>5 DEF LoadEOF, LoaderAt, Close, history
    <2>6. CASE LoadFail(s)
        BY <2>6 DEF LoadFail, LoaderAt, history, Session, Complete
    <2> QED
        BY <2>1, <2>2, <2>3, <2>4, <2>5, <2>6
<1>2. SessionsTyped' /\ Session(s)' /\ Others(s) /\ Unborn' = Unborn
    BY <1>1, LoaderMoves
<1>3. SharedTyped'
    <2>1. CASE ExtractZIP(s) \/ LoadStart(s) \/ LoadOpen(s)
        BY <2>1 DEF ExtractZIP, LoadStart, LoadOpen, Typed, SharedTyped, importer, requests, history
    <2>2. CASE LoadLoop(s)
        BY <2>2 DEF LoadLoop, SignalTaken, Typed, SharedTyped, requests
    <2>3. CASE LoadEOF(s)
        BY <2>3 DEF LoadEOF, Typed, SharedTyped, importer, requests, history
    <2>4. CASE LoadFail(s)
        BY <2>4 DEF LoadFail, SetFailed, Statuses, Typed, SharedTyped, requests, history
    <2> QED
        BY <2>1, <2>2, <2>3, <2>4
<1> QED
    BY <1>2, <1>3 DEF Typed

\* A row is read: a valid one is to be sent, one that is skipped is done with.
LEMMA LoadRowStep ==
    ASSUME Typed, NEW s \in Sessions, Session(s), LoadRow(s)
    PROVE  Typed' /\ Session(s)' /\ Others(s) /\ Unborn' = Unborn
<1>1. PICK kind \in RowKinds : kind = file[s].rows[pos[s] + 1]
    BY DEF LoadRow, Typed, SessionsTyped, FileType
<1>2. PICK to \in {"send", "loop", "fail"} :
        /\ to = CASE kind = "row" -> "send" [] kind = "skip" -> "loop" [] OTHER -> "fail"
        /\ loader' = [loader EXCEPT ![s] = to]
    BY <1>1 DEF LoadRow, LoaderAt
<1>3. /\ loader[s] = "read" /\ pos[s] < Len(file[s].rows) /\ pos' = [pos EXCEPT ![s] = @ + 1]
      /\ troubled' = IF kind = "bad" THEN troubled \cup {s} ELSE troubled
      /\ UNCHANGED <<file, closed, queue, committer, tx, torn, committed, stopped>>
      /\ UNCHANGED <<importer, requests, latest, disturbed, stops, faults>>
    BY <1>1 DEF LoadRow, LoaderAt, committing
<1>4. SessionsTyped'
    BY <1>2, <1>3 DEF Typed, SessionsTyped, LoaderPcs
<1>5. SharedTyped'
    BY <1>3 DEF Typed, SharedTyped, importer, requests
<1>6. Others(s) /\ Unborn' = Unborn
    BY <1>2, <1>3 DEF Others, Same, Unborn, Typed, SessionsTyped
<1>7. loader'[s] = to /\ pos'[s] = pos[s] + 1 /\ pos[s] \in Nat
    BY <1>2, <1>3 DEF Typed, SessionsTyped
<1>8. Passed(s) = pos[s] /\ Passed(s)' = IF to = "send" THEN pos[s] ELSE pos[s] + 1
    BY <1>3, <1>7 DEF Passed
<1>9. to = "send" <=> kind = "row"
    BY <1>2
<1>10. Sent(s)' = Sent(s)
    <2>1. CASE to = "send"
        BY <1>3, <1>8, <2>1 DEF Sent
    <2>2. CASE to # "send"
        <3>1. file[s].rows[pos[s] + 1] # "row"
            BY <1>1, <1>9, <2>2
        <3>2. \A n \in 1..(pos[s] + 1) : n \in 1..pos[s] \/ n = pos[s] + 1
            BY <1>7
        <3>3. \A n \in 1..pos[s] : n \in 1..(pos[s] + 1)
            BY <1>7
        <3> QED
            BY <1>3, <1>8, <2>2, <3>1, <3>2, <3>3 DEF Sent
    <2> QED
        BY <2>1, <2>2
<1>11. Counting(s)' <=> Counting(s)
    BY <1>3 DEF Counting
<1>12. Started(s)'
    BY <1>3, <1>7 DEF Session, Started
<1>13. Batched(s)'
    BY <1>3 DEF Session, Batched
<1>14. Ordered(s)'
    <2>1. pos'[s] <= Len(file'[s].rows)
        BY <1>3, <1>7 DEF Typed, SessionsTyped, FileType
    <2>2. loader'[s] = "send" => pos'[s] > 0 /\ file'[s].rows[pos'[s]] = "row"
        BY <1>1, <1>3, <1>7, <1>9
    <2> QED
        BY <1>3, <1>10, <1>11, <2>1, <2>2 DEF Session, Ordered
<1>15. Complete(s)'
    <2>1. to = "fail" => s \in troubled'
        BY <1>1, <1>2, <1>3 DEF RowKinds
    <2> QED
        BY <1>3, <1>7, <1>10, <1>11, <2>1 DEF Session, Complete
<1> QED
    BY <1>4, <1>5, <1>6, <1>12, <1>13, <1>14, <1>15 DEF Typed, Session

\* The row is sent: it comes after all that were.
LEMMA LoadSendStep ==
    ASSUME Typed, NEW s \in Sessions, Session(s), LoadSend(s)
    PROVE  Typed' /\ Session(s)' /\ Others(s) /\ Unborn' = Unborn
<1>1. /\ loader[s] = "send" /\ loader' = [loader EXCEPT ![s] = "loop"] /\ Len(queue[s]) < CommitBatchSize
      /\ queue' = [queue EXCEPT ![s] = Append(@, pos[s])]
      /\ UNCHANGED <<file, pos, closed, committer, tx, torn, committed, troubled, stopped>>
      /\ UNCHANGED <<importer, requests, latest, disturbed, stops, faults>>
    BY DEF LoadSend, LoaderAt, committing, history
<1>2. pos[s] \in Nat /\ pos[s] > 0 /\ file[s].rows[pos[s]] = "row" /\ queue[s] \in Seq(Nat)
    BY <1>1 DEF Typed, SessionsTyped, Session, Ordered
<1>3. PICK q \in Seq(Nat) : q = Append(queue[s], pos[s])
    BY <1>2, AppendRow
<1>4. queue'[s] = q /\ loader'[s] = "loop" /\ queue' = [queue EXCEPT ![s] = q]
    BY <1>1, <1>3 DEF Typed, SessionsTyped
<1>5. Typed'
    BY <1>1, <1>4 DEF Typed, SessionsTyped, SharedTyped, LoaderPcs, importer, requests
<1>6. Others(s) /\ Unborn' = Unborn
    BY <1>1, <1>4 DEF Others, Same, Unborn, Typed, SessionsTyped
<1>7. Passed(s) = pos[s] - 1 /\ Passed(s)' = pos[s]
    BY <1>1, <1>4 DEF Passed
<1>8. Sent(s)' = Sent(s) \cup {pos[s]} /\ Below(Sent(s), {pos[s]})
    <2>1. \A n \in 1..pos[s] : n \in 1..(pos[s] - 1) \/ n = pos[s]
        BY <1>2
    <2>2. pos[s] \in 1..pos[s] /\ \A n \in 1..(pos[s] - 1) : n \in 1..pos[s] /\ n < pos[s]
        BY <1>2
    <2> QED
        BY <1>1, <1>2, <1>7, <2>1, <2>2 DEF Sent, Below
<1>9. Below(Elements(queue[s]), {pos[s]}) /\ Below(Elements(tx[s]), {pos[s]}) /\ Below(Elements(committed[s]), {pos[s]})
    BY <1>8 DEF Session, Ordered, Below
<1>10. Elements(q) = Elements(queue[s]) \cup {pos[s]} /\ Increasing(q) /\ Len(q) = Len(queue[s]) + 1
    BY <1>2, <1>3, <1>9, AppendRow DEF Session, Ordered
<1>11. Counting(s)' <=> Counting(s)
    BY <1>1 DEF Counting
<1>12. Started(s)'
    BY <1>1, <1>4 DEF Session, Started
<1>13. Batched(s)'
    <2>1. Len(q) <= CommitBatchSize
        BY <1>1, <1>2, <1>10, ImporterAssumption
    <2> QED
        BY <1>1, <1>4, <2>1 DEF Session, Batched
<1>14. Ordered(s)'
    <2>1. Below(Elements(tx[s]), Elements(q)) /\ Below(Elements(committed[s]), Elements(q))
        BY <1>9, <1>10 DEF Session, Ordered, Below
    <2>2. Elements(q) \cup Elements(tx[s]) \cup Elements(committed[s]) \subseteq Sent(s)'
        BY <1>8, <1>10 DEF Session, Ordered
    <2> QED
        BY <1>1, <1>4, <1>10, <1>11, <2>1, <2>2 DEF Session, Ordered
<1>15. Complete(s)'
    BY <1>1, <1>4, <1>8, <1>10, <1>11 DEF Session, Complete, Started
<1> QED
    BY <1>5, <1>6, <1>12, <1>13, <1>14, <1>15 DEF Session

\* Errors are counted, and trouble their session.
LEMMA FaultTyped ==
    ASSUME Typed, NEW s \in Sessions, Fault(s) \/ NoFault
    PROVE  /\ faults' \in 0..MaxFaults /\ troubled' \subseteq Sessions
           /\ troubled' \in {troubled, troubled \cup {s}} /\ (Fault(s) => s \in troubled')
<1>1. MaxFaults \in Nat /\ faults \in 0..MaxFaults /\ troubled \subseteq Sessions
    BY ImporterAssumption DEF Typed, SharedTyped
<1> QED
    BY <1>1 DEF Fault, NoFault

\* A row goes from the queue to the transaction.
LEMMA InsertStep ==
    ASSUME Typed, NEW s \in Sessions, Session(s), Insert(s)
    PROVE  Typed' /\ Session(s)' /\ Others(s) /\ Unborn' = Unborn
<1>1. queue[s] \in Seq(Nat) /\ tx[s] \in Seq(Nat) /\ queue[s] # <<>> /\ committer[s] = "take"
    BY DEF Insert, CommitterAt, Typed, SessionsTyped
<1>2. PICK n \in Nat, q \in Seq(Nat) : n = Head(queue[s]) /\ q = Tail(queue[s])
    BY <1>1, TakeRow
<1>3. PICK p \in Seq(Nat) : p = Append(tx[s], n)
    BY <1>1, AppendRow
<1>4. tx' = [tx EXCEPT ![s] = p] /\ tx'[s] = p
    BY <1>2, <1>3 DEF Insert, Typed, SessionsTyped
<1>5. PICK to \in {"take", "commit"} : to = IF FullBatch(Len(p)) THEN "commit" ELSE "take"
    OBVIOUS
<1>6. /\ committer' = [committer EXCEPT ![s] = to] /\ queue' = [queue EXCEPT ![s] = q]
      /\ UNCHANGED <<file, loader, pos, closed, torn, committed, troubled, stopped>>
      /\ UNCHANGED <<importer, requests, latest, disturbed, stops, faults>>
    BY <1>2, <1>4, <1>5 DEF Insert, CommitterAt, loading, history
<1>7. Typed'
    BY <1>4, <1>6 DEF Typed, SessionsTyped, SharedTyped, CommitterPcs, importer, requests
<1>8. queue'[s] = q /\ committer'[s] = to
    BY <1>6 DEF Typed, SessionsTyped
<1>9. Others(s) /\ Unborn' = Unborn
    BY <1>1, <1>4, <1>6 DEF Others, Same, Unborn, Typed, SessionsTyped
<1>10. Passed(s)' = Passed(s) /\ Sent(s)' = Sent(s) /\ ~Counting(s) /\ ~Counting(s)'
    BY <1>1, <1>6, <1>8 DEF Passed, Sent, Counting
<1>11. /\ Elements(queue[s]) = Elements(q) \cup {n} /\ Increasing(q) /\ Below({n}, Elements(q))
       /\ Len(q) = Len(queue[s]) - 1 /\ Len(queue[s]) \in Nat
    <2>1. Increasing(queue[s])
        BY DEF Session, Ordered
    <2>2. /\ Len(Tail(queue[s])) = Len(queue[s]) - 1
          /\ Elements(queue[s]) = Elements(Tail(queue[s])) \cup {Head(queue[s])}
          /\ Increasing(Tail(queue[s])) /\ Below({Head(queue[s])}, Elements(Tail(queue[s])))
        BY <1>1, <2>1, TakeRow, Zenon
    <2>3. Len(queue[s]) \in Nat
        BY <1>1
    <2> QED
        BY <1>2, <2>2, <2>3, Zenon
<1>12. Below(Elements(tx[s]), {n}) /\ Below(Elements(committed[s]), {n})
    BY <1>11 DEF Session, Ordered, Below
<1>13. Elements(p) = Elements(tx[s]) \cup {n} /\ Increasing(p) /\ Len(p) = Len(tx[s]) + 1
    BY <1>1, <1>3, <1>12, AppendRow DEF Session, Ordered
<1>14. Started(s)'
    BY <1>1, <1>6, <1>8 DEF Session, Started
<1>15. Batched(s)'
    <2>1. CommitBatchSize \in Nat \ {0} /\ Len(tx[s]) \in Nat /\ Len(tx[s]) < CommitBatchSize
        BY <1>1, ImporterAssumption DEF Session, Batched
    <2>2. Len(p) \in 1..CommitBatchSize
        BY <1>13, <2>1
    <2>3. to = "take" => Len(p) < CommitBatchSize
        <3>1. FullBatch(Len(p)) <=> Len(p) = CommitBatchSize
            BY <2>2, FullAtSize
        <3>2. to = "take" => ~FullBatch(Len(p))
            BY <1>5
        <3>3. Len(p) \in Nat /\ Len(p) <= CommitBatchSize
            BY <2>1, <2>2
        <3> QED
            BY <2>1, <3>1, <3>2, <3>3
    <2>4. Len(q) <= CommitBatchSize
        BY <1>11, <2>1 DEF Session, Batched
    <2> QED
        BY <1>1, <1>4, <1>6, <1>8, <2>2, <2>3, <2>4 DEF Session, Batched
<1>16. Ordered(s)'
    <2>1. /\ Below(Elements(p), Elements(q)) /\ Below(Elements(committed[s]), Elements(q))
          /\ Below(Elements(committed[s]), Elements(p))
        BY <1>10, <1>11, <1>12, <1>13 DEF Session, Ordered, Below
    <2>2. Elements(q) \cup Elements(p) \cup Elements(committed[s]) \subseteq Sent(s)
        BY <1>11, <1>13 DEF Session, Ordered
    <2> QED
        BY <1>4, <1>6, <1>8, <1>10, <1>11, <1>13, <2>1, <2>2 DEF Session, Ordered
<1>17. Complete(s)'
    BY <1>1, <1>4, <1>6, <1>8, <1>10, <1>11, <1>13 DEF Session, Complete
<1> QED
    BY <1>7, <1>9, <1>14, <1>15, <1>16, <1>17 DEF Session

\* A row is lost to an error, and the session troubled.
LEMMA RowFailsStep ==
    ASSUME Typed, NEW s \in Sessions, Session(s), BeginFails(s) \/ InsertFails(s)
    PROVE  Typed' /\ Session(s)' /\ Others(s) /\ Unborn' = Unborn
<1>1. queue[s] \in Seq(Nat) /\ queue[s] # <<>> /\ committer[s] = "take" /\ Fault(s)
    BY DEF BeginFails, InsertFails, CommitterAt, Typed, SessionsTyped
<1>2. PICK n \in Nat, q \in Seq(Nat) : n = Head(queue[s]) /\ q = Tail(queue[s])
    BY <1>1, TakeRow
<1>3. PICK to \in {"take", "last", "finish"} :
        /\ committer' = [committer EXCEPT ![s] = to]
        /\ to = "take" => torn' = torn
        /\ to # "take" => torn' = [torn EXCEPT ![s] = TRUE] /\ (to = "finish" => tx[s] = <<>>)
    BY DEF BeginFails, InsertFails, CommitterAt, AfterLoop
<1>4. /\ queue' = [queue EXCEPT ![s] = q]
      /\ UNCHANGED <<file, loader, pos, closed, tx, committed, stopped>>
      /\ UNCHANGED <<importer, requests, latest, disturbed, stops>>
    BY <1>2 DEF BeginFails, InsertFails, loading
<1>5. SessionsTyped'
    BY <1>3, <1>4 DEF Typed, SessionsTyped, CommitterPcs
<1>6. SharedTyped'
    BY <1>1, <1>4, FaultTyped DEF Typed, SharedTyped, importer, requests
<1>7. s \in troubled' /\ troubled' = troubled \cup {s}
    BY <1>1 DEF Fault
<1>8. queue'[s] = q /\ committer'[s] = to
    BY <1>3, <1>4 DEF Typed, SessionsTyped
<1>9. Others(s) /\ Unborn' = Unborn
    BY <1>1, <1>3, <1>4, <1>7 DEF Others, Same, Unborn, Typed, SessionsTyped
<1>10. Passed(s)' = Passed(s) /\ Sent(s)' = Sent(s) /\ ~Counting(s)
    BY <1>1, <1>4 DEF Passed, Sent, Counting
<1>11. /\ Elements(queue[s]) = Elements(q) \cup {n} /\ Increasing(q)
       /\ Len(q) = Len(queue[s]) - 1 /\ Len(queue[s]) \in Nat
    <2>1. Increasing(queue[s])
        BY DEF Session, Ordered
    <2>2. /\ Len(Tail(queue[s])) = Len(queue[s]) - 1
          /\ Elements(queue[s]) = Elements(Tail(queue[s])) \cup {Head(queue[s])}
          /\ Increasing(Tail(queue[s])) /\ Below({Head(queue[s])}, Elements(Tail(queue[s])))
        BY <1>1, <2>1, TakeRow, Zenon
    <2>3. Len(queue[s]) \in Nat
        BY <1>1
    <2> QED
        BY <1>2, <2>2, <2>3, Zenon
<1>12. Started(s)'
    BY <1>1, <1>4, <1>8 DEF Session, Started
<1>13. Batched(s)'
    <2>1. CommitBatchSize \in Nat
        BY ImporterAssumption
    <2>2. Len(q) <= CommitBatchSize
        BY <1>11, <2>1 DEF Session, Batched
    <2>3. torn'[s] => to \in {"last", "finish"}
        BY <1>1, <1>3 DEF Session, Batched
    <2> QED
        BY <1>1, <1>3, <1>4, <1>7, <1>8, <2>2, <2>3 DEF Session, Batched
<1>14. Ordered(s)'
    <2>1. /\ Below(Elements(tx[s]), Elements(q)) /\ Below(Elements(committed[s]), Elements(q))
          /\ Below(Elements(committed[s]), Elements(tx[s]))
        BY <1>10, <1>11 DEF Session, Ordered, Below
    <2>2. Elements(q) \cup Elements(tx[s]) \cup Elements(committed[s]) \subseteq Sent(s)
        BY <1>11 DEF Session, Ordered
    <2> QED
        BY <1>4, <1>8, <1>10, <1>11, <2>1, <2>2 DEF Session, Ordered
<1>15. Complete(s)'
    BY <1>7 DEF Complete
<1> QED
    BY <1>5, <1>6, <1>9, <1>12, <1>13, <1>14, <1>15 DEF Session, Typed

\* The queue is empty and closed: what is in the transaction is committed last.
LEMMA QueueClosedStep ==
    ASSUME Typed, NEW s \in Sessions, Session(s), QueueClosed(s)
    PROVE  Typed' /\ Session(s)' /\ Others(s) /\ Unborn' = Unborn
<1>1. PICK to \in {"last", "finish"} : to = AfterLoop(s)
    BY DEF AfterLoop
<1>2. /\ queue[s] = <<>> /\ closed[s] /\ committer[s] = "take" /\ committer' = [committer EXCEPT ![s] = to]
      /\ UNCHANGED <<file, loader, pos, closed, queue, tx, torn, committed, troubled, stopped>>
      /\ UNCHANGED <<importer, requests, latest, disturbed, stops, faults>>
    BY <1>1 DEF QueueClosed, CommitterAt, loading, history
<1>3. Typed'
    BY <1>2 DEF Typed, SessionsTyped, SharedTyped, CommitterPcs, importer, requests
<1>4. committer'[s] = to
    BY <1>2 DEF Typed, SessionsTyped
<1>5. Others(s) /\ Unborn' = Unborn
    BY <1>2 DEF Others, Same, Unborn, Typed, SessionsTyped
<1>6. Passed(s)' = Passed(s) /\ Sent(s)' = Sent(s) /\ ~Counting(s) /\ ~Counting(s)'
    BY <1>2, <1>4 DEF Passed, Sent, Counting
<1>7. Started(s)'
    BY <1>2, <1>4 DEF Session, Started
<1>8. Batched(s)'
    BY <1>1, <1>2, <1>4 DEF Session, Batched, AfterLoop
<1>9. Ordered(s)'
    BY <1>2, <1>6 DEF Session, Ordered
<1>10. Complete(s)'
    BY <1>2, <1>4, <1>6 DEF Session, Complete, Started
<1> QED
    BY <1>3, <1>5, <1>7, <1>8, <1>9, <1>10 DEF Session

\* A transaction is committed as a whole, or its rows are gone and the session is troubled.
LEMMA CommitStep ==
    ASSUME Typed, NEW s \in Sessions, Session(s), Commit(s) \/ LastCommit(s)
    PROVE  Typed' /\ Session(s)' /\ Others(s) /\ Unborn' = Unborn
<1>1. PICK from \in {"commit", "last"} : committer[s] = from /\ CommitTo(s, from,
            IF from = "commit" THEN "count" ELSE "lastCount", IF from = "commit" THEN "take" ELSE "failed")
    BY DEF Commit, LastCommit, CommitTo, CommitterAt
<1>2. /\ UNCHANGED <<file, loader, pos, closed, queue, torn, stopped>>
      /\ UNCHANGED <<importer, requests, latest, disturbed, stops>>
    BY DEF Commit, LastCommit, loading
<1>3. Passed(s)' = Passed(s) /\ Sent(s)' = Sent(s) /\ ~Counting(s)
    BY <1>1, <1>2 DEF Passed, Sent, Counting
<1>4. tx[s] \in Seq(Nat) /\ committed[s] \in Seq(Nat) /\ CommitBatchSize \in Nat \ {0}
    BY ImporterAssumption DEF Typed, SessionsTyped
<1>5. ASSUME NEW to \in {"count", "lastCount"}, from = "last" <=> to = "lastCount", ~torn[s], NoFault,
             committer' = [committer EXCEPT ![s] = to], committed' = [committed EXCEPT ![s] = @ \o tx[s]], UNCHANGED tx
      PROVE  Typed' /\ Session(s)' /\ Others(s) /\ Unborn' = Unborn
    <2>1. PICK c \in Seq(Nat) : c = committed[s] \o tx[s]
        BY <1>4, JoinRows
    <2>2. committed' = [committed EXCEPT ![s] = c] /\ committed'[s] = c /\ committer'[s] = to
        BY <1>5, <2>1 DEF Typed, SessionsTyped
    <2>3. UNCHANGED <<troubled, faults>>
        BY <1>5 DEF NoFault
    <2>4. Typed'
        BY <1>2, <1>5, <2>2, <2>3 DEF Typed, SessionsTyped, SharedTyped, CommitterPcs, importer, requests
    <2>5. Others(s) /\ Unborn' = Unborn
        BY <1>1, <1>2, <1>5, <2>2, <2>3 DEF Others, Same, Unborn, Typed, SessionsTyped
    <2>6. Elements(c) = Elements(committed[s]) \cup Elements(tx[s]) /\ Increasing(c)
        <3>1. Increasing(committed[s]) /\ Increasing(tx[s]) /\ Below(Elements(committed[s]), Elements(tx[s]))
            BY <1>3 DEF Session, Ordered
        <3> QED
            BY <1>4, <2>1, <3>1, JoinRows, Zenon
    <2>7. Counting(s)'
        BY <2>2 DEF Counting
    <2>8. Started(s)'
        BY <1>1, <1>2, <1>5, <2>2 DEF Session, Started
    <2>9. Batched(s)'
        BY <1>2, <1>5, <2>2 DEF Session, Batched
    <2>10. Ordered(s)'
        <3>1. Below(Elements(c), Elements(queue[s]))
            BY <2>6 DEF Session, Ordered, Below
        <3>2. Elements(queue[s]) \cup Elements(tx[s]) \cup Elements(c) \subseteq Sent(s)
            BY <2>6 DEF Session, Ordered
        <3> QED
            BY <1>2, <1>3, <1>5, <2>2, <2>6, <2>7, <3>1, <3>2 DEF Session, Ordered
    <2>11. Complete(s)'
        BY <1>1, <1>2, <1>3, <1>5, <2>2, <2>3, <2>6 DEF Session, Complete
    <2> QED
        BY <2>4, <2>5, <2>8, <2>9, <2>10, <2>11 DEF Session
<1>6. ASSUME NEW to \in {"take", "failed"}, from = "last" <=> to = "failed", Fault(s) \/ (torn[s] /\ NoFault),
             committer' = [committer EXCEPT ![s] = to], tx' = [tx EXCEPT ![s] = <<>>], UNCHANGED committed
      PROVE  Typed' /\ Session(s)' /\ Others(s) /\ Unborn' = Unborn
    <2>1. s \in troubled' /\ troubled' \in {troubled, troubled \cup {s}} /\ troubled' \subseteq Sessions
          /\ faults' \in 0..MaxFaults
        BY <1>6, FaultTyped DEF Session, Batched, NoFault
    <2>2. tx'[s] = <<>> /\ committer'[s] = to
        BY <1>6 DEF Typed, SessionsTyped
    <2>3. <<>> \in Seq(Nat) /\ Len(<<>>) = 0
        OBVIOUS
    <2>4. SessionsTyped'
        BY <1>2, <1>6, <2>3 DEF Typed, SessionsTyped, CommitterPcs
    <2>5. SharedTyped'
        BY <1>2, <2>1 DEF Typed, SharedTyped, importer, requests
    <2>6. Others(s) /\ Unborn' = Unborn
        BY <1>1, <1>2, <1>6, <2>1 DEF Others, Same, Unborn, Typed, SessionsTyped
    <2>7. Elements(tx'[s]) = {} /\ Increasing(tx'[s])
        BY <2>2, <2>3 DEF Elements, Increasing
    <2>8. Started(s)'
        BY <1>1, <1>2, <1>6, <2>2 DEF Session, Started
    <2>9. Batched(s)'
        BY <1>1, <1>2, <1>4, <1>6, <2>1, <2>2, <2>3 DEF Session, Batched
    <2>10. Ordered(s)'
        <3>1. Below(Elements(tx'[s]), Elements(queue[s])) /\ Below(Elements(committed[s]), Elements(tx'[s]))
            BY <2>7 DEF Below
        <3> QED
            BY <1>2, <1>3, <1>6, <2>7, <3>1 DEF Session, Ordered
    <2>11. Complete(s)'
        BY <2>1 DEF Complete
    <2> QED
        BY <2>4, <2>5, <2>6, <2>8, <2>9, <2>10, <2>11 DEF Session, Typed
<1> QED
    BY <1>1, <1>5, <1>6 DEF CommitTo, CommitterAt

\* Rows are counted after they were committed.
LEMMA CountStep ==
    ASSUME Typed, NEW s \in Sessions, Session(s), Count(s)
    PROVE  Typed' /\ Session(s)' /\ Others(s) /\ Unborn' = Unborn
<1>1. PICK to \in {"take", "finish"} :
        /\ committer' = [committer EXCEPT ![s] = to]
        /\ committer[s] = IF to = "take" THEN "count" ELSE "lastCount"
    BY DEF Count, CommitterAt
<1>2. /\ tx' = [tx EXCEPT ![s] = <<>>] /\ imported' = imported + Len(tx[s])
      /\ UNCHANGED <<file, loader, pos, closed, queue, torn, committed, troubled, stopped>>
      /\ UNCHANGED <<status, hasLog, stop, jammed, requests, latest, disturbed, stops, faults>>
    BY DEF Count, CountBatch, loading, history
<1>3. CommitBatchSize \in Nat \ {0} /\ Len(tx[s]) \in Nat
    BY ImporterAssumption DEF Typed, SessionsTyped
<1>4. tx'[s] = <<>> /\ committer'[s] = to /\ <<>> \in Seq(Nat) /\ Len(<<>>) = 0
    BY <1>1, <1>2 DEF Typed, SessionsTyped
<1>5. Typed'
    BY <1>1, <1>2, <1>3, <1>4 DEF Typed, SessionsTyped, SharedTyped, CommitterPcs, requests
<1>6. Others(s) /\ Unborn' = Unborn
    BY <1>1, <1>2 DEF Others, Same, Unborn, Typed, SessionsTyped
<1>7. Passed(s)' = Passed(s) /\ Sent(s)' = Sent(s) /\ Counting(s) /\ ~Counting(s)'
    BY <1>1, <1>2, <1>4 DEF Passed, Sent, Counting
<1>8. Elements(tx'[s]) = {} /\ Increasing(tx'[s])
    BY <1>4 DEF Elements, Increasing
<1>9. Started(s)'
    BY <1>1, <1>2, <1>4 DEF Session, Started
<1>10. Batched(s)'
    BY <1>1, <1>2, <1>3, <1>4 DEF Session, Batched
<1>11. Ordered(s)'
    <2>1. Below(Elements(tx'[s]), Elements(queue[s])) /\ Below(Elements(committed[s]), Elements(tx'[s]))
        BY <1>8 DEF Below
    <2> QED
        BY <1>2, <1>7, <1>8, <2>1 DEF Session, Ordered
<1>12. Complete(s)'
    BY <1>1, <1>2, <1>4, <1>7, <1>8 DEF Session, Complete
<1> QED
    BY <1>5, <1>6, <1>9, <1>10, <1>11, <1>12 DEF Session

\* The outcome is written and the committer ends.
LEMMA FinishStep ==
    ASSUME Typed, NEW s \in Sessions, Session(s), Finish(s)
    PROVE  Typed' /\ Session(s)' /\ Others(s) /\ Unborn' = Unborn
<1>1. /\ committer[s] \in {"finish", "failed"} /\ committer' = [committer EXCEPT ![s] = "gone"]
      /\ status' \in {"finished", "failed"}
      /\ UNCHANGED <<file, loader, pos, closed, queue, tx, torn, committed, troubled, stopped>>
      /\ UNCHANGED <<imported, hasLog, stop, jammed, requests, latest, disturbed, stops, faults>>
    BY DEF Finish, CommitterAt, loading, history
<1>2. committer'[s] = "gone"
    BY <1>1 DEF Typed, SessionsTyped
<1>3. Typed'
    BY <1>1 DEF Typed, SessionsTyped, SharedTyped, CommitterPcs, Statuses, requests
<1>4. Others(s) /\ Unborn' = Unborn
    BY <1>1 DEF Others, Same, Unborn, Typed, SessionsTyped
<1>5. Passed(s)' = Passed(s) /\ Sent(s)' = Sent(s) /\ ~Counting(s) /\ ~Counting(s)'
    BY <1>1, <1>2 DEF Passed, Sent, Counting
<1>6. Started(s)' /\ Batched(s)'
    BY <1>1, <1>2 DEF Session, Started, Batched
<1>7. Ordered(s)'
    BY <1>1, <1>5 DEF Session, Ordered
<1>8. Complete(s)'
    BY <1>1, <1>2, <1>5 DEF Session, Complete
<1> QED
    BY <1>3, <1>4, <1>6, <1>7, <1>8 DEF Session

\* The invariant of the importer, and that every step keeps it.
ImportInv == Typed /\ RoomInv /\ \A s \in Sessions : Session(s)

\* A step of a session's own goroutines keeps the invariant and leaves other sessions alone.
LEMMA SessionMoves ==
    ASSUME ImportInv, NEW s \in Sessions, Load(s) \/ Import(s)
    PROVE  ImportInv' /\ Others(s)
<1>1. Typed' /\ Session(s)' /\ Others(s) /\ Unborn' = Unborn
    <2>1. Typed /\ Session(s)
        BY DEF ImportInv
    <2> QED
        BY <2>1, LoaderSteps, LoadRowStep, LoadSendStep, InsertStep, RowFailsStep, QueueClosedStep, CommitStep,
           CountStep, FinishStep DEF Load, Import
<1>2. \A t \in Sessions : Session(t)'
    BY <1>1, SameSession DEF ImportInv, Others
<1>3. UNCHANGED request
    BY DEF Load, Import, ExtractZIP, LoadStart, LoadOpen, LoadLoop, LoadEOF, LoadRow, LoadSend, LoadFail,
           Insert, BeginFails, InsertFails, QueueClosed, Commit, LastCommit, Count, Finish, requests
<1>4. RoomInv'
    BY <1>1, <1>3, RoomKept DEF ImportInv, Busy
<1> QED
    BY <1>1, <1>2, <1>4 DEF ImportInv

\* A session starts empty, on its file.
LEMMA StartMoves ==
    ASSUME ImportInv, NEW r \in Requests, NewSessionStart(r)
    PROVE  ImportInv'
<1>1. Typed' /\ RoomInv' /\ UNCHANGED <<queue, troubled, stopped>>
    BY StartTyped DEF ImportInv, NewSessionStart
<1>2. CASE UNCHANGED <<loading, committing, latest, disturbed>>
    <2>1. \A t \in Sessions : Same(t)
        BY <1>1, <1>2 DEF Same, loading, committing
    <2> QED
        BY <1>1, <2>1, SameSession DEF ImportInv
<1>3. ASSUME NEW s \in Unborn, NEW to \in {"zip", "start"}, NEW f \in FileType,
             file' = [file EXCEPT ![s] = f], loader' = [loader EXCEPT ![s] = to],
             committer' = [committer EXCEPT ![s] = "take"], UNCHANGED <<pos, closed, tx, torn, committed>>
      PROVE  ImportInv'
    <2>1. s \in Sessions /\ committer[s] = "unborn"
        BY DEF Unborn
    <2>2. Session(s) /\ Typed /\ CommitBatchSize \in Nat \ {0}
        BY <2>1, ImporterAssumption DEF ImportInv
    <2>3. /\ pos[s] = 0 /\ queue[s] = <<>> /\ tx[s] = <<>> /\ committed[s] = <<>> /\ ~torn[s] /\ ~closed[s]
        BY <2>1, <2>2 DEF Session, Started
    <2>4. file'[s] = f /\ loader'[s] = to /\ committer'[s] = "take"
        BY <1>3, <2>1, <2>2 DEF Typed, SessionsTyped
    <2>5. Passed(s)' = 0 /\ Sent(s)' = {} /\ ~Counting(s)'
        BY <1>3, <2>3, <2>4 DEF Passed, Sent, Counting
    <2>6. Elements(<<>>) = {} /\ Increasing(<<>>) /\ Below({}, {}) /\ Len(<<>>) = 0
        BY DEF Elements, Increasing, Below
    <2>7. Started(s)' /\ Batched(s)'
        BY <1>1, <1>3, <2>2, <2>3, <2>4, <2>6 DEF Started, Batched
    <2>8. Ordered(s)'
        <3>1. Len(f.rows) \in Nat
            BY DEF FileType
        <3>2. /\ pos'[s] = 0 /\ queue'[s] = <<>> /\ tx'[s] = <<>> /\ committed'[s] = <<>>
              /\ file'[s].rows = f.rows /\ loader'[s] # "send"
            BY <1>1, <1>3, <2>3, <2>4
        <3>3. pos'[s] <= Len(file'[s].rows)
            BY <3>1, <3>2
        <3>4. /\ Elements(queue'[s]) = {} /\ Elements(tx'[s]) = {} /\ Elements(committed'[s]) = {}
              /\ Increasing(queue'[s]) /\ Increasing(tx'[s]) /\ Increasing(committed'[s])
            BY <2>6, <3>2
        <3> QED
            BY <2>5, <2>6, <3>2, <3>3, <3>4 DEF Ordered
    <2>9. Complete(s)'
        BY <1>1, <1>3, <2>3, <2>4, <2>5 DEF Complete
    <2>10. Others(s)
        BY <1>1, <1>3, <2>2 DEF Others, Same, Typed, SessionsTyped
    <2>11. \A t \in Sessions : Session(t)'
        BY <2>7, <2>8, <2>9, <2>10, SameSession DEF Others, Session, ImportInv
    <2> QED
        BY <1>1, <2>11 DEF ImportInv
<1> QED
    BY <1>2, <1>3, StartTyped DEF ImportInv

\* Requests that make no session leave all as they are.
LEMMA RequestsMove ==
    ASSUME ImportInv, NEW r \in Requests,
           \/ \E f \in Files : Upload(r, f)
           \/ NewSessionCheck(r) \/ NewSessionSet(r) \/ StopRequest(r) \/ StopImport(r)
    PROVE  ImportInv' /\ \A s \in Sessions : Same(s)
<1>1. Typed' /\ RoomInv' /\ UNCHANGED <<loading, queue, committing>>
    BY RequestsTyped DEF ImportInv
<1>2. UNCHANGED <<troubled, stopped>>
    BY DEF Upload, NewSessionCheck, NewSessionSet, StopRequest, StopImport, StopReset, StopSignal, StopStatus, history
<1>3. \A s \in Sessions : Same(s)
    BY <1>1, <1>2 DEF Same, loading, committing
<1> QED
    BY <1>1, <1>3, SameSession DEF ImportInv

\* Every step keeps the importer's invariant.
LEMMA ImportNext == ImportInv /\ [Next]_vars => ImportInv'
<1> SUFFICES ASSUME ImportInv, [Next]_vars PROVE ImportInv'
    OBVIOUS
<1>1. ASSUME NEW r \in Requests, NEW f \in Files, Upload(r, f) PROVE ImportInv'
    BY <1>1, RequestsMove
<1>2. ASSUME NEW r \in Requests, StopRequest(r) \/ StopImport(r) PROVE ImportInv'
    BY <1>2, RequestsMove
<1>3. ASSUME NEW r \in Requests, StartImport(r) PROVE ImportInv'
    BY <1>3, RequestsMove, StartMoves DEF StartImport
<1>4. ASSUME NEW s \in Sessions, Load(s) \/ Import(s) PROVE ImportInv'
    BY <1>4, SessionMoves
<1>5. CASE Jam \/ UNCHANGED vars
    <2>1. /\ UNCHANGED <<status, imported, hasLog, stop, loading, queue, committing, requests, history>>
          /\ jammed' \in BOOLEAN
        BY <1>5 DEF Jam, vars, importer, ImportInv, Typed, SharedTyped
    <2>2. Typed'
        BY <2>1 DEF ImportInv, Typed, SharedTyped, SessionsTyped, loading, committing, requests, history
    <2>3. \A s \in Sessions : Same(s)
        BY <2>1 DEF Same, loading, committing, history
    <2>4. Busy' = Busy /\ Unborn' = Unborn
        BY <2>1 DEF Busy, Unborn, requests, committing
    <2> QED
        BY <2>2, <2>3, <2>4, SameSession, RoomKept DEF ImportInv
<1> QED
    BY <1>1, <1>2, <1>3, <1>4, <1>5 DEF Next

\* Nothing is there at the start; requests and sessions may outnumber each other.
LEMMA ImportInit == Init => ImportInv
<1> SUFFICES ASSUME Init PROVE ImportInv
    OBVIOUS
<1>1. NoFile \in FileType /\ Len(NoFile.rows) = 0 /\ CommitBatchSize \in Nat \ {0} /\ MaxStops \in Nat /\ MaxFaults \in Nat
    BY ImporterAssumption DEF NoFile, FileType
<1>2. SharedTyped
    <2>1. status \in Statuses /\ imported \in Nat /\ {hasLog, stop, jammed} \subseteq BOOLEAN
        BY DEF Init, Statuses
    <2>2. request \in [Requests -> RequestPcs] /\ upload \in [Requests -> FileType]
        BY <1>1 DEF Init, RequestPcs
    <2>3. latest \in Sessions \cup {NoSession} /\ troubled \cup disturbed \cup stopped \subseteq Sessions
        BY DEF Init
    <2>4. stops \in 0..MaxStops /\ faults \in 0..MaxFaults
        BY <1>1 DEF Init
    <2> QED
        BY <2>1, <2>2, <2>3, <2>4 DEF SharedTyped
<1>3. SessionsTyped
    BY <1>1 DEF Init, SessionsTyped, LoaderPcs, CommitterPcs
<1>4. Busy = {}
    BY DEF Init, Busy
<1>5. RoomInv
    BY <1>4, FS_EmptySet, FiniteRoom DEF RoomInv
<1>6. ASSUME NEW s \in Sessions
      PROVE  Session(s)
    <2>1. /\ pos[s] = 0 /\ queue[s] = <<>> /\ tx[s] = <<>> /\ committed[s] = <<>> /\ ~torn[s] /\ ~closed[s]
          /\ file[s] = NoFile /\ loader[s] = "unborn" /\ committer[s] = "unborn"
        BY DEF Init
    <2>2. Sent(s) = {} /\ ~Counting(s)
        BY <2>1 DEF Sent, Passed, Counting
    <2>3. Elements(<<>>) = {} /\ Increasing(<<>>) /\ Below({}, {}) /\ Len(<<>>) = 0
        BY DEF Elements, Increasing, Below
    <2>4. Started(s) /\ Batched(s)
        BY <1>1, <2>1, <2>3 DEF Started, Batched
    <2>5. Ordered(s)
        <3>1. pos[s] <= Len(file[s].rows)
            BY <1>1, <2>1
        <3>2. /\ Elements(queue[s]) = {} /\ Elements(tx[s]) = {} /\ Elements(committed[s]) = {}
              /\ Increasing(queue[s]) /\ Increasing(tx[s]) /\ Increasing(committed[s])
            BY <2>1, <2>3
        <3> QED
            BY <2>1, <2>2, <2>3, <3>1, <3>2 DEF Ordered
    <2>6. Complete(s)
        BY <2>1, <2>2 DEF Complete
    <2> QED
        BY <2>4, <2>5, <2>6 DEF Session
<1> QED
    BY <1>2, <1>3, <1>5, <1>6 DEF ImportInv, Typed

\* The invariant of the importer holds in every reachable state.
THEOREM ImportInvCorrect == Spec => []ImportInv
<1> QED
    BY ImportInit, ImportNext, PTL DEF Spec

\* The types of the importer's state; its queue and transactions stay within commitBatchSize
\* (importer.go:189, 323): TypeOK.
THEOREM ImporterTypeCorrect == Spec => []TypeOK
<1>1. ImportInv => TypeOK
    BY DEF ImportInv, Typed, SharedTyped, SessionsTyped, Session, Batched, TypeOK
<1> QED
    BY <1>1, ImportInvCorrect, PTL

\* Whatever fails, the rows a session leaves in the database are valid rows of its file, once
\* each and in order: CommittedOnceInOrder, for any files, batch size, sessions that share the
\* status and the stop channel, and any errors (importer.go:286-334).
THEOREM CommittedCorrect == Spec => []CommittedOnceInOrder
<1>1. ASSUME ImportInv, NEW s \in Sessions
      PROVE  \A i, j \in 1..Len(committed[s]) :
                /\ file[s].rows[committed[s][i]] = "row"
                /\ i < j => committed[s][i] < committed[s][j]
    <2>1. Increasing(committed[s]) /\ Elements(committed[s]) \subseteq Sent(s)
        BY <1>1 DEF ImportInv, Session, Ordered
    <2>2. \A i \in 1..Len(committed[s]) : committed[s][i] \in Sent(s)
        BY <2>1 DEF Elements
    <2> QED
        BY <2>1, <2>2 DEF Sent, Increasing
<1>2. ImportInv => CommittedOnceInOrder
    BY <1>1 DEF CommittedOnceInOrder
<1> QED
    BY <1>2, ImportInvCorrect, PTL

\* A session that ended untroubled and unstopped has imported every valid row: EndedHasAll
\* (importer.go:336-364, 585).
THEOREM EndedCorrect == Spec => []EndedHasAll
<1>1. ASSUME ImportInv, NEW s \in Sessions, Ended(s), s \notin troubled \cup stopped
      PROVE  Elements(committed[s]) = Valid(file[s].rows)
    <2>1. tx[s] = <<>> /\ queue[s] = <<>> /\ pos[s] = Len(file[s].rows) /\ loader[s] = "gone"
        BY <1>1 DEF Ended, ImportInv, Session, Batched, Complete
    <2>2. Elements(<<>>) = {}
        BY DEF Elements
    <2>3. Elements(committed[s]) = Sent(s)
        <3>1. Ordered(s) /\ Complete(s)
            BY <1>1 DEF ImportInv, Session
        <3>2. Elements(committed[s]) \subseteq Sent(s)
            BY <3>1 DEF Ordered
        <3>3. Sent(s) \subseteq Elements(queue[s]) \cup Elements(tx[s]) \cup Elements(committed[s])
            BY <1>1, <3>1 DEF Complete
        <3> QED
            BY <2>1, <2>2, <3>2, <3>3
    <2>4. Sent(s) = Valid(file[s].rows)
        BY <2>1 DEF Sent, Passed, Valid
    <2> QED
        BY <2>3, <2>4
<1>2. ImportInv => EndedHasAll
    BY <1>1 DEF EndedHasAll
<1> QED
    BY <1>2, ImportInvCorrect, PTL

-----------------------------------------------------------------------------
(* The count that is shown.                                                *)

\* The count beside the status and what is about to be added to it is what is stored.
Accounted(s) == imported + (IF Counting(s) THEN Len(tx[s]) ELSE 0) = Len(committed[s])

\* The last session, if nobody disturbs it, is the only one left; its count is right while it
\* goes on, and as long as it is shown afterwards.
ShownInv == latest \in Sessions \ disturbed =>
    /\ \A s \in Sessions \ {latest} : ~Live(s)
    /\ Live(latest) \/ status = "finished" => Accounted(latest)
    /\ status = "finished" => committer[latest] = "gone"

\* Only sessions that live move.
LEMMA MovesLive ==
    ASSUME ImportInv, NEW s \in Sessions, Load(s) \/ Import(s)
    PROVE  Live(s)
<1>1. Started(s) /\ CommitBatchSize \in Nat \ {0}
    BY ImporterAssumption DEF ImportInv, Session
<1>2. CASE Load(s)
    <2>1. loader[s] \notin {"unborn", "away", "gone"} /\ (loader[s] = "send" => Len(queue[s]) < CommitBatchSize)
        BY <1>2 DEF Load, ExtractZIP, LoadStart, LoadOpen, LoadLoop, LoadEOF, LoadRow, LoadSend, LoadFail, LoaderAt
    <2>2. Len(queue[s]) \in Nat
        BY DEF ImportInv, Typed, SessionsTyped
    <2> QED
        BY <1>1, <2>1, <2>2 DEF Live, Ended, Stranded, Started
<1>3. CASE Import(s)
    <2>1. committer[s] \notin {"unborn", "gone"} /\ (committer[s] = "take" => queue[s] # <<>> \/ closed[s])
        BY <1>3 DEF Import, Insert, BeginFails, InsertFails, QueueClosed, Commit, LastCommit, CommitTo, Count, Finish, CommitterAt
    <2> QED
        BY <2>1 DEF Live, Ended, Stranded
<1> QED
    BY <1>2, <1>3

\* The accounts of a session that moves.
LEMMA MovesAccount ==
    ASSUME ImportInv, NEW s \in Sessions, Load(s) \/ Import(s), Accounted(s)
    PROVE  Accounted(s)'
<1>1. tx[s] \in Seq(Nat) /\ committed[s] \in Seq(Nat) /\ imported \in Nat
    BY DEF ImportInv, Typed, SharedTyped, SessionsTyped
<1>2. CASE Load(s)
    <2>1. UNCHANGED <<imported, committer, tx, committed>>
        BY <1>2 DEF Load, ExtractZIP, LoadStart, LoadOpen, LoadLoop, LoadEOF, LoadRow, LoadSend, LoadFail,
                    importer, committing
    <2> QED
        BY <2>1 DEF Accounted, Counting
<1>3. CASE Insert(s) \/ BeginFails(s) \/ InsertFails(s) \/ QueueClosed(s) \/ Finish(s)
    <2>1. UNCHANGED <<imported, committed>> /\ ~Counting(s) /\ ~Counting(s)'
        BY <1>3 DEF Insert, BeginFails, InsertFails, QueueClosed, Finish, CommitterAt, AfterLoop, Counting,
                    importer, ImportInv, Typed, SessionsTyped
    <2> QED
        BY <1>1, <2>1 DEF Accounted
<1>4. CASE Commit(s) \/ LastCommit(s)
    <2>1. imported' = imported /\ ~Counting(s)
        BY <1>4 DEF Commit, LastCommit, CommitTo, CommitterAt, Counting, importer
    <2>2. \/ Counting(s)' /\ tx' = tx /\ committed' = [committed EXCEPT ![s] = @ \o tx[s]]
          \/ ~Counting(s)' /\ committed' = committed
        BY <1>4 DEF Commit, LastCommit, CommitTo, CommitterAt, Counting, ImportInv, Typed, SessionsTyped
    <2>3. /\ Len(committed[s] \o tx[s]) = Len(committed[s]) + Len(tx[s])
          /\ Len(committed[s]) \in Nat /\ Len(tx[s]) \in Nat
        BY <1>1
    <2>4. imported = Len(committed[s])
        BY <1>1, <2>1, <2>3 DEF Accounted
    <2>5. CASE Counting(s)' /\ tx' = tx /\ committed' = [committed EXCEPT ![s] = @ \o tx[s]]
        <3>1. committed'[s] = committed[s] \o tx[s]
            BY <2>5 DEF ImportInv, Typed, SessionsTyped
        <3> QED
            BY <2>1, <2>3, <2>4, <2>5, <3>1 DEF Accounted
    <2>6. CASE ~Counting(s)' /\ committed' = committed
        BY <2>1, <2>3, <2>4, <2>6 DEF Accounted
    <2> QED
        BY <2>2, <2>5, <2>6
<1>5. CASE Count(s)
    <2>1. imported' = imported + Len(tx[s]) /\ committed' = committed /\ Counting(s)
        BY <1>5 DEF Count, CountBatch, CommitterAt, Counting
    <2>2. ~Counting(s)'
        BY <1>5 DEF Count, CommitterAt, Counting, ImportInv, Typed, SessionsTyped
    <2> QED
        BY <1>1, <2>1, <2>2 DEF Accounted
<1> QED
    BY <1>2, <1>3, <1>4, <1>5 DEF Import

\* Sessions that do not move stay what they are.
LEMMA SameLive ==
    ASSUME NEW s \in Sessions, Same(s)
    PROVE  (Live(s)' <=> Live(s)) /\ (imported' = imported => (Accounted(s)' <=> Accounted(s)))
<1>1. Live(s)' <=> Live(s)
    BY DEF Same, Live, Ended, Stranded
<1>2. Counting(s)' <=> Counting(s)
    BY DEF Same, Counting
<1> QED
    BY <1>1, <1>2 DEF Same, Accounted

\* "finished" is written as the committer's last act.
LEMMA FinishesAtEnd ==
    ASSUME ImportInv, NEW s \in Sessions, Load(s) \/ Import(s), status' = "finished"
    PROVE  \/ committer'[s] = "gone"
           \/ status = "finished" /\ committer'[s] = committer[s]
           \/ status = "finished" /\ committer[s] # "gone"
<1>1. CASE Load(s)
    BY <1>1 DEF Load, ExtractZIP, LoadStart, LoadOpen, LoadLoop, LoadEOF, LoadRow, LoadSend, LoadFail, SetFailed,
                importer, committing
<1>2. CASE Insert(s) \/ BeginFails(s) \/ InsertFails(s) \/ QueueClosed(s) \/ Commit(s) \/ LastCommit(s) \/ Count(s)
    <2>1. status' = status
        BY <1>2 DEF Insert, BeginFails, InsertFails, QueueClosed, Commit, LastCommit, Count, importer
    <2>2. committer[s] # "gone"
        BY <1>2 DEF Insert, BeginFails, InsertFails, QueueClosed, Commit, LastCommit, CommitTo, Count, CommitterAt
    <2> QED
        BY <2>1, <2>2
<1>3. CASE Finish(s)
    <2>1. committer'[s] = "gone"
        BY <1>3 DEF Finish, CommitterAt, ImportInv, Typed, SessionsTyped
    <2> QED
        BY <2>1
<1> QED
    BY <1>1, <1>2, <1>3 DEF Import

\* The invariant of the shown count is kept.
LEMMA ShownNext == ImportInv /\ ShownInv /\ [Next]_vars => ShownInv'
<1> SUFFICES ASSUME ImportInv, ShownInv, [Next]_vars PROVE ShownInv'
    OBVIOUS
<1>1. ASSUME \A s \in Sessions : Same(s), latest' = latest, UNCHANGED <<imported, disturbed>>,
             status' = "finished" => status = "finished"
      PROVE  ShownInv'
    BY <1>1, SameLive DEF ShownInv, Same
<1>2. ASSUME \A s \in Sessions : Same(s), latest' = latest, disturbed' = disturbed \cup LiveSessions,
             status' # "finished"
      PROVE  ShownInv'
    BY <1>2, SameLive DEF ShownInv, LiveSessions
<1>3. ASSUME NEW r \in Requests, NEW f \in Files, Upload(r, f) PROVE ShownInv'
    BY <1>1, <1>3, RequestsMove DEF Upload, importer, history
<1>4. ASSUME NEW r \in Requests, StopRequest(r) PROVE ShownInv'
    BY <1>1, <1>4, RequestsMove DEF StopRequest, importer
<1>5. ASSUME NEW r \in Requests, StopImport(r) PROVE ShownInv'
    <2>0. \A s \in Sessions : Same(s)
        BY <1>5, RequestsMove
    <2>1. CASE StopReset(r)
        BY <1>2, <2>0, <2>1 DEF StopReset
    <2>2. CASE StopSignal(r) \/ StopStatus(r)
        BY <1>1, <2>0, <2>2 DEF StopSignal, StopStatus, history
    <2> QED
        BY <1>5, <2>1, <2>2 DEF StopImport
<1>6. ASSUME NEW r \in Requests, StartImport(r) PROVE ShownInv'
    <2>1. CASE NewSessionCheck(r)
        BY <1>1, <2>1, RequestsMove DEF NewSessionCheck, importer, history
    <2>2. CASE NewSessionSet(r)
        BY <1>2, <2>2, RequestsMove DEF NewSessionSet
    <2>3. CASE NewSessionStart(r)
        <3>1. UNCHANGED <<importer, queue, troubled, stopped>>
            BY <2>3 DEF NewSessionStart
        <3>2. CASE UNCHANGED <<loading, committing, latest, disturbed>>
            <4>1. \A s \in Sessions : Same(s)
                BY <3>1, <3>2 DEF Same, loading, committing
            <4> QED
                BY <1>1, <3>1, <3>2, <4>1 DEF importer
        <3>3. ASSUME NEW s \in Unborn, NEW to \in {"zip", "start"}, NEW f \in FileType,
                     file' = [file EXCEPT ![s] = f], loader' = [loader EXCEPT ![s] = to],
                     committer' = [committer EXCEPT ![s] = "take"], latest' = s,
                     (disturbed' = disturbed /\ LiveSessions = {} /\ status = "importing" /\ imported = 0) \/ s \in disturbed',
                     UNCHANGED <<pos, closed, tx, torn, committed>>
              PROVE  ShownInv'
            <4>1. s \in Sessions /\ committer[s] = "unborn" /\ committer'[s] = "take"
                BY <3>3 DEF Unborn, ImportInv, Typed, SessionsTyped
            <4>2. committed[s] = <<>> /\ tx[s] = <<>>
                BY <4>1 DEF ImportInv, Session, Started
            <4>3. Others(s)
                BY <3>1, <3>3, <4>1 DEF Others, Same, ImportInv, Typed, SessionsTyped
            <4>4. ASSUME LiveSessions = {}, status = "importing", imported = 0
                  PROVE  Accounted(s)' /\ status' # "finished" /\ \A t \in Sessions \ {s} : ~Live(t)'
                <5>1. ~Counting(s)' /\ imported' = 0 /\ committed'[s] = <<>> /\ Len(<<>>) = 0
                    BY <3>1, <3>3, <4>1, <4>2, <4>4 DEF Counting, importer
                <5>2. \A t \in Sessions \ {s} : ~Live(t)'
                    BY <4>3, <4>4, SameLive DEF Others, LiveSessions
                <5>3. status' # "finished"
                    BY <3>1, <4>4 DEF importer
                <5> QED
                    BY <5>1, <5>2, <5>3 DEF Accounted
            <4> QED
                BY <3>3, <4>4 DEF ShownInv
        <3> QED
            BY <2>3, <3>2, <3>3, StartTyped DEF ImportInv
    <2> QED
        BY <1>6, <2>1, <2>2, <2>3 DEF StartImport
<1>7. ASSUME NEW s \in Sessions, Load(s) \/ Import(s) PROVE ShownInv'
    <2>1. Live(s) /\ Others(s)
        BY <1>7, MovesLive, SessionMoves
    <2>2. latest' = latest /\ disturbed' = disturbed
        BY <1>7 DEF Load, Import, ExtractZIP, LoadStart, LoadOpen, LoadLoop, LoadEOF, LoadRow, LoadSend, LoadFail,
                    Insert, BeginFails, InsertFails, QueueClosed, Commit, LastCommit, Count, Finish, history
    <2>3. ASSUME latest \in Sessions \ disturbed
          PROVE  /\ s = latest /\ Accounted(s)' /\ \A t \in Sessions \ {s} : ~Live(t)'
                 /\ status' = "finished" => committer'[s] = "gone"
        <3>1. s = latest /\ Accounted(s)
            BY <2>1, <2>3 DEF ShownInv
        <3>2. \A t \in Sessions \ {s} : ~Live(t)'
            BY <2>1, <2>3, <3>1, SameLive DEF ShownInv, Others
        <3>3. status' = "finished" => committer'[s] = "gone"
            <4>1. status = "finished" => committer[s] = "gone"
                BY <2>3, <3>1 DEF ShownInv
            <4> QED
                BY <1>7, <4>1, FinishesAtEnd
        <3> QED
            BY <1>7, <3>1, <3>2, <3>3, MovesAccount
    <2> QED
        BY <2>2, <2>3 DEF ShownInv
<1>8. CASE Jam \/ UNCHANGED vars
    <2>1. UNCHANGED <<status, imported, loading, queue, committing, history>>
        BY <1>8 DEF Jam, vars, importer
    <2>2. \A s \in Sessions : Same(s)
        BY <2>1 DEF Same, loading, committing, history
    <2> QED
        BY <1>1, <2>1, <2>2 DEF history
<1> QED
    BY <1>3, <1>4, <1>5, <1>6, <1>7, <1>8 DEF Next

\* When "finished" is shown and nobody else wrote the status during the session, the count
\* beside it is what the session left in the database: ShownIsStored (importer.go:328, 356-357).
THEOREM ShownCorrect == Spec => []ShownIsStored
<1>1. ImportInv /\ ShownInv => ShownIsStored
    <2> SUFFICES ASSUME ImportInv, ShownInv, status = "finished", latest \in Sessions \ disturbed
                 PROVE  imported = Len(committed[latest])
        BY DEF ShownIsStored
    <2>1. Accounted(latest)
        BY DEF ShownInv
    <2>2. ~Counting(latest)
        BY DEF ShownInv, Counting
    <2> QED
        BY <2>1, <2>2 DEF Accounted, ImportInv, Typed, SharedTyped, SessionsTyped
<1>2. Init => ShownInv
    BY ImporterAssumption DEF Init, ShownInv
<1> QED
    BY <1>1, <1>2, ImportInvCorrect, ShownNext, PTL DEF Spec
===============================================================================
