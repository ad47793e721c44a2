------------------------------- MODULE Importer -------------------------------
(***************************************************************************)
(* The bulk subscriber importer (internal/subimporter/importer.go) and the *)
(* requests that start and stop an import (cmd/import.go).                 *)
(*                                                                         *)
(* An import is a session of two goroutines around a bounded queue: the    *)
(* loader (LoadCSV) reads the file row by row and queues the valid rows;   *)
(* the committer (Start) inserts them, a transaction per batch. What the   *)
(* world sees of it, and what guards the next import, is one status in the *)
(* Importer, written by both goroutines and by the requests; a stop        *)
(* request reaches the loader through a channel of one.                    *)
(*                                                                         *)
(* Every section under the Importer's lock is a step, but for isDone: it   *)
(* takes the read lock and, under it, takes it again; a writer that asks   *)
(* for the lock in between has both of them wait for ever, and everybody   *)
(* else behind them. Jam is that outcome. A file is the                    *)
(* sequence of its rows: one to import, one to skip, or one at which       *)
(* reading fails; the empty file stands for all those that are refused     *)
(* before their first row (unreadable, empty, no email column).            *)
(***************************************************************************)
EXTENDS Integers, Sequences, FiniteSets

CONSTANTS
    Sessions,           \* identities for sessions, each used once
    NoSession,          \* no session yet
    Requests,           \* HTTP requests that can be in progress at once
    Files,              \* what users upload: [zip, rows]
    CommitBatchSize,    \* commitBatchSize: rows per transaction and queue capacity
    MaxStops,           \* bound on the number of stop requests
    MaxFaults           \* bound on the number of database errors

RowKinds == {"row", "skip", "bad"}

ASSUME ImporterAssumption ==
    /\ IsFiniteSet(Sessions) /\ NoSession \notin Sessions
    /\ IsFiniteSet(Requests)
    /\ Files \subseteq [zip : BOOLEAN, rows : Seq(RowKinds)]
    /\ CommitBatchSize \in Nat \ {0}
    /\ MaxStops \in Nat
    /\ MaxFaults \in Nat

VARIABLES
    \* --- Importer ---
    status,     \* im.status.Status
    imported,   \* im.status.Imported
    hasLog,     \* im.status.logBuf is not nil
    stop,       \* a signal is in im.stop
    jammed,     \* a reader and a writer of the Importer's lock wait for each other
    \* --- sessions ---
    file,       \* the session's file
    loader,     \* where LoadCSV is
    pos,        \* rows read so far
    queue,      \* s.subQueue: row numbers
    closed,     \* s.subQueue is closed
    committer,  \* where Start is
    tx,         \* rows inserted in the open transaction, as many as cur
    torn,       \* the transaction was rolled back under way
    committed,  \* rows in the database because of this session
    \* --- HTTP requests ---
    request, upload,
    \* --- history, read by properties only ---
    latest,     \* the last session that was started
    troubled,   \* sessions whose file or database failed
    disturbed,  \* sessions whose status somebody else wrote
    stopped,    \* sessions that took a stop signal
    stops, faults

importer == <<status, imported, hasLog, stop, jammed>>
loading == <<file, loader, pos, closed>>
committing == <<committer, tx, torn, committed>>
requests == <<request, upload>>
history == <<latest, troubled, disturbed, stopped, stops, faults>>
vars == <<importer, loading, queue, committing, requests, history>>

NoFile == [zip |-> FALSE, rows |-> <<>>]
Statuses == {"none", "importing", "stopping", "finished", "failed"}
LoaderPcs == {"unborn", "zip", "start", "open", "loop", "read", "send", "fail", "away", "gone"}
CommitterPcs == {"unborn", "take", "commit", "count", "last", "lastCount", "finish", "failed", "gone"}
RequestPcs == {"idle", "check", "set", "log", "reset", "signal", "stopping"}

Unborn == {s \in Sessions : committer[s] = "unborn"}

\* One goroutine of the session is left, and it waits for the other: a committer at an
\* empty queue nobody closes, a loader at a full queue nobody empties.
Stranded(s) ==
    \/ loader[s] \in {"away", "gone"} /\ committer[s] = "take" /\ queue[s] = <<>> /\ ~closed[s]
    \/ committer[s] = "gone" /\ loader[s] = "send" /\ Len(queue[s]) = CommitBatchSize
Ended(s) == loader[s] = "gone" /\ committer[s] = "gone"
Live(s) == committer[s] # "unborn" /\ ~Ended(s) /\ ~Stranded(s)
LiveSessions == {s \in Sessions : Live(s)}

\* isDone()
Done == status \notin {"importing", "stopping"}

Fault(s) == faults < MaxFaults /\ faults' = faults + 1 /\ troubled' = troubled \cup {s}
NoFault == UNCHANGED <<faults, troubled>>

Init ==
    /\ status = "none" /\ imported = 0 /\ hasLog = TRUE /\ stop = FALSE /\ jammed = FALSE
    /\ file = [s \in Sessions |-> NoFile]
    /\ loader = [s \in Sessions |-> "unborn"]
    /\ pos = [s \in Sessions |-> 0]
    /\ queue = [s \in Sessions |-> <<>>]
    /\ closed = [s \in Sessions |-> FALSE]
    /\ committer = [s \in Sessions |-> "unborn"]
    /\ tx = [s \in Sessions |-> <<>>]
    /\ torn = [s \in Sessions |-> FALSE]
    /\ committed = [s \in Sessions |-> <<>>]
    /\ request = [r \in Requests |-> "idle"]
    /\ upload = [r \in Requests |-> NoFile]
    /\ latest = NoSession /\ troubled = {} /\ disturbed = {} /\ stopped = {}
    /\ stops = 0 /\ faults = 0

-----------------------------------------------------------------------------
(* Upload requests.                                                        *)

RequestAt(r, from, to) == request[r] = from /\ request' = [request EXCEPT ![r] = to]

\* ImportSubscribers: an import that is merely stopping does not turn it away here.
Upload(r, f) ==
    /\ ~jammed
    /\ RequestAt(r, "idle", "check")
    /\ Cardinality({q \in Requests : request[q] \in {"check", "set", "log"}}) < Cardinality(Unborn)
    /\ status # "importing"
    /\ upload' = [upload EXCEPT ![r] = f]
    /\ UNCHANGED <<importer, loading, queue, committing, history>>

\* NewSession looks whether an import is running ...
NewSessionCheck(r) ==
    /\ ~jammed
    /\ RequestAt(r, "check", IF Done THEN "set" ELSE "idle")
    /\ upload' = [upload EXCEPT ![r] = IF Done THEN @ ELSE NoFile]
    /\ UNCHANGED <<importer, loading, queue, committing, history>>

\* ... takes the status ...
NewSessionSet(r) ==
    /\ ~jammed
    /\ RequestAt(r, "set", "log")
    /\ status' = "importing" /\ imported' = 0 /\ hasLog' = TRUE
    /\ disturbed' = disturbed \cup LiveSessions
    /\ UNCHANGED <<stop, jammed, loading, queue, committing, upload, latest, troubled, stopped, stops, faults>>

\* ... and opens its log on a second look at it; without a buffer that panics and the
\* request is lost. Otherwise the session's goroutines start.
NewSessionStart(r) ==
    /\ RequestAt(r, "log", "idle")
    /\ IF hasLog
       THEN LET s == CHOOSE new \in Unborn : TRUE IN
            /\ file' = [file EXCEPT ![s] = upload[r]]
            /\ loader' = [loader EXCEPT ![s] = IF upload[r].zip THEN "zip" ELSE "start"]
            /\ committer' = [committer EXCEPT ![s] = "take"]
            /\ latest' = s
            /\ disturbed' = IF LiveSessions = {} /\ status = "importing" /\ imported = 0 THEN disturbed
                            ELSE disturbed \cup LiveSessions \cup {s}
       ELSE UNCHANGED <<file, loader, committer, latest, disturbed>>
    /\ upload' = [upload EXCEPT ![r] = NoFile]
    /\ UNCHANGED <<importer, pos, closed, queue, tx, torn, committed, troubled, stopped, stops, faults>>

-----------------------------------------------------------------------------
(* Stop requests.                                                          *)

StopRequest(r) ==
    /\ ~jammed
    /\ stops < MaxStops /\ stops' = stops + 1
    /\ RequestAt(r, "idle", IF status = "importing" THEN "signal" ELSE "reset")
    /\ UNCHANGED <<importer, loading, queue, committing, upload, latest, troubled, disturbed, stopped, faults>>

\* Nothing was importing: the status is cleared, whatever it is by now.
StopReset(r) ==
    /\ ~jammed
    /\ RequestAt(r, "reset", "idle")
    /\ status' = "none" /\ imported' = 0 /\ hasLog' = FALSE
    /\ disturbed' = disturbed \cup LiveSessions
    /\ UNCHANGED <<stop, jammed, loading, queue, committing, upload, latest, troubled, stopped, stops, faults>>

\* The signal waits in the channel for a loader, if there is none there already.
StopSignal(r) ==
    /\ RequestAt(r, "signal", IF stop THEN "idle" ELSE "stopping")
    /\ stop' = TRUE
    /\ UNCHANGED <<status, imported, hasLog, jammed, loading, queue, committing, upload, history>>

StopStatus(r) ==
    /\ ~jammed
    /\ RequestAt(r, "stopping", "idle")
    /\ status' = "stopping"
    /\ UNCHANGED <<imported, hasLog, stop, jammed, loading, queue, committing, upload, history>>

-----------------------------------------------------------------------------
(* The loader.                                                             *)

LoaderAt(s, from, to) == loader[s] = from /\ loader' = [loader EXCEPT ![s] = to]
Close(s) == closed' = [closed EXCEPT ![s] = TRUE]
NoClose(s) == UNCHANGED closed      \* variant: the queue is left open

\* ExtractZIP, which may fail. When no import is running by now it turns away, which closes
\* no queue: the committer waits for ever.
ExtractZIP(s) ==
    /\ ~jammed
    /\ \E to \in IF Done THEN {"away"} ELSE {"start", "fail"} :
        /\ LoaderAt(s, "zip", to)
        /\ troubled' = IF to = "fail" THEN troubled \cup {s} ELSE troubled
    /\ UNCHANGED <<importer, file, pos, closed, queue, committing, requests, latest, disturbed, stopped,
                   stops, faults>>

\* So does LoadCSV ...
LoadStart(s) ==
    /\ ~jammed
    /\ LoaderAt(s, "start", IF Done THEN "away" ELSE "open")
    /\ UNCHANGED <<importer, file, pos, closed, queue, committing, requests, history>>

\* ... which opens the file, notes the number of its lines and reads the header.
LoadOpen(s) ==
    /\ ~jammed
    /\ LoaderAt(s, "open", IF file[s].rows = <<>> THEN "fail" ELSE "loop")
    /\ troubled' = IF file[s].rows = <<>> THEN troubled \cup {s} ELSE troubled
    /\ UNCHANGED <<importer, file, pos, closed, queue, committing, requests, latest, disturbed, stopped,
                   stops, faults>>

\* Before each row: has a stop been requested?
SignalKept == UNCHANGED stop        \* variant
SignalTaken == stop' = FALSE
Quit(s) == Close(s)
LoadLoop(s) ==
    /\ LoaderAt(s, "loop", IF stop THEN "gone" ELSE "read")
    /\ IF stop
       THEN SignalTaken /\ Quit(s) /\ stopped' = stopped \cup {s}
       ELSE UNCHANGED <<stop, closed, stopped>>
    /\ UNCHANGED <<status, imported, hasLog, jammed, file, pos, queue, committing, requests, latest,
                   troubled, disturbed, stops, faults>>

LoadEOF(s) ==
    /\ pos[s] = Len(file[s].rows)
    /\ LoaderAt(s, "read", "gone")
    /\ Close(s)
    /\ UNCHANGED <<importer, file, pos, queue, committing, requests, history>>

LoadRow(s) ==
    /\ pos[s] < Len(file[s].rows)
    /\ LET kind == file[s].rows[pos[s] + 1] IN
        /\ LoaderAt(s, "read", CASE kind = "row" -> "send" [] kind = "skip" -> "loop" [] OTHER -> "fail")
        /\ pos' = [pos EXCEPT ![s] = @ + 1]
        /\ troubled' = IF kind = "bad" THEN troubled \cup {s} ELSE troubled
    /\ UNCHANGED <<importer, file, closed, queue, committing, requests, latest, disturbed, stopped, stops, faults>>

\* The queue holds CommitBatchSize rows; the loader waits when it is full.
LoadSend(s) ==
    /\ LoaderAt(s, "send", "loop")
    /\ Len(queue[s]) < CommitBatchSize
    /\ queue' = [queue EXCEPT ![s] = Append(@, pos[s])]
    /\ UNCHANGED <<importer, file, pos, closed, committing, requests, history>>

\* The deferred "failed". The queue is not closed.
NotSetFailed == UNCHANGED status    \* variant
SetFailed == status' = "failed"
LoadFail(s) ==
    /\ ~jammed
    /\ LoaderAt(s, "fail", "gone")
    /\ SetFailed
    /\ UNCHANGED <<imported, hasLog, stop, jammed, file, pos, closed, queue, committing, requests, history>>

-----------------------------------------------------------------------------
(* The committer.                                                          *)

CommitterAt(s, from, to) == committer[s] = from /\ committer' = [committer EXCEPT ![s] = to]

OverFullBatch(n) == n > CommitBatchSize     \* variant
FullBatch(n) == n % CommitBatchSize = 0

\* One row: begin a transaction if none is open, insert.
Insert(s) ==
    /\ queue[s] # <<>>
    /\ queue' = [queue EXCEPT ![s] = Tail(@)]
    /\ tx' = [tx EXCEPT ![s] = Append(@, Head(queue[s]))]
    /\ CommitterAt(s, "take", IF FullBatch(Len(tx'[s])) THEN "commit" ELSE "take")
    /\ UNCHANGED <<importer, loading, torn, committed, requests, history>>

\* No transaction can be begun: the row is passed over.
BeginFails(s) ==
    /\ queue[s] # <<>> /\ tx[s] = <<>>
    /\ CommitterAt(s, "take", "take")
    /\ Fault(s)
    /\ queue' = [queue EXCEPT ![s] = Tail(@)]
    /\ UNCHANGED <<importer, loading, tx, torn, committed, requests, latest, disturbed, stopped, stops>>

AlwaysFinish(s) == "finish"                 \* variant

\* After the loop: commit the rest if rows were counted since the last commit.
AfterLoop(s) == IF tx[s] = <<>> THEN "finish" ELSE "last"

\* The insert fails: the transaction is rolled back and the loop is left.
InsertFails(s) ==
    /\ queue[s] # <<>>
    /\ CommitterAt(s, "take", AfterLoop(s))
    /\ Fault(s)
    /\ queue' = [queue EXCEPT ![s] = Tail(@)]
    /\ torn' = [torn EXCEPT ![s] = TRUE]
    /\ UNCHANGED <<importer, loading, tx, committed, requests, latest, disturbed, stopped, stops>>

QueueClosed(s) ==
    /\ queue[s] = <<>> /\ closed[s]
    /\ CommitterAt(s, "take", AfterLoop(s))
    /\ UNCHANGED <<importer, loading, queue, tx, torn, committed, requests, history>>

\* The transaction's rows are in the database all at once, or the commit fails and
\* they are all gone. A transaction that was rolled back cannot be committed.
CommitTo(s, from, ok, failed) ==
    \/ /\ ~torn[s]
       /\ CommitterAt(s, from, ok)
       /\ committed' = [committed EXCEPT ![s] = @ \o tx[s]]
       /\ UNCHANGED tx
       /\ NoFault
    \/ /\ CommitterAt(s, from, failed)
       /\ IF torn[s] THEN NoFault ELSE Fault(s)
       /\ tx' = [tx EXCEPT ![s] = <<>>]
       /\ UNCHANGED committed
Commit(s) ==
    /\ CommitTo(s, "commit", "count", "take")
    /\ UNCHANGED <<importer, loading, queue, torn, requests, latest, disturbed, stopped, stops>>
LastCommit(s) ==
    /\ CommitTo(s, "last", "lastCount", "failed")
    /\ UNCHANGED <<importer, loading, queue, torn, requests, latest, disturbed, stopped, stops>>

CountKept(s) ==                             \* variant: cur is not reset after a commit
    /\ imported' = imported + Len(tx[s])
    /\ UNCHANGED tx
CountFullBatches(s) ==                      \* variant: what the last commit adds is not counted
    /\ imported' = imported + (IF FullBatch(Len(tx[s])) THEN Len(tx[s]) ELSE 0)
    /\ tx' = [tx EXCEPT ![s] = <<>>]
CountBatch(s) ==
    /\ imported' = imported + Len(tx[s])
    /\ tx' = [tx EXCEPT ![s] = <<>>]
Count(s) ==
    /\ ~jammed
    /\ \/ CommitterAt(s, "count", "take")
       \/ CommitterAt(s, "lastCount", "finish")
    /\ CountBatch(s)
    /\ UNCHANGED <<status, hasLog, stop, jammed, loading, queue, torn, committed, requests, history>>

\* The outcome is written whatever the status is by now.
Finish(s) ==
    /\ ~jammed
    /\ \/ CommitterAt(s, "finish", "gone") /\ status' = "finished"
       \/ CommitterAt(s, "failed", "gone") /\ status' = "failed"
    /\ UNCHANGED <<imported, hasLog, stop, jammed, loading, queue, tx, torn, committed, requests, history>>

-----------------------------------------------------------------------------
(* The lock.                                                               *)

InIsDone ==
    \/ \E r \in Requests : request[r] = "check"
    \/ \E s \in Sessions : loader[s] \in {"zip", "start"}
WantsLock ==
    \/ \E r \in Requests : request[r] \in {"set", "reset", "stopping"}
    \/ \E s \in Sessions : \/ loader[s] = "fail"
                           \/ loader[s] = "open" /\ file[s].rows # <<>>
                           \/ committer[s] \in {"count", "lastCount", "finish", "failed"}

\* A writer asks for the lock between isDone's two RLocks.
Jam ==
    /\ ~jammed /\ InIsDone /\ WantsLock
    /\ jammed' = TRUE
    /\ UNCHANGED <<status, imported, hasLog, stop, loading, queue, committing, requests, history>>

-----------------------------------------------------------------------------
StartImport(r) == NewSessionCheck(r) \/ NewSessionSet(r) \/ NewSessionStart(r)
StopImport(r) == StopReset(r) \/ StopSignal(r) \/ StopStatus(r)
Load(s) == \/ ExtractZIP(s) \/ LoadStart(s) \/ LoadOpen(s) \/ LoadLoop(s) \/ LoadEOF(s) \/ LoadRow(s)
           \/ LoadSend(s) \/ LoadFail(s)
Import(s) == \/ Insert(s) \/ BeginFails(s) \/ InsertFails(s) \/ QueueClosed(s)
             \/ Commit(s) \/ LastCommit(s) \/ Count(s) \/ Finish(s)

Next == \/ \E r \in Requests : \/ \E f \in Files : Upload(r, f)
                               \/ StopRequest(r) \/ StartImport(r) \/ StopImport(r)
        \/ \E s \in Sessions : Load(s) \/ Import(s)
        \/ Jam

Spec == Init /\ [][Next]_vars

\* Goroutines are scheduled and requests in progress are served to their end; nobody
\* has to make one.
Fairness ==
    /\ \A r \in Requests : WF_vars(StartImport(r) \/ StopImport(r))
    /\ \A s \in Sessions : WF_vars(Load(s)) /\ WF_vars(Import(s))
FairSpec == Spec /\ Fairness

-----------------------------------------------------------------------------
(* What is checked.                                                        *)

\* Types; the queue and a transaction never hold more than commitBatchSize rows
\* (importer.go:189, 323).
TypeOK ==
    /\ status \in Statuses /\ imported \in Nat /\ {hasLog, stop, jammed} \subseteq BOOLEAN
    /\ loader \in [Sessions -> LoaderPcs] /\ committer \in [Sessions -> CommitterPcs]
    /\ request \in [Requests -> RequestPcs]
    /\ closed \in [Sessions -> BOOLEAN] /\ torn \in [Sessions -> BOOLEAN]
    /\ pos \in [Sessions -> Nat]
    /\ latest \in Sessions \cup {NoSession}
    /\ troubled \cup disturbed \cup stopped \subseteq Sessions
    /\ stops \in 0..MaxStops /\ faults \in 0..MaxFaults
    /\ \A s \in Sessions :
        /\ Len(queue[s]) <= CommitBatchSize /\ Len(tx[s]) <= CommitBatchSize

Valid(rows) == {i \in 1..Len(rows) : rows[i] = "row"}
Elements(q) == {q[i] : i \in 1..Len(q)}

\* Whatever happens to a session, what it leaves in the database are rows of its file,
\* each once and in the file's order; nothing of a rolled back batch is inserted again
\* by a later one (importer.go:286-334).
CommittedOnceInOrder ==
    \A s \in Sessions : \A i, j \in 1..Len(committed[s]) :
        /\ file[s].rows[committed[s][i]] = "row"
        /\ i < j => committed[s][i] < committed[s][j]

\* A session that ended, whose file and database did not fail and that was not stopped
\* has imported every valid row of its file, and with CommittedOnceInOrder each once and in
\* order, even when another one ran beside it or its status was reset (importer.go:336-364, 585).
EndedHasAll ==
    \A s \in Sessions : Ended(s) /\ s \notin troubled \cup stopped => Elements(committed[s]) = Valid(file[s].rows)

\* When the status shows "finished" and nobody else wrote it during the session, the
\* count beside it is what the session left in the database, also when commits failed
\* under way or it was stopped (importer.go:328, 356-357).
ShownIsStored ==
    status = "finished" /\ latest \in Sessions \ disturbed => imported = Len(committed[latest])

\* A stop request stops one session at most, now or later (importer.go:521, 602).
StopsOneAtMost ==
    Cardinality(stopped) + (IF stop THEN 1 ELSE 0) <= stops

\* A session ends, with both its goroutines, unless its file or database fails, the lock is
\* jammed, or it is turned away: LoadCSV and ExtractZIP return at once when no import is
\* running by then. That meets only a session that was disturbed: a stop request reset the
\* status, or another session wrote it. Its committer waits for ever at the queue that they
\* leave open, with file and database in order, where importer.go:271-273 calls Start "a
\* blocking function that selects on a channel queue until all subscriber entries in the
\* import session are imported" (importer.go:375-377, 457-459, 523, 585, 594-599).
TurnedAway(s) == loader[s] = "away" /\ s \in disturbed
EverySessionEnds ==
    \A s \in Sessions : (committer[s] # "unborn") ~> (Ended(s) \/ s \in troubled \/ TurnedAway(s) \/ jammed)

\* The status does not say "importing" for ever, whatever fails: the next import can be
\* started (importer.go:336-364, 464-468).
ImportingPasses == (status = "importing") ~> (status # "importing" \/ jammed)

-----------------------------------------------------------------------------
(* What the code does not keep.                                            *)

\* cmd/import.go:132-134: a stop request stops an ongoing import and clears a finished
\* one; in any case it comes back.
StopReturns == \A r \in Requests : (request[r] \in {"reset", "stopping"}) ~> (request[r] = "idle")
=============================================================================
