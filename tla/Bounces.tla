------------------------------- MODULE Bounces --------------------------------
(***************************************************************************)
(* The bounce manager (internal/bounce/bounce.go, mailbox/pop.go) on top   *)
(* of Audience: webhooks and the scanner of the bounce mailbox put bounces *)
(* in a queue, one goroutine takes them out and records each with one      *)
(* statement, which also acts on a subscriber who bounced often enough     *)
(* (queries/bounces.sql:2-35).                                             *)
(*                                                                         *)
(* The scanner downloads what is in the mailbox, queues it and deletes it  *)
(* afterwards; it does not wait when the queue is full, a webhook does.    *)
(* The POP server deletes when the connection is closed properly. The      *)
(* queue is in memory: a restart empties it.                               *)
(***************************************************************************)
EXTENDS Audience, Sequences

CONSTANTS
    BounceAction,     \* setting bounce.actions: [BounceTypes -> [count, action]]
    QueueSize,        \* 1000 (bounce.go:75)
    ScanLimit,        \* 1000 (bounce.go:145)
    MaxFaults         \* bound on unreadable mails, failed deletions and restarts together

Actions == {"none", "blocklist", "unsubscribe", "delete"}

ASSUME BouncesAssumption ==
    /\ BounceAction \in [BounceTypes -> [count : Nat \ {0}, action : Actions]]
    /\ {QueueSize, ScanLimit} \subseteq Nat \ {0}
    /\ MaxFaults \in Nat

VARIABLES
    mailbox,    \* the mails on the server: [n, bounce, readable]
    queue,      \* m.queue: [n, bounce], n = 0 for a webhook's
    scan,       \* runMailboxScanner: [at, i, count]
    \* --- history, read by properties and by bounds only ---
    mails,      \* mails that arrived
    readable,   \* the mails that can be read
    recorded,   \* how often a mail's bounce was recorded
    skipped,    \* mails that found the queue full
    lost,       \* mails in the queue when the process ended
    faults,
    lifted      \* subscribers who were blocklisted and are not any more

bounceHistory == <<mails, readable, recorded, skipped, lost, faults>>
bounceVars == <<mailbox, queue, scan, bounceHistory>>
vars == <<audienceVars, bounceVars, lifted>>

Asleep == [at |-> "asleep", i |-> 0, count |-> 0]

Init ==
    /\ AudienceInit
    /\ mailbox = <<>> /\ queue = <<>> /\ scan = Asleep
    /\ mails = 0 /\ readable = {} /\ recorded = [n \in 1..MaxInputs |-> 0]
    /\ skipped = {} /\ lost = {} /\ faults = 0 /\ lifted = {}

Fault == faults < MaxFaults /\ faults' = faults + 1

\* A bounce names its subscriber by the UUID of a row or, id 0, by email.
Bounce(s, id, t) == [sub |-> s, id |-> id, type |-> t]

-----------------------------------------------------------------------------
(* Arrival.                                                                *)

\* external: a bounced mail arrives on the POP server; it carries the UUID of the row the
\* mail was sent to.
MailArrives(s, t, ok) ==
    /\ rowId[s] > 0 /\ Spend /\ mails' = mails + 1
    /\ mailbox' = Append(mailbox, [n |-> mails + 1, bounce |-> Bounce(s, rowId[s], t)])
    /\ IF ok THEN readable' = readable \cup {mails + 1} /\ UNCHANGED faults
             ELSE Fault /\ UNCHANGED readable
    /\ UNCHANGED <<tables, request, links, history, queue, scan, recorded, skipped, lost>>

\* BounceWebhook ends in Record, which waits for room.
Record(b) ==
    /\ Spend
    /\ Len(queue) < QueueSize
    /\ queue' = Append(queue, [n |-> 0, bounce |-> b])
    /\ UNCHANGED <<tables, request, links, history, mailbox, scan, mails, readable, recorded, skipped, lost, faults>>

-----------------------------------------------------------------------------
(* The mailbox scanner.                                                    *)

\* runMailboxScanner, Scan: connects and asks how much there is.
ScanStart ==
    /\ scan = Asleep /\ mailbox # <<>>
    /\ scan' = [at |-> "download", i |-> 1,
                count |-> IF Len(mailbox) < ScanLimit THEN Len(mailbox) ELSE ScanLimit]
    /\ UNCHANGED <<audienceVars, mailbox, queue, bounceHistory>>

\* Variant: the queue is taken to have room.
PushAlways(m) == queue' = Append(queue, m) /\ UNCHANGED skipped

\* What the scanner does with a mail it has read: queue it if there is room.
Push(m) ==
    IF Len(queue) < QueueSize
    THEN queue' = Append(queue, m) /\ UNCHANGED skipped
    ELSE skipped' = skipped \cup {m.n} /\ UNCHANGED queue

\* A mail that cannot be read is passed over.
Download ==
    /\ scan.at = "download" /\ scan.i <= scan.count
    /\ IF mailbox[scan.i].n \in readable
       THEN Push(mailbox[scan.i])
       ELSE UNCHANGED <<queue, skipped>>
    /\ scan' = [scan EXCEPT !.i = @ + 1]
    /\ UNCHANGED <<audienceVars, mailbox, mails, readable, recorded, lost, faults>>

\* Variant: all that are there, those that came during the scan with them.
DeletedAll == Len(mailbox)

\* Variant: the last one downloaded is left.
DeletedFew == scan.count - 1

\* How many mails are deleted once all have been downloaded: all that were downloaded.
Deleted == scan.count

\* Deletes and quits; when a deletion fails the ones before it stand, when the connection
\* breaks none.
DeleteMails ==
    /\ scan.at = "download" /\ scan.i > scan.count
    /\ \/ mailbox' = SubSeq(mailbox, Deleted + 1, Len(mailbox)) /\ UNCHANGED faults
       \/ Fault /\ \E k \in 0..(scan.count - 1) : mailbox' = SubSeq(mailbox, k + 1, Len(mailbox))
    /\ scan' = Asleep
    /\ UNCHANGED <<audienceVars, queue, mails, readable, recorded, skipped, lost>>

-----------------------------------------------------------------------------
(* Run: takes a bounce and records it.                                     *)

Found(b) == HasRow(b.sub) /\ b.id \in {0, rowId[b.sub]}

\* Variant: the bounce being recorded is not counted.
RecordBounceLate(b) ==
    LET rule == BounceAction[b.type] num == bounces[b.sub][b.type] IN
    /\ bounces' = IF status[b.sub] # "blocklisted" /\ num <= rule.count
                  THEN [bounces EXCEPT ![b.sub][b.type] = num + 1] ELSE bounces
    /\ status' = IF rule.action = "blocklist" /\ num >= rule.count
                 THEN [status EXCEPT ![b.sub] = "blocklisted"] ELSE status
    /\ UNCHANGED <<rowId, subscription, list, optedOut, consent>>

\* record-bounce: num counts this one; the row is left out for a blocklisted subscriber
\* and past the count.
RecordBounce(b) ==
    LET s == b.sub
        rule == BounceAction[b.type]
        num == bounces[s][b.type] + 1
        acts == num >= rule.count
        kept == status[s] # "blocklisted" /\ num <= rule.count
    IN  IF rule.action = "delete" /\ acts
        THEN DeleteRows({s})
        ELSE /\ bounces' = IF kept THEN [bounces EXCEPT ![s][b.type] = num] ELSE bounces
             /\ status' = IF rule.action = "blocklist" /\ acts
                          THEN [status EXCEPT ![s] = "blocklisted"] ELSE status
             /\ LET cells == IF rule.action = "unsubscribe" /\ acts /\ status[s] # "blocklisted"
                             THEN Subscriptions({s}, Lists) ELSE {}
                IN  subscription' = Mark(cells, "unsubscribed") /\ optedOut' = optedOut \cup cells
             /\ UNCHANGED <<rowId, list, consent>>

Take ==
    /\ queue # <<>>
    /\ LET m == Head(queue) IN
        /\ IF Found(m.bounce) THEN RecordBounce(m.bounce) ELSE UNCHANGED <<tables, history>>
        /\ recorded' = IF m.n > 0 THEN [recorded EXCEPT ![m.n] = @ + 1] ELSE recorded
    /\ queue' = Tail(queue)
    /\ UNCHANGED <<request, links, spent, mailbox, scan, mails, readable, skipped, lost, faults>>

\* The process ends and starts again: requests, queue and scan are gone.
Restart ==
    /\ Fault
    /\ request' = [r \in Requests |-> Idle]
    /\ lost' = (lost \cup {queue[i].n : i \in DOMAIN queue}) \ {0}
    /\ queue' = <<>> /\ scan' = Asleep
    /\ UNCHANGED <<tables, links, history, spent, mailbox, mails, readable, recorded, skipped>>

-----------------------------------------------------------------------------

Manager ==
    \/ /\ spent < MaxInputs
       /\ \E s \in Subscribers, t \in BounceTypes :
            \/ Record(Bounce(s, 0, t)) \/ Record(Bounce(s, rowId[s], t))
            \/ \E ok \in BOOLEAN : MailArrives(s, t, ok)
    \/ ScanStart \/ Download \/ DeleteMails \/ Take \/ Restart

Blocklisted == {s \in Subscribers : status[s] = "blocklisted"}
Next ==
    /\ (AudienceNext /\ UNCHANGED bounceVars) \/ Manager
    /\ lifted' = (lifted \cup (Blocklisted \ Blocklisted')) \ {s \in Subscribers : ~HasRow(s)'}

Spec == Init /\ [][Next]_vars

-----------------------------------------------------------------------------
(* What is checked.                                                        *)

TypeOK ==
    /\ AudienceTypeOK
    /\ Len(queue) <= QueueSize
    /\ scan.at \in {"asleep", "download"} /\ scan.count <= ScanLimit
    /\ recorded \in [1..MaxInputs -> Nat]
    /\ readable \cup skipped \cup lost \subseteq 1..MaxInputs
    /\ faults \in 0..MaxFaults

\* A bounced mail that was readable and is not in the mailbox any more has been recorded or
\* waits to be; or the queue was full when it was read, or the process ended: the mailbox
\* loses it in no other way, also when deletions fail or mails come during a scan
\* (pop.go:104, 187-205, bounce.go:130-138).
MailsAccountedFor ==
    \A n \in readable :
        \/ \E i \in DOMAIN mailbox : mailbox[i].n = n
        \/ recorded[n] > 0 \/ \E i \in DOMAIN queue : queue[i].n = n
        \/ n \in skipped \cup lost

\* A mail counts against its subscriber more than once only when a deletion failed or the
\* process ended in a scan, and once more for each (pop.go:201-205).
CountedOncePerFault ==
    \A n \in 1..MaxInputs :
        recorded[n] + Cardinality({i \in DOMAIN queue : queue[i].n = n}) <= 1 + faults

\* Together: a bounced mail counts once, but for the ways named above.
MailsCounted == MailsAccountedFor /\ CountedOncePerFault

\* A subscriber's bounces of a type are recorded up to the count of their action, and at the
\* count they have had their effect, whoever deletes or blocklists in between: the
\* subscriber is blocklisted unless that was lifted since, or deleted
\* (queries/bounces.sql:17-35).
CountActs ==
    \A s \in Subscribers, t \in BounceTypes :
        /\ bounces[s][t] <= BounceAction[t].count
        /\ bounces[s][t] = BounceAction[t].count =>
             /\ BounceAction[t].action = "blocklist" => status[s] = "blocklisted" \/ s \in lifted
             /\ BounceAction[t].action # "delete"
=============================================================================
