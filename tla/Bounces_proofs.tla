---------------------------- MODULE Bounces_proofs -----------------------------
(***************************************************************************)
(* Theorems about Audience and Bounces together, for any number of         *)
(* subscribers, lists, requests, mails and bounce types and every          *)
(* capacity: opting out is kept, a confirmation was consented to, bounced  *)
(* mails are counted, counts act, blocklistings are kept.                  *)
(*                                                                         *)
(* Opting out and consent: neither is inductive by itself. A form that     *)
(* inserts a row, or a request that writes back what it read, is safe      *)
(* because subscriptions belong to rows and requests have read a status.   *)
(* The tables and the requests are treated apart: each statement keeps     *)
(* TableInv, each step of a request RequestInv.                            *)
(*                                                                         *)
(* Mails: a mail is followed by its number. What it has counted for so far *)
(* is the recordings of its bounce and the places it has in the queue:     *)
(* taking it out of the queue to record it changes nothing in that sum.    *)
(***************************************************************************)
EXTENDS Bounces, Places_proofs, TLAPS

Values == SubscriptionStatuses \cup {NoRow}

RowsTyped ==
    /\ status \in [Subscribers -> SubscriberStatuses \cup {NoRow}]
    /\ rowId \in [Subscribers -> Nat]
    /\ subscription \in [Subscribers -> [Lists -> Values]]
    /\ optedOut \subseteq Pairs

\* A subscription belongs to a row.
RowsOwned == \A s \in Subscribers, l \in Lists : subscription[s][l] # NoRow => HasRow(s)

\* Whoever opted out has the subscription still, unsubscribed.
OutKept == \A s \in Subscribers, l \in Lists : <<s, l>> \in optedOut => subscription[s][l] = "unsubscribed"

Consented == \A s \in Subscribers, l \in Lists : subscription[s][l] = "confirmed" => <<s, l>> \in consent

TableInv == RowsTyped /\ RowsOwned /\ OutKept /\ Consented

Stages == {"idle", "insert", "lookup", "merge", "write", "subscriptions", "unsubscribe", "confirm",
           "mail", "patch"}
RequestType ==
    [at : Stages, sub : Subscribers \cup {NoRow}, id : Nat, lists : SUBSET Lists,
     read : SubscriberStatuses \cup {NoRow}, saw : SUBSET Lists]

\* A request under way is about a subscriber, and has a status when it is about to write one.
RequestInv ==
    /\ request \in [Requests -> RequestType]
    /\ \A r \in Requests :
         /\ ~At(r, "idle") => request[r].sub \in Subscribers
         /\ request[r].at \in {"merge", "write", "patch"} => request[r].read \in SubscriberStatuses

LinkType == [sub : Subscribers, id : Nat, lists : SUBSET Lists]
LinkInv == links \subseteq LinkType

Inv == TableInv /\ RequestInv /\ LinkInv

MailType == [n : Nat, bounce : [sub : Subscribers, id : Nat, type : BounceTypes]]

\* Bounces are about subscribers, wherever they wait; the scanner looks at mails that are there.
BounceInv ==
    /\ mailbox \in Seq(MailType) /\ queue \in Seq(MailType) /\ mails \in Nat
    /\ scan \in [at : {"asleep", "download"}, i : Nat, count : Nat]
    /\ scan.at = "download" => scan.i > 0 /\ scan.count <= Len(mailbox)

-----------------------------------------------------------------------------
(* Statements.                                                             *)

\* What Mark gives: the subscriptions with st in the cells marked, the others as they were.
LEMMA MarkType ==
    ASSUME TableInv, NEW cells, NEW st \in Values
    PROVE  /\ Mark(cells, st) \in [Subscribers -> [Lists -> Values]]
           /\ \A s \in Subscribers, l \in Lists :
                Mark(cells, st)[s][l] = IF <<s, l>> \in cells THEN st ELSE subscription[s][l]
BY DEF TableInv, RowsTyped, Mark

\* The tables as they are, whatever becomes of lists and bounces.
LEMMA SameTables ==
    ASSUME TableInv, UNCHANGED <<status, rowId, subscription, optedOut, consent>>
    PROVE  TableInv'
BY DEF TableInv, RowsTyped, RowsOwned, OutKept, Consented, HasRow, Pairs, Values

\* Deleting subscribers deletes their subscriptions with them, and what was held for them.
LEMMA DeleteRowsKeep ==
    ASSUME TableInv, NEW S \in SUBSET Subscribers, DeleteRows(S)
    PROVE  TableInv'
<1>1. NoRow \in Values
    BY DEF Values
<1>2. /\ subscription' \in [Subscribers -> [Lists -> Values]]
      /\ \A s \in Subscribers, l \in Lists :
           subscription'[s][l] = IF <<s, l>> \in S \X Lists THEN NoRow ELSE subscription[s][l]
    BY <1>1, MarkType DEF DeleteRows
<1>3. /\ status' = [s \in Subscribers |-> IF s \in S /\ HasRow(s) THEN NoRow ELSE status[s]]
      /\ rowId' = rowId
      /\ optedOut' = optedOut \ (S \X Lists) /\ consent' = consent \ (S \X Lists)
    BY DEF DeleteRows, StatusSet
<1>4. RowsTyped'
    BY <1>2, <1>3 DEF TableInv, RowsTyped, Pairs, Values
<1>5. RowsOwned'
    BY <1>2, <1>3 DEF TableInv, RowsOwned, HasRow, NoRow
<1>6. OutKept' /\ Consented'
    BY <1>2, <1>3 DEF TableInv, OutKept, Consented, NoRow
<1> QED
    BY <1>4, <1>5, <1>6 DEF TableInv

\* Blocklisting unsubscribes subscriptions that are there, and makes none.
LEMMA BlocklistRowsKeep ==
    ASSUME TableInv, NEW S \in SUBSET Subscribers, BlocklistRows(S)
    PROVE  TableInv'
<1> DEFINE cells == Subscriptions(S, Lists)
<1>1. "unsubscribed" \in Values
    BY DEF Values, SubscriptionStatuses
<1>2. /\ subscription' \in [Subscribers -> [Lists -> Values]]
      /\ \A s \in Subscribers, l \in Lists :
           subscription'[s][l] = IF <<s, l>> \in cells THEN "unsubscribed" ELSE subscription[s][l]
    BY <1>1, MarkType DEF BlocklistRows
<1>3. /\ status' = [s \in Subscribers |-> IF s \in S /\ HasRow(s) THEN "blocklisted" ELSE status[s]]
      /\ rowId' = rowId
      /\ optedOut' = optedOut \cup cells /\ consent' = consent
    BY DEF BlocklistRows, StatusSet
<1>4. cells \subseteq Pairs /\ \A s \in Subscribers, l \in Lists : <<s, l>> \in cells => subscription[s][l] # NoRow
    BY DEF Subscriptions, Row, Pairs
<1>5. RowsTyped'
    BY <1>2, <1>3, <1>4 DEF TableInv, RowsTyped, Pairs, Values, SubscriberStatuses
<1>6. RowsOwned'
    BY <1>2, <1>3, <1>4 DEF TableInv, RowsTyped, RowsOwned, HasRow, NoRow
<1>7. OutKept' /\ Consented'
    BY <1>2, <1>3 DEF TableInv, OutKept, Consented
<1> QED
    BY <1>5, <1>6, <1>7 DEF TableInv

\* Unsubscribing changes subscriptions that are there, and makes none.
LEMMA UnsubscribeRowsKeep ==
    ASSUME TableInv, NEW S \in SUBSET Subscribers, NEW L \in SUBSET Lists,
           UnsubscribeRows(Subscriptions(S, L))
    PROVE  TableInv'
<1> DEFINE cells == Subscriptions(S, L)
<1>1. "unsubscribed" \in Values
    BY DEF Values, SubscriptionStatuses
<1>2. /\ subscription' \in [Subscribers -> [Lists -> Values]]
      /\ \A s \in Subscribers, l \in Lists :
           subscription'[s][l] = IF <<s, l>> \in cells THEN "unsubscribed" ELSE subscription[s][l]
    BY <1>1, MarkType DEF UnsubscribeRows
<1>3. UNCHANGED <<status, rowId, consent>> /\ optedOut' = optedOut \cup cells
    BY DEF UnsubscribeRows
<1>4. cells \subseteq Pairs /\ \A s \in Subscribers, l \in Lists : <<s, l>> \in cells => subscription[s][l] # NoRow
    BY DEF Subscriptions, Row, Pairs
<1>5. RowsTyped'
    BY <1>2, <1>3, <1>4 DEF TableInv, RowsTyped, Pairs, Values
<1>6. RowsOwned'
    BY <1>2, <1>3, <1>4 DEF TableInv, RowsOwned, HasRow
<1>7. OutKept' /\ Consented'
    BY <1>2, <1>3 DEF TableInv, OutKept, Consented
<1> QED
    BY <1>5, <1>6, <1>7 DEF TableInv

\* Removing subscriptions takes the opt-outs with them: there is no row to keep unsubscribed.
LEMMA RemoveRowsKeep ==
    ASSUME TableInv, NEW cells, RemoveRows(cells)
    PROVE  TableInv'
<1>1. NoRow \in Values
    BY DEF Values
<1>2. /\ subscription' \in [Subscribers -> [Lists -> Values]]
      /\ \A s \in Subscribers, l \in Lists :
           subscription'[s][l] = IF <<s, l>> \in cells THEN NoRow ELSE subscription[s][l]
    BY <1>1, MarkType DEF RemoveRows
<1>3. /\ UNCHANGED <<status, rowId>>
      /\ optedOut' = optedOut \ cells /\ consent' = consent \ cells
    BY DEF RemoveRows
<1>4. RowsTyped'
    BY <1>2, <1>3 DEF TableInv, RowsTyped, Pairs, Values
<1>5. RowsOwned'
    BY <1>2, <1>3 DEF TableInv, RowsOwned, HasRow
<1>6. OutKept' /\ Consented'
    BY <1>2, <1>3 DEF TableInv, OutKept, Consented, NoRow
<1> QED
    BY <1>4, <1>5, <1>6 DEF TableInv

\* A new row has no subscription yet (RowsOwned), so that its statement overwrites no opt-out.
LEMMA InsertRowKeeps ==
    ASSUME TableInv, NEW s \in Subscribers, ~HasRow(s), NEW st \in SubscriberStatuses,
           NEW L \in SUBSET Lists, NEW sub \in {"unconfirmed", "confirmed"},
           InsertRow(s, st, L, sub),
           consent' = IF sub = "confirmed" THEN consent \cup ({s} \X Known(L)) ELSE consent
    PROVE  TableInv'
<1> DEFINE value == IF st = "blocklisted" THEN "unsubscribed" ELSE sub
           cells == {s} \X Known(L)
<1>1. value \in Values /\ value # NoRow
    BY DEF Values, SubscriptionStatuses, NoRow
<1>2. /\ subscription' \in [Subscribers -> [Lists -> Values]]
      /\ \A x \in Subscribers, l \in Lists :
           subscription'[x][l] = IF <<x, l>> \in cells THEN value ELSE subscription[x][l]
    BY <1>1, MarkType DEF InsertRow
<1>3. /\ status' = [status EXCEPT ![s] = st] /\ rowId' = [rowId EXCEPT ![s] = @ + 1]
      /\ optedOut' = IF value = "unsubscribed" THEN optedOut \cup cells ELSE optedOut
    BY DEF InsertRow
<1>4. cells \subseteq Pairs /\ \A x \in Subscribers, l \in Lists : <<x, l>> \in cells => x = s
    BY DEF Known, Pairs
<1>5. \A l \in Lists : subscription[s][l] = NoRow
    BY DEF TableInv, RowsOwned
<1>6. RowsTyped'
    BY <1>2, <1>3, <1>4 DEF TableInv, RowsTyped, Pairs, Values
<1>7. RowsOwned'
    <2> SUFFICES ASSUME NEW x \in Subscribers, NEW l \in Lists, subscription'[x][l] # NoRow
                 PROVE  status'[x] # NoRow
        BY DEF RowsOwned, HasRow
    <2>1. CASE x = s
        BY <2>1, <1>3 DEF TableInv, RowsTyped, SubscriberStatuses, NoRow
    <2>2. CASE x # s
        BY <2>2, <1>2, <1>3, <1>4 DEF TableInv, RowsTyped, RowsOwned, HasRow
    <2> QED
        BY <2>1, <2>2
<1>8. OutKept'
    BY <1>2, <1>3, <1>4, <1>5 DEF TableInv, OutKept, NoRow
<1>9. Consented'
    BY <1>2, <1>3, <1>4 DEF TableInv, Consented
<1> QED
    BY <1>6, <1>7, <1>8, <1>9 DEF TableInv

\* What the upsert leaves of a subscription: unsubscribed stays, unless it may resubscribe.
LEMMA MergedFacts ==
    ASSUME NEW old \in Values, NEW st, NEW sub \in {"unconfirmed", "confirmed"}, NEW resubscribe \in BOOLEAN
    PROVE  LET m == Merged(old, st, sub, resubscribe) IN
           /\ m \in SubscriptionStatuses
           /\ m = "confirmed" => old = "confirmed" \/ sub = "confirmed"
           /\ st = "blocklisted" => m = "unsubscribed"
           /\ old = "unsubscribed" /\ ~resubscribe => m = "unsubscribed"
BY DEF Merged, Values, SubscriptionStatuses, NoRow

\* The upsert on a row that is there, subscription by subscription.
LEMMA UpdateRowKeeps ==
    ASSUME TableInv, NEW s \in Subscribers, HasRow(s), NEW st \in SubscriberStatuses \cup {""},
           NEW L \in SUBSET Lists, NEW sub \in {"unconfirmed", "confirmed"},
           NEW delete \in BOOLEAN, NEW resubscribe \in BOOLEAN,
           UpdateRow(s, st, L, sub, delete, resubscribe),
           consent' = (IF delete THEN consent \ ({s} \X (Lists \ L)) ELSE consent)
                        \cup (IF sub = "confirmed" THEN {s} \X Known(L) ELSE {})
    PROVE  TableInv'
<1> DEFINE cells == {s} \X Known(L)
           dropped == IF delete THEN ({s} \X Lists) \ cells ELSE {}
           m(l) == Merged(subscription[s][l], st, sub, resubscribe)
<1>1. Known(L) \subseteq Lists /\ Known(L) \subseteq L
    BY DEF Known
<1>2. \A l \in Lists : subscription[s][l] \in Values
    BY DEF TableInv, RowsTyped
<1>3. \A l \in Lists :
        /\ m(l) \in SubscriptionStatuses
        /\ m(l) = "confirmed" => subscription[s][l] = "confirmed" \/ sub = "confirmed"
        /\ st = "blocklisted" => m(l) = "unsubscribed"
        /\ subscription[s][l] = "unsubscribed" /\ ~resubscribe => m(l) = "unsubscribed"
    BY <1>2, MergedFacts
<1>4. /\ subscription' = [subscription EXCEPT ![s] = [l \in Lists |->
            IF <<s, l>> \in cells THEN m(l) ELSE IF delete THEN NoRow ELSE subscription[s][l]]]
      /\ status' = (IF st = "" THEN status ELSE [status EXCEPT ![s] = st])
      /\ rowId' = rowId
      /\ optedOut' = (IF st = "blocklisted" THEN optedOut \cup cells
                      ELSE IF resubscribe THEN optedOut \ cells ELSE optedOut) \ dropped
    BY DEF UpdateRow, TableInv, RowsTyped
<1> HIDE DEF m
<1>5. /\ \A l \in Lists : subscription'[s][l] =
            IF l \in Known(L) THEN m(l) ELSE IF delete THEN NoRow ELSE subscription[s][l]
      /\ \A x \in Subscribers, l \in Lists : x # s => subscription'[x][l] = subscription[x][l]
    BY <1>4 DEF TableInv, RowsTyped
<1>6. RowsTyped'
    <2>1. [l \in Lists |-> IF <<s, l>> \in cells THEN m(l) ELSE IF delete THEN NoRow ELSE subscription[s][l]]
            \in [Lists -> Values]
        BY <1>2, <1>3 DEF Values
    <2>2. subscription' \in [Subscribers -> [Lists -> Values]]
        BY <1>4, <2>1 DEF TableInv, RowsTyped
    <2>3. status' \in [Subscribers -> SubscriberStatuses \cup {NoRow}]
        BY <1>4 DEF TableInv, RowsTyped
    <2>4. optedOut' \subseteq Pairs
        BY <1>1, <1>4 DEF TableInv, RowsTyped, Pairs
    <2> QED
        BY <1>4, <2>2, <2>3, <2>4 DEF TableInv, RowsTyped, Values
<1>7. RowsOwned'
    BY <1>4, <1>5 DEF TableInv, RowsTyped, RowsOwned, HasRow, SubscriberStatuses, NoRow
<1>8. OutKept'
    <2> SUFFICES ASSUME NEW x \in Subscribers, NEW l \in Lists, <<x, l>> \in optedOut'
                 PROVE  subscription'[x][l] = "unsubscribed"
        BY DEF OutKept
    <2>1. CASE x # s
        BY <2>1, <1>4, <1>5 DEF TableInv, OutKept
    <2>2. CASE x = s /\ l \in Known(L)
        <3>1. subscription'[x][l] = m(l)
            BY <2>2, <1>5
        <3>2. st = "blocklisted" \/ (<<s, l>> \in optedOut /\ ~resubscribe)
            BY <2>2, <1>4
        <3> QED
            BY <2>2, <3>1, <3>2, <1>3 DEF TableInv, OutKept
    <2>3. CASE x = s /\ l \notin Known(L)
        BY <2>3, <1>4, <1>5 DEF TableInv, OutKept
    <2> QED
        BY <2>1, <2>2, <2>3
<1>9. Consented'
    <2> SUFFICES ASSUME NEW x \in Subscribers, NEW l \in Lists, subscription'[x][l] = "confirmed"
                 PROVE  <<x, l>> \in consent'
        BY DEF Consented
    <2>1. CASE x # s
        BY <2>1, <1>5 DEF TableInv, Consented
    <2>2. CASE x = s /\ l \in Known(L)
        BY <2>2, <1>1, <1>3, <1>5 DEF TableInv, Consented
    <2>3. CASE x = s /\ l \notin Known(L)
        BY <2>3, <1>5 DEF TableInv, Consented, NoRow
    <2> QED
        BY <2>1, <2>2, <2>3
<1> QED
    BY <1>6, <1>7, <1>8, <1>9 DEF TableInv

-----------------------------------------------------------------------------
(* Steps of requests: where they go next.                                  *)

\* A request that is not under way is well typed.
LEMMA IdleType == Idle \in RequestType /\ Idle.at = "idle"
BY DEF Idle, RequestType, Stages

\* A request goes on with rec, and no other moves.
LEMMA RequestGoes ==
    ASSUME RequestInv, NEW r \in Requests, NEW rec \in RequestType,
           rec.at # "idle" => rec.sub \in Subscribers,
           rec.at \in {"merge", "write", "patch"} => rec.read \in SubscriberStatuses,
           request' = [request EXCEPT ![r] = rec]
    PROVE  RequestInv'
BY DEF RequestInv, At, RequestType, SubscriberStatuses

\* Ending a request keeps the others as they were.
LEMMA RequestEnds ==
    ASSUME RequestInv, NEW r \in Requests, Done(r)
    PROVE  RequestInv'
BY RequestGoes, IdleType DEF Done

\* Steps that leave the requests alone.
LEMMA SameRequests == ASSUME RequestInv, UNCHANGED request PROVE RequestInv'
BY DEF RequestInv, At, RequestType

\* Steps that mail nothing.
LEMMA SameLinks == ASSUME LinkInv, UNCHANGED links PROVE LinkInv'
BY DEF LinkInv, LinkType

\* A mail is to a subscriber with the id the row has now.
LEMMA MailLinks ==
    ASSUME LinkInv, TableInv, NEW s \in Subscribers, NEW L, Mail(s, L)
    PROVE  LinkInv'
<1>1. Pending(s, L) \subseteq Lists /\ rowId[s] \in Nat
    BY DEF Pending, TableInv, RowsTyped
<1> QED
    BY <1>1 DEF Mail, LinkInv, LinkType

\* A request under way that is still about its row.
LEMMA RequestFacts ==
    ASSUME RequestInv, NEW r \in Requests
    PROVE  /\ request[r] \in RequestType
           /\ ~At(r, "idle") => request[r].sub \in Subscribers
           /\ SameRow(r) => HasRow(request[r].sub)
BY DEF RequestInv, SameRow

-----------------------------------------------------------------------------
(* The requests of several statements.                                     *)

\* The last step of a request that sends an opt-in mail.
LEMMA SendMailKeeps ==
    ASSUME Inv, NEW r \in Requests, SendMail(r) PROVE Inv'
<1>1. TableInv'
    BY SameTables DEF Inv, SendMail, tables, history
<1>2. RequestInv'
    BY RequestEnds DEF Inv, SendMail
<1>3. LinkInv'
    <2>1. request[r].sub \in Subscribers
        BY RequestFacts DEF Inv, SendMail, At
    <2> QED
        BY <2>1, MailLinks, SameLinks DEF Inv, SendMail
<1> QED
    BY <1>1, <1>2, <1>3 DEF Inv

\* The subscription form: insert, or look up, read and merge.
LEMMA FormKeeps ==
    ASSUME Inv, NEW r \in Requests,
           \/ \E s \in Subscribers, L \in SUBSET Lists : FormPost(r, s, L)
           \/ FormInsert(r) \/ Lookup(r) \/ FormMerge(r)
    PROVE  Inv'
<1> DEFINE q == request[r]
<1>0. q \in RequestType /\ (~At(r, "idle") => q.sub \in Subscribers) /\ (SameRow(r) => HasRow(q.sub))
    BY RequestFacts DEF Inv
<1>1. ASSUME NEW s \in Subscribers, NEW L \in SUBSET Lists, FormPost(r, s, L)
      PROVE  Inv'
    <2>1. [Idle EXCEPT !.at = "insert", !.sub = s, !.saw = L] \in RequestType
        BY DEF Idle, RequestType, Stages
    <2>2. RequestInv'
        BY <1>1, <2>1, RequestGoes DEF Inv, FormPost, Begin, Idle
    <2> QED
        BY <1>1, <2>2, SameTables, SameLinks DEF Inv, FormPost, tables, history
<1>2. CASE FormInsert(r)
    <2>0. q.sub \in Subscribers /\ q.saw \in SUBSET Lists
        BY <1>0, <1>2 DEF FormInsert, At, RequestType
    <2>1. CASE HasRow(q.sub)
        <3>1. request' = [request EXCEPT ![r] = [q EXCEPT !.at = "lookup"]]
            BY <1>2, <2>1 DEF FormInsert, Goto
        <3>2. [q EXCEPT !.at = "lookup"] \in RequestType
            BY <1>0 DEF RequestType, Stages
        <3>3. RequestInv'
            BY <2>0, <3>1, <3>2, <1>0, RequestGoes DEF Inv, RequestType
        <3> QED
            BY <1>2, <2>1, <3>3, SameTables, SameLinks DEF Inv, FormInsert, tables, history
    <2>2. CASE ~HasRow(q.sub)
        <3>1. InsertRow(q.sub, "enabled", q.saw, "unconfirmed") /\ consent' = consent
            BY <1>2, <2>2 DEF FormInsert, FormSubscription
        <3>2. TableInv'
            BY <2>0, <2>2, <3>1, InsertRowKeeps DEF Inv, SubscriberStatuses
        <3>3. request' = [request EXCEPT ![r] = [q EXCEPT !.at = "mail", !.id = rowId'[q.sub]]]
            BY <1>2, <2>2 DEF FormInsert
        <3>4. [q EXCEPT !.at = "mail", !.id = rowId'[q.sub]] \in RequestType
            BY <1>0, <2>0, <3>2 DEF RequestType, Stages, TableInv, RowsTyped
        <3>5. RequestInv'
            BY <2>0, <3>3, <3>4, <1>0, RequestGoes DEF Inv, RequestType
        <3> QED
            BY <1>2, <3>2, <3>5, SameLinks DEF Inv, FormInsert
    <2> QED
        BY <2>1, <2>2
<1>3. CASE Lookup(r)
    <2>0. q.sub \in Subscribers
        BY <1>0, <1>3 DEF Lookup, At
    <2>1. ASSUME HasRow(q.sub) PROVE RequestInv'
        <3> DEFINE rec == [q EXCEPT !.at = "merge", !.read = status[q.sub], !.id = rowId[q.sub]]
        <3>1. status[q.sub] \in SubscriberStatuses /\ rowId[q.sub] \in Nat
            BY <2>0, <2>1 DEF Inv, TableInv, RowsTyped, HasRow
        <3>2. rec \in RequestType /\ rec.sub = q.sub /\ rec.read = status[q.sub]
            BY <1>0, <3>1 DEF RequestType, Stages
        <3>3. request' = [request EXCEPT ![r] = rec]
            BY <1>3, <2>1 DEF Lookup
        <3> QED
            BY <2>0, <3>1, <3>2, <3>3, RequestGoes DEF Inv
    <2>2. RequestInv'
        BY <1>3, <2>1, RequestEnds DEF Inv, Lookup
    <2> QED
        BY <1>3, <2>2, SameTables, SameLinks DEF Inv, Lookup, tables, history
<1>4. CASE FormMerge(r)
    <2>0. q.sub \in Subscribers /\ q.saw \in SUBSET Lists /\ q.read \in SubscriberStatuses
        BY <1>0, <1>4 DEF FormMerge, At, RequestType, Inv, RequestInv
    <2>1. CASE SameRow(r)
        <3>1. UpdateRow(q.sub, q.read, q.saw, "unconfirmed", FALSE, TRUE) /\ consent' = consent
            BY <1>4, <2>1 DEF FormMerge, FormStatus, FormSubscription
        <3>2. consent' = (IF FALSE THEN consent \ ({q.sub} \X (Lists \ q.saw)) ELSE consent)
                            \cup (IF "unconfirmed" = "confirmed" THEN {q.sub} \X Known(q.saw) ELSE {})
            BY <3>1
        <3>3. TableInv'
            BY <1>0, <2>0, <2>1, <3>1, <3>2, UpdateRowKeeps DEF Inv
        <3>4. request' = [request EXCEPT ![r] = [q EXCEPT !.at = "mail"]]
            BY <1>4, <2>1 DEF FormMerge, Goto
        <3>5. [q EXCEPT !.at = "mail"] \in RequestType
            BY <1>0 DEF RequestType, Stages
        <3>6. RequestInv'
            BY <2>0, <3>4, <3>5, <1>0, RequestGoes DEF Inv, RequestType
        <3> QED
            BY <1>4, <3>3, <3>6, SameLinks DEF Inv, FormMerge
    <2>2. CASE ~SameRow(r)
        BY <1>4, <2>2, RequestEnds, SameTables, SameLinks DEF Inv, FormMerge, tables, history
    <2> QED
        BY <2>1, <2>2
<1> QED
    BY <1>1, <1>2, <1>3, <1>4

\* The preferences page: it writes back the status it read.
LEMMA PrefsKeep ==
    ASSUME Inv, NEW r \in Requests,
           \/ \E s \in Subscribers, L \in SUBSET Lists : PrefsRead(r, s, L)
           \/ PrefsWrite(r) \/ PrefsSubscriptions(r) \/ PrefsUnsubscribe(r)
    PROVE  Inv'
<1> DEFINE q == request[r]
<1>0. q \in RequestType /\ (~At(r, "idle") => q.sub \in Subscribers) /\ (SameRow(r) => HasRow(q.sub))
    BY RequestFacts DEF Inv
<1>1. ASSUME NEW s \in Subscribers, NEW L \in SUBSET Lists, PrefsRead(r, s, L)
      PROVE  Inv'
    <2> DEFINE rec == [Idle EXCEPT !.at = "write", !.sub = s, !.id = rowId[s], !.lists = L, !.read = status[s]]
    <2>1. status[s] \in SubscriberStatuses /\ rowId[s] \in Nat
        BY <1>1 DEF PrefsRead, Inv, TableInv, RowsTyped, HasRow
    <2>2. rec \in RequestType /\ rec.sub = s /\ rec.read = status[s]
        BY <2>1 DEF Idle, RequestType, Stages
    <2>3. request' = [request EXCEPT ![r] = rec]
        BY <1>1 DEF PrefsRead, Begin
    <2>4. RequestInv'
        BY <2>1, <2>2, <2>3, RequestGoes DEF Inv
    <2> QED
        BY <1>1, <2>4, SameTables, SameLinks DEF Inv, PrefsRead, tables, history
<1>2. CASE PrefsWrite(r)
    <2>0. q.sub \in Subscribers /\ q.read \in SubscriberStatuses
        BY <1>0, <1>2 DEF PrefsWrite, At, Inv, RequestInv
    <2>1. CASE SameRow(r)
        <3>1. TableInv'
            <4>1. status' = [status EXCEPT ![q.sub] = q.read]
                  /\ UNCHANGED <<rowId, subscription, optedOut, consent>>
                BY <1>2, <2>1 DEF PrefsWrite, history
            <4> QED
                BY <2>0, <4>1
                DEF Inv, TableInv, RowsTyped, RowsOwned, OutKept, Consented, HasRow, Pairs, Values,
                    SubscriberStatuses, NoRow
        <3>2. request' = [request EXCEPT ![r] = [q EXCEPT !.at = "subscriptions"]]
            BY <1>2, <2>1 DEF PrefsWrite, Goto
        <3>3. [q EXCEPT !.at = "subscriptions"] \in RequestType
            BY <1>0 DEF RequestType, Stages
        <3>4. RequestInv'
            BY <2>0, <3>2, <3>3, <1>0, RequestGoes DEF Inv, RequestType
        <3> QED
            BY <1>2, <3>1, <3>4, SameLinks DEF Inv, PrefsWrite
    <2>2. CASE ~SameRow(r)
        BY <1>2, <2>2, RequestEnds, SameTables, SameLinks DEF Inv, PrefsWrite, history
    <2> QED
        BY <2>1, <2>2
<1>3. CASE PrefsSubscriptions(r)
    <2> DEFINE saw == IF SameRow(r) THEN Unchecked(q) ELSE {}
               rec == [q EXCEPT !.at = "unsubscribe", !.saw = saw]
    <2>1. saw \in SUBSET Lists
        BY DEF Unchecked
    <2>2. rec \in RequestType /\ rec.sub = q.sub /\ rec.at = "unsubscribe"
        BY <1>0, <2>1 DEF RequestType, Stages
    <2>3. request' = [request EXCEPT ![r] = rec]
        BY <1>3 DEF PrefsSubscriptions
    <2>4. RequestInv'
        BY <1>0, <1>3, <2>2, <2>3, RequestGoes DEF Inv, PrefsSubscriptions, At
    <2> QED
        BY <1>3, <2>4, SameTables, SameLinks DEF Inv, PrefsSubscriptions, tables, history
<1>4. CASE PrefsUnsubscribe(r)
    <2>0. q.sub \in Subscribers /\ q.saw \in SUBSET Lists
        BY <1>0, <1>4 DEF PrefsUnsubscribe, At, RequestType
    <2>1. \E S \in SUBSET Subscribers, L \in SUBSET Lists : UnsubscribeRows(Subscriptions(S, L))
        <3>1. CASE SameRow(r)
            <4>1. UnsubscribeRows(Subscriptions({q.sub}, q.saw)) /\ {q.sub} \in SUBSET Subscribers
                BY <1>4, <2>0, <3>1 DEF PrefsUnsubscribe
            <4> QED
                BY <2>0, <4>1
        <3>2. CASE ~SameRow(r)
            <4>1. UnsubscribeRows({}) /\ Subscriptions({}, {}) = {}
                BY <1>4, <3>2 DEF PrefsUnsubscribe, Subscriptions
            <4>2. UnsubscribeRows(Subscriptions({}, {}))
                BY <4>1
            <4>3. {} \in SUBSET Subscribers /\ {} \in SUBSET Lists
                OBVIOUS
            <4> QED
                BY <4>2, <4>3
        <3> QED
            BY <3>1, <3>2
    <2>2. TableInv'
        BY <2>1, UnsubscribeRowsKeep DEF Inv
    <2> QED
        BY <1>4, <2>2, RequestEnds, SameLinks DEF Inv, PrefsUnsubscribe
<1> QED
    BY <1>1, <1>2, <1>3, <1>4

\* Opening the link of an opt-in mail, and confirming.
LEMMA OptinKeeps ==
    ASSUME Inv, NEW r \in Requests, (\E k \in links : OptinOpen(r, k)) \/ OptinConfirm(r)
    PROVE  Inv'
<1> DEFINE q == request[r]
<1>0. q \in RequestType /\ (~At(r, "idle") => q.sub \in Subscribers)
    BY RequestFacts DEF Inv
<1>1. ASSUME NEW k \in links, OptinOpen(r, k)
      PROVE  Inv'
    <2> DEFINE rec == [Idle EXCEPT !.at = "confirm", !.sub = k.sub, !.id = k.id, !.lists = k.lists]
    <2>1. k \in LinkType
        BY DEF Inv, LinkInv
    <2>2. rec \in RequestType /\ rec.sub \in Subscribers /\ rec.at = "confirm"
        BY <2>1 DEF Idle, RequestType, Stages, LinkType
    <2>3. request' = [request EXCEPT ![r] = rec]
        BY <1>1 DEF OptinOpen, Begin
    <2>4. RequestInv'
        BY <2>2, <2>3, RequestGoes DEF Inv
    <2> QED
        BY <1>1, <2>4, SameTables, SameLinks DEF Inv, OptinOpen, tables, history
<1>2. CASE OptinConfirm(r)
    <2> DEFINE cells == IF SameRow(r) THEN Subscriptions({q.sub}, q.lists) ELSE {}
    <2>0. q.sub \in Subscribers /\ q.lists \in SUBSET Lists
        BY <1>0, <1>2 DEF OptinConfirm, At, RequestType
    <2>1. \A s \in Subscribers, l \in Lists :
            <<s, l>> \in cells => subscription[s][l] # NoRow /\ rowId[q.sub] = q.id
        BY DEF Subscriptions, Row, SameRow
    <2>2. "confirmed" \in Values
        BY DEF Values, SubscriptionStatuses
    <2>3. /\ subscription' \in [Subscribers -> [Lists -> Values]]
          /\ \A s \in Subscribers, l \in Lists :
               subscription'[s][l] = IF <<s, l>> \in cells THEN "confirmed" ELSE subscription[s][l]
        BY <1>2, <2>2, MarkType DEF OptinConfirm, Inv
    <2>4. /\ consent' = (IF rowId[q.sub] = q.id THEN consent \cup cells ELSE consent)
          /\ optedOut' = optedOut \ cells /\ UNCHANGED <<status, rowId>>
        BY <1>2 DEF OptinConfirm
    <2>5. RowsTyped'
        BY <2>3, <2>4 DEF Inv, TableInv, RowsTyped, Pairs, Values
    <2>6. RowsOwned'
        BY <2>1, <2>3, <2>4 DEF Inv, TableInv, RowsOwned, HasRow
    <2>10. OutKept /\ Consented
        BY DEF Inv, TableInv
    <2> HIDE DEF cells, q
    <2>7. OutKept'
        BY <2>3, <2>4, <2>10 DEF OutKept
    <2>9. Consented'
        <3> SUFFICES ASSUME NEW s \in Subscribers, NEW l \in Lists, subscription'[s][l] = "confirmed"
                     PROVE  <<s, l>> \in consent'
            BY DEF Consented
        <3>1. CASE <<s, l>> \in cells
            BY <3>1, <2>1, <2>4
        <3>2. CASE <<s, l>> \notin cells
            <4>1. <<s, l>> \in consent
                BY <3>2, <2>3, <2>10 DEF Consented
            <4> QED
                BY <4>1, <2>4
        <3> QED
            BY <3>1, <3>2
    <2>8. RequestInv' /\ LinkInv'
        BY <1>2, RequestEnds, SameLinks DEF Inv, OptinConfirm
    <2> QED
        BY <2>5, <2>6, <2>7, <2>8, <2>9 DEF Inv, TableInv
<1> QED
    BY <1>1, <1>2

\* A request whose mail is to be sent.
LEMMA MailNext ==
    ASSUME RequestInv, NEW r \in Requests, NEW s \in Subscribers, NEW id \in Nat, NEW L \in SUBSET Lists,
           request' = [request EXCEPT ![r] = [Idle EXCEPT !.at = "mail", !.sub = s, !.id = id, !.lists = L]]
    PROVE  RequestInv'
<1> DEFINE rec == [Idle EXCEPT !.at = "mail", !.sub = s, !.id = id, !.lists = L]
<1>1. rec \in RequestType /\ rec.at = "mail" /\ rec.sub = s
    BY DEF Idle, RequestType, Stages
<1> QED
    BY <1>1, RequestGoes

\* A subscriber made by an administrator.
LEMMA CreateKeeps ==
    ASSUME Inv, NEW r \in Requests, NEW s \in Subscribers, NEW st \in SubscriberStatuses,
           NEW L \in SUBSET Lists, NEW p \in BOOLEAN, Create(r, s, st, L, p)
    PROVE  Inv'
<1> DEFINE sub == IF p THEN "confirmed" ELSE "unconfirmed"
<1>1. sub \in {"unconfirmed", "confirmed"} /\ (sub = "confirmed" <=> p)
    OBVIOUS
<1>2. InsertRow(s, st, L, sub) /\ ~HasRow(s)
      /\ consent' = IF sub = "confirmed" THEN consent \cup ({s} \X Known(L)) ELSE consent
    BY <1>1 DEF Create
<1> HIDE DEF sub
<1>3. TableInv'
    BY <1>1, <1>2, InsertRowKeeps DEF Inv
<1>4. rowId'[s] \in Nat
    BY <1>3 DEF TableInv, RowsTyped
<1>5. RequestInv'
    BY <1>4, MailNext, SameRequests DEF Inv, Create, Begin
<1> QED
    BY <1>3, <1>5, SameLinks DEF Inv, Create

\* A subscriber edited by an administrator.
LEMMA EditKeeps ==
    ASSUME Inv, NEW r \in Requests, NEW s \in Subscribers, NEW st \in SubscriberStatuses \cup {""},
           NEW L \in SUBSET Lists, NEW p \in BOOLEAN, Edit(r, s, st, L, p)
    PROVE  Inv'
<1> DEFINE sub == IF p THEN "confirmed" ELSE "unconfirmed"
<1>1. sub \in {"unconfirmed", "confirmed"} /\ (sub = "confirmed" <=> p)
    OBVIOUS
<1>2. UpdateRow(s, st, L, sub, TRUE, FALSE) /\ HasRow(s)
      /\ consent' = (IF TRUE THEN consent \ ({s} \X (Lists \ L)) ELSE consent)
                      \cup (IF sub = "confirmed" THEN {s} \X Known(L) ELSE {})
    BY <1>1 DEF Edit
<1> HIDE DEF sub
<1>3. TableInv'
    BY <1>1, <1>2, UpdateRowKeeps DEF Inv
<1>4. rowId[s] \in Nat
    BY DEF Inv, TableInv, RowsTyped
<1>5. RequestInv'
    BY <1>4, MailNext, SameRequests DEF Inv, Edit, Begin
<1> QED
    BY <1>3, <1>5, SameLinks DEF Inv, Edit

\* The partial update: it writes back the status it read.
LEMMA PatchKeeps ==
    ASSUME Inv, NEW r \in Requests,
           \/ \E s \in Subscribers : PatchRead(r, s)
           \/ \E st \in SubscriberStatuses \cup {"", request[r].read}, L \in SUBSET Lists, replace, p \in BOOLEAN :
                PatchWrite(r, st, L, replace, p)
    PROVE  Inv'
<1> DEFINE q == request[r]
<1>0. q \in RequestType /\ (~At(r, "idle") => q.sub \in Subscribers) /\ (SameRow(r) => HasRow(q.sub))
    BY RequestFacts DEF Inv
<1>1. ASSUME NEW s \in Subscribers, PatchRead(r, s)
      PROVE  Inv'
    <2> DEFINE rec == [Idle EXCEPT !.at = "patch", !.sub = s, !.id = rowId[s], !.read = status[s]]
    <2>1. status[s] \in SubscriberStatuses /\ rowId[s] \in Nat
        BY <1>1 DEF PatchRead, Inv, TableInv, RowsTyped, HasRow
    <2>2. rec \in RequestType /\ rec.sub = s /\ rec.read = status[s]
        BY <2>1 DEF Idle, RequestType, Stages
    <2>3. request' = [request EXCEPT ![r] = rec]
        BY <1>1 DEF PatchRead, Begin
    <2>4. RequestInv'
        BY <2>1, <2>2, <2>3, RequestGoes DEF Inv
    <2> QED
        BY <1>1, <2>4, SameTables, SameLinks DEF Inv, PatchRead, tables, history
<1>2. ASSUME NEW st \in SubscriberStatuses \cup {"", q.read}, NEW L \in SUBSET Lists,
             NEW replace \in BOOLEAN, NEW p \in BOOLEAN, PatchWrite(r, st, L, replace, p)
      PROVE  Inv'
    <2>0. q.sub \in Subscribers /\ st \in SubscriberStatuses \cup {""}
        BY <1>0, <1>2 DEF PatchWrite, At, Inv, RequestInv
    <2>1. CASE SameRow(r)
        <3> DEFINE sub == IF p THEN "confirmed" ELSE "unconfirmed"
        <3>1. sub \in {"unconfirmed", "confirmed"} /\ (sub = "confirmed" <=> p)
            OBVIOUS
        <3>2. UpdateRow(q.sub, st, L, sub, replace, FALSE)
              /\ consent' = (IF replace THEN consent \ ({q.sub} \X (Lists \ L)) ELSE consent)
                              \cup (IF sub = "confirmed" THEN {q.sub} \X Known(L) ELSE {})
            BY <1>2, <2>1, <3>1 DEF PatchWrite
        <3> HIDE DEF sub
        <3>3. TableInv'
            BY <1>0, <2>0, <2>1, <3>1, <3>2, UpdateRowKeeps DEF Inv
        <3> DEFINE rec == [q EXCEPT !.at = "mail", !.lists = L]
        <3>4. rec \in RequestType /\ rec.at = "mail" /\ rec.sub = q.sub
            BY <1>0 DEF RequestType, Stages
        <3>5. ASSUME ~p PROVE request' = [request EXCEPT ![r] = rec]
            BY <1>2, <2>1, <3>5 DEF PatchWrite
        <3> HIDE DEF rec
        <3>6. RequestInv'
            <4>1. CASE p
                BY <1>2, <2>1, <4>1, RequestEnds DEF PatchWrite, Inv
            <4>2. CASE ~p
                BY <2>0, <3>4, <3>5, <4>2, RequestGoes DEF Inv
            <4> QED
                BY <4>1, <4>2
        <3> QED
            BY <1>2, <3>3, <3>6, SameLinks DEF Inv, PatchWrite
    <2>2. CASE ~SameRow(r)
        BY <1>2, <2>2, RequestEnds, SameTables, SameLinks DEF Inv, PatchWrite, tables, history
    <2> QED
        BY <2>1, <2>2
<1> QED
    BY <1>1, <1>2

-----------------------------------------------------------------------------
(* The requests of one statement.                                          *)

\* Such a request leaves the others and the links alone.
LEMMA SingleKeeps ==
    ASSUME Inv, Single, TableInv'
    PROVE  Inv'
BY SameRequests, SameLinks DEF Inv, Single

\* The unsubscribe page and the link in a message.
LEMMA UnsubscribeKeeps ==
    ASSUME Inv, NEW s \in Subscribers, NEW L \in SUBSET Lists, NEW b \in BOOLEAN, Unsubscribe(s, L, b)
    PROVE  Inv'
<1>1. {s} \in SUBSET Subscribers
    OBVIOUS
<1>2. BlocklistRows({s}) \/ UnsubscribeRows(Subscriptions({s}, L))
    BY DEF Unsubscribe
<1>3. TableInv'
    BY <1>1, <1>2, BlocklistRowsKeep, UnsubscribeRowsKeep DEF Inv
<1> QED
    BY <1>3, SingleKeeps DEF Unsubscribe

\* Wiping by the subscriber, and every deletion by an administrator.
LEMMA DeleteKeeps ==
    ASSUME Inv,
           \/ \E s \in Subscribers : Wipe(s)
           \/ \E S \in SUBSET Subscribers : Delete(S)
           \/ \E L \in SUBSET Lists, st \in SubscriptionStatuses \cup {""} : Delete(Selected(L, st))
           \/ DeleteOrphans \/ DeleteBlocklisted
    PROVE  Inv'
<1>1. Single /\ \E S \in SUBSET Subscribers : DeleteRows(S)
    <2>1. ASSUME NEW s \in Subscribers, Wipe(s)
          PROVE  Single /\ DeleteRows({s}) /\ {s} \in SUBSET Subscribers
        BY <2>1 DEF Wipe
    <2>2. ASSUME NEW L \in SUBSET Lists, NEW st, Delete(Selected(L, st))
          PROVE  Single /\ DeleteRows(Selected(L, st)) /\ Selected(L, st) \in SUBSET Subscribers
        BY <2>2 DEF Delete, Selected
    <2>3. ASSUME DeleteOrphans
          PROVE  Single /\ DeleteRows(Orphans) /\ Orphans \in SUBSET Subscribers
        BY <2>3 DEF DeleteOrphans, Orphans
    <2>4. ASSUME DeleteBlocklisted
          PROVE  /\ Single /\ DeleteRows({s \in Subscribers : status[s] = "blocklisted"})
                 /\ {s \in Subscribers : status[s] = "blocklisted"} \in SUBSET Subscribers
        BY <2>4 DEF DeleteBlocklisted
    <2>5. ASSUME NEW S \in SUBSET Subscribers, Delete(S)
          PROVE  Single /\ DeleteRows(S)
        BY <2>5 DEF Delete
    <2> QED
        BY <2>1, <2>2, <2>3, <2>4, <2>5
<1>2. TableInv'
    BY <1>1, DeleteRowsKeep DEF Inv
<1> QED
    BY <1>1, <1>2, SingleKeeps

\* Every request that blocklists.
LEMMA BlocklistKeeps ==
    ASSUME Inv,
           \/ \E S \in SUBSET Subscribers : Blocklist(S)
           \/ \E L \in SUBSET Lists, st \in SubscriptionStatuses \cup {""} : Blocklist(Selected(L, st))
           \/ BlocklistBounced
    PROVE  Inv'
<1>1. Single /\ \E S \in SUBSET Subscribers : BlocklistRows(S)
    <2>1. ASSUME NEW S \in SUBSET Subscribers, Blocklist(S)
          PROVE  Single /\ BlocklistRows(S)
        BY <2>1 DEF Blocklist
    <2>2. ASSUME NEW L \in SUBSET Lists, NEW st, Blocklist(Selected(L, st))
          PROVE  Single /\ BlocklistRows(Selected(L, st)) /\ Selected(L, st) \in SUBSET Subscribers
        BY <2>2 DEF Blocklist, Selected
    <2>3. ASSUME BlocklistBounced
          PROVE  Single /\ BlocklistRows(Bounced) /\ Bounced \in SUBSET Subscribers
        BY <2>3 DEF BlocklistBounced, Bounced
    <2> QED
        BY <2>1, <2>2, <2>3
<1>2. TableInv'
    BY <1>1, BlocklistRowsKeep DEF Inv
<1> QED
    BY <1>1, <1>2, SingleKeeps

\* Some subscriptions of rows are given a status, and the history goes with them.
LEMMA MarkKeeps ==
    ASSUME TableInv, NEW cells \in SUBSET Pairs, NEW st \in SubscriptionStatuses,
           subscription' = Mark(cells, st), UNCHANGED <<status, rowId>>,
           \A s \in Subscribers, l \in Lists : <<s, l>> \in cells => HasRow(s),
           optedOut' \subseteq Pairs,
           \A s \in Subscribers, l \in Lists : <<s, l>> \in optedOut' =>
                IF <<s, l>> \in cells THEN st = "unsubscribed" ELSE <<s, l>> \in optedOut,
           \A s \in Subscribers, l \in Lists :
                (<<s, l>> \in cells /\ st = "confirmed") \/ <<s, l>> \in consent => <<s, l>> \in consent'
    PROVE  TableInv'
<1>1. st \in Values /\ st # NoRow
    BY DEF Values, SubscriptionStatuses, NoRow
<1>2. subscription' = [s \in Subscribers |-> [l \in Lists |->
            IF <<s, l>> \in cells THEN st ELSE subscription[s][l]]]
    BY DEF Mark
<1>3. \A s \in Subscribers, l \in Lists :
        /\ <<s, l>> \in cells => subscription'[s][l] = st
        /\ <<s, l>> \notin cells => subscription'[s][l] = subscription[s][l]
    BY <1>2
<1>4. subscription' \in [Subscribers -> [Lists -> Values]]
    BY <1>1, <1>2 DEF TableInv, RowsTyped
<1>5. RowsTyped'
    BY <1>4 DEF TableInv, RowsTyped, Pairs, Values
<1>6. RowsOwned'
    BY <1>3 DEF TableInv, RowsOwned, HasRow
<1>7. OutKept'
    <2> SUFFICES ASSUME NEW s \in Subscribers, NEW l \in Lists, <<s, l>> \in optedOut'
                 PROVE  subscription'[s][l] = "unsubscribed"
        BY DEF OutKept
    <2>1. CASE <<s, l>> \in cells
        BY <2>1, <1>3
    <2>2. CASE <<s, l>> \notin cells
        BY <2>2, <1>3 DEF TableInv, OutKept
    <2> QED
        BY <2>1, <2>2
<1>8. Consented'
    <2> SUFFICES ASSUME NEW s \in Subscribers, NEW l \in Lists, subscription'[s][l] = "confirmed"
                 PROVE  <<s, l>> \in consent'
        BY DEF Consented
    <2>1. CASE <<s, l>> \in cells
        BY <2>1, <1>3
    <2>2. CASE <<s, l>> \notin cells
        BY <2>2, <1>3 DEF TableInv, Consented
    <2> QED
        BY <2>1, <2>2
<1> QED
    BY <1>5, <1>6, <1>7, <1>8 DEF TableInv

\* Adding subscribers to lists by id.
LEMMA AddKeeps ==
    ASSUME Inv, NEW S \in SUBSET Subscribers, NEW L \in SUBSET Lists,
           NEW st \in SubscriptionStatuses \cup {""}, Add(S, L, st)
    PROVE  Inv'
<1>1. PICK cells : cells = S \X L
    OBVIOUS
<1>2. PICK fresh : fresh = cells \ Subscriptions(S, L)
    OBVIOUS
<1>3. /\ UNCHANGED <<status, rowId>> /\ \A s \in S : HasRow(s)
      /\ subscription' = (IF st # "" THEN Mark(cells, st) ELSE Mark(fresh, "unconfirmed"))
      /\ optedOut' = (IF st = "unsubscribed" THEN optedOut \cup cells
                      ELSE IF st # "" THEN optedOut \ cells ELSE optedOut)
      /\ consent' = (IF st = "confirmed" THEN consent \cup cells ELSE consent)
    BY <1>1, <1>2 DEF Add
<1>4. \A s \in Subscribers, l \in Lists : <<s, l>> \in fresh => subscription[s][l] = NoRow
    BY <1>1, <1>2 DEF Subscriptions, Row
<1>5. /\ cells \in SUBSET Pairs /\ fresh \in SUBSET Pairs /\ fresh \subseteq cells
      /\ \A s \in Subscribers, l \in Lists : <<s, l>> \in cells => HasRow(s)
    BY <1>1, <1>2, <1>3 DEF Pairs
<1>6. TableInv /\ optedOut \subseteq Pairs
    BY DEF Inv, TableInv, RowsTyped
<1>7. CASE st # ""
    <2>1. st \in SubscriptionStatuses /\ subscription' = Mark(cells, st)
        BY <1>3, <1>7
    <2>2. optedOut' = (IF st = "unsubscribed" THEN optedOut \cup cells ELSE optedOut \ cells)
        BY <1>3, <1>7
    <2>3. /\ optedOut' \subseteq Pairs
          /\ \A s \in Subscribers, l \in Lists : <<s, l>> \in optedOut' =>
                IF <<s, l>> \in cells THEN st = "unsubscribed" ELSE <<s, l>> \in optedOut
        BY <1>5, <1>6, <2>2
    <2>4. \A s \in Subscribers, l \in Lists :
            (<<s, l>> \in cells /\ st = "confirmed") \/ <<s, l>> \in consent => <<s, l>> \in consent'
        BY <1>3
    <2> QED
        BY <1>3, <1>5, <1>6, <2>1, <2>3, <2>4, MarkKeeps, SingleKeeps DEF Add
<1>8. CASE st = ""
    <2>1. "unconfirmed" \in SubscriptionStatuses /\ subscription' = Mark(fresh, "unconfirmed")
        BY <1>3, <1>8 DEF SubscriptionStatuses
    <2>2. optedOut' = optedOut /\ consent' = consent
        BY <1>3, <1>8
    <2>3. \A s \in Subscribers, l \in Lists : <<s, l>> \in optedOut => <<s, l>> \notin fresh
        BY <1>4, <1>6 DEF TableInv, OutKept, NoRow
    <2>4. TableInv'
        BY <1>3, <1>5, <1>6, <2>1, <2>2, <2>3, MarkKeeps
    <2> QED
        BY <2>4, SingleKeeps DEF Add
<1> QED
    BY <1>7, <1>8

\* Adding the subscribers of a query to lists.
LEMMA AddByQueryKeeps ==
    ASSUME Inv, NEW from \in SUBSET Lists, NEW L \in SUBSET Lists,
           NEW st \in SubscriptionStatuses \cup {""}, AddByQuery(Selected(from, ""), L, st)
    PROVE  Inv'
<1>1. PICK S : S = Selected(from, "")
    OBVIOUS
<1>2. PICK fresh : fresh = (S \X L) \ Subscriptions(S, L)
    OBVIOUS
<1>3. PICK value : value = IF st = "" THEN "unconfirmed" ELSE st
    OBVIOUS
<1>4. /\ UNCHANGED <<status, rowId>> /\ subscription' = Mark(fresh, value)
      /\ optedOut' = (IF st = "unsubscribed" THEN optedOut \cup fresh ELSE optedOut)
      /\ consent' = (IF st = "confirmed" THEN consent \cup fresh ELSE consent)
    BY <1>1, <1>2, <1>3 DEF AddByQuery
<1>5. value \in SubscriptionStatuses
    BY <1>3 DEF SubscriptionStatuses
<1>6. (value = "unsubscribed" <=> st = "unsubscribed") /\ (value = "confirmed" <=> st = "confirmed")
    BY <1>3
<1>7. S \in SUBSET Subscribers /\ \A s \in S : HasRow(s)
    BY <1>1 DEF Selected
<1>8. fresh \in SUBSET Pairs /\ \A s \in Subscribers, l \in Lists : <<s, l>> \in fresh => HasRow(s)
    BY <1>2, <1>7 DEF Pairs
<1>9. \A s \in Subscribers, l \in Lists : <<s, l>> \in fresh => subscription[s][l] = NoRow
    BY <1>2 DEF Subscriptions, Row
<1>10. TableInv /\ optedOut \subseteq Pairs
    BY DEF Inv, TableInv, RowsTyped
<1>11. \A s \in Subscribers, l \in Lists : <<s, l>> \in optedOut => <<s, l>> \notin fresh
    BY <1>9, <1>10 DEF TableInv, OutKept, NoRow
<1>12. /\ optedOut' \subseteq Pairs
       /\ \A s \in Subscribers, l \in Lists : <<s, l>> \in optedOut' =>
             IF <<s, l>> \in fresh THEN value = "unsubscribed" ELSE <<s, l>> \in optedOut
    BY <1>4, <1>6, <1>8, <1>10, <1>11
<1>13. \A s \in Subscribers, l \in Lists :
         (<<s, l>> \in fresh /\ value = "confirmed") \/ <<s, l>> \in consent => <<s, l>> \in consent'
    BY <1>4, <1>6
<1>14. TableInv'
    BY <1>4, <1>5, <1>8, <1>10, <1>12, <1>13, MarkKeeps
<1> QED
    BY <1>14, SingleKeeps DEF AddByQuery

\* Deleting lists, with their subscriptions.
LEMMA DeleteListsKeeps ==
    ASSUME Inv, NEW L \in SUBSET Lists, DeleteLists(L)
    PROVE  Inv'
<1> DEFINE cells == Subscribers \X L
<1>1. /\ subscription' \in [Subscribers -> [Lists -> Values]]
      /\ \A s \in Subscribers, l \in Lists :
           subscription'[s][l] = IF <<s, l>> \in cells THEN NoRow ELSE subscription[s][l]
    BY MarkType DEF Inv, DeleteLists, Values
<1>2. /\ UNCHANGED <<status, rowId>>
      /\ optedOut' = optedOut \ cells /\ consent' = consent \ cells
    BY DEF DeleteLists
<1>3. RowsTyped'
    BY <1>1, <1>2 DEF Inv, TableInv, RowsTyped, Pairs, Values
<1>4. RowsOwned' /\ OutKept' /\ Consented'
    <2>1. RowsOwned'
        BY <1>1, <1>2 DEF Inv, TableInv, RowsOwned, HasRow
    <2>2. OutKept'
        BY <1>1, <1>2 DEF Inv, TableInv, OutKept
    <2>3. Consented'
        BY <1>1, <1>2 DEF Inv, TableInv, Consented, NoRow
    <2> QED
        BY <2>1, <2>2, <2>3
<1>5. TableInv'
    BY <1>3, <1>4 DEF TableInv
<1> QED
    BY <1>5, SingleKeeps DEF DeleteLists

\* The remaining requests of one statement.
LEMMA OtherSinglesKeep ==
    ASSUME Inv,
           \/ \E S \in SUBSET Subscribers, L \in SUBSET Lists : Remove(S, L) \/ UnsubscribeLists(S, L)
           \/ \E cells \in SUBSET Stale : DeleteUnconfirmed(cells)
           \/ \E s \in Subscribers : SendOptinAgain(s)
           \/ \E l \in Lists, a \in Attributes : EditList(l, a)
           \/ \E S \in SUBSET Subscribers : DeleteBounces(S)
    PROVE  Inv'
<1>1. ASSUME NEW S \in SUBSET Subscribers, NEW L \in SUBSET Lists, Remove(S, L)
      PROVE  Inv'
    BY <1>1, RemoveRowsKeep, SingleKeeps DEF Inv, Remove
<1>2. ASSUME NEW S \in SUBSET Subscribers, NEW L \in SUBSET Lists, UnsubscribeLists(S, L)
      PROVE  Inv'
    BY <1>2, UnsubscribeRowsKeep, SingleKeeps DEF Inv, UnsubscribeLists
<1>3. ASSUME NEW cells, DeleteUnconfirmed(cells)
      PROVE  Inv'
    BY <1>3, RemoveRowsKeep, SingleKeeps DEF Inv, DeleteUnconfirmed
<1>4. ASSUME NEW s \in Subscribers, SendOptinAgain(s)
      PROVE  Inv'
    BY <1>4, SameTables, SameRequests, MailLinks DEF Inv, SendOptinAgain, tables, history
<1>5. ASSUME NEW l \in Lists, NEW a \in Attributes, EditList(l, a)
      PROVE  Inv'
    BY <1>5, SameTables, SingleKeeps DEF Inv, EditList, history
<1>6. ASSUME NEW S \in SUBSET Subscribers, DeleteBounces(S)
      PROVE  Inv'
    BY <1>6, SameTables, SingleKeeps DEF Inv, DeleteBounces, history
<1> QED
    BY <1>1, <1>2, <1>3, <1>4, <1>5, <1>6

\* Every step of the audience keeps the invariant.
LEMMA AudienceNextKeeps == ASSUME Inv, AudienceNext PROVE Inv'
<1>0. EditStatuses \subseteq SubscriberStatuses
    BY AudienceAssumption
<1>1. CASE Public
    BY <1>1, FormKeeps, PrefsKeep, OptinKeeps, UnsubscribeKeeps, DeleteKeeps DEF Public
<1>2. ASSUME NEW r \in Requests, Statement(r)
      PROVE  Inv'
    <2>1. CASE FormInsert(r) \/ Lookup(r) \/ FormMerge(r)
        BY <2>1, FormKeeps
    <2>2. CASE PrefsWrite(r) \/ PrefsSubscriptions(r) \/ PrefsUnsubscribe(r)
        BY <2>2, PrefsKeep
    <2>3. CASE OptinConfirm(r)
        BY <2>3, OptinKeeps
    <2>4. CASE SendMail(r)
        BY <2>4, SendMailKeeps
    <2>5. CASE \E st \in EditStatuses \cup {"", request[r].read}, L \in SUBSET Lists, replace, p \in BOOLEAN :
                 PatchWrite(r, st, L, replace, p)
        BY <1>0, <2>5, PatchKeeps
    <2> QED
        BY <1>2, <2>1, <2>2, <2>3, <2>4, <2>5 DEF Statement
<1>3. CASE Administrator
    <2> DEFINE Bulk(S) == Delete(S) \/ Blocklist(S) \/ DeleteBounces(S)
               Chosen(L, st) == Delete(Selected(L, st)) \/ Blocklist(Selected(L, st))
               Taken(S, L) == Remove(S, L) \/ UnsubscribeLists(S, L)
               Any == SubscriptionStatuses \cup {""}
    <2>1. CASE \E r \in Requests, s \in Subscribers, st \in EditStatuses, L \in SUBSET Lists, p \in BOOLEAN :
                 Create(r, s, st, L, p)
        BY <1>0, <2>1, CreateKeeps
    <2>2. CASE \E r \in Requests, s \in Subscribers, st \in EditStatuses \cup {""}, L \in SUBSET Lists, p \in BOOLEAN :
                 Edit(r, s, st, L, p)
        BY <1>0, <2>2, EditKeeps
    <2>3. CASE \E r \in Requests, s \in Subscribers : PatchRead(r, s)
        BY <2>3, PatchKeeps
    <2>4. CASE \E S \in SUBSET Subscribers : Bulk(S)
        BY <2>4, DeleteKeeps, BlocklistKeeps, OtherSinglesKeep
    <2>5. CASE \E S \in SUBSET Subscribers, L \in SUBSET Lists : Taken(S, L)
        BY <2>5, OtherSinglesKeep
    <2>6. CASE \E S \in SUBSET Subscribers, L \in SUBSET Lists, st \in Any : Add(S, L, st)
        BY <2>6, AddKeeps
    <2>7. CASE \E from, to \in SUBSET Lists, st \in Any : AddByQuery(Selected(from, ""), to, st)
        BY <2>7, AddByQueryKeeps
    <2>8. CASE \E L \in SUBSET Lists, st \in Any : Chosen(L, st)
        BY <2>8, DeleteKeeps, BlocklistKeeps
    <2>9. CASE \/ \E s \in Subscribers : SendOptinAgain(s)
               \/ \E l \in Lists, a \in Attributes : EditList(l, a)
               \/ \E cells \in SUBSET Stale : DeleteUnconfirmed(cells)
        BY <2>9, OtherSinglesKeep
    <2>10. CASE \E L \in SUBSET Lists : DeleteLists(L)
        BY <2>10, DeleteListsKeeps
    <2>11. CASE DeleteOrphans \/ DeleteBlocklisted \/ BlocklistBounced
        BY <2>11, DeleteKeeps, BlocklistKeeps
    <2> QED
        BY <1>3, <2>1, <2>2, <2>3, <2>4, <2>5, <2>6, <2>7, <2>8, <2>9, <2>10, <2>11, Zenon DEF Administrator
<1> QED
    BY <1>1, <1>2, <1>3 DEF AudienceNext

-----------------------------------------------------------------------------
(* The bounce manager.                                                     *)

\* A bounce at its count acts on a row that is there: it unsubscribes, blocklists, deletes.
LEMMA RecordBounceKeeps ==
    ASSUME TableInv, NEW b, b.sub \in Subscribers, Found(b), RecordBounce(b)
    PROVE  TableInv'
<1>1. PICK s \in Subscribers : s = b.sub /\ HasRow(s)
    BY DEF Found
<1>2. PICK acts \in BOOLEAN :
        acts <=> bounces[s][b.type] + 1 >= BounceAction[b.type].count
    BY <1>1, Zenon
<1>3. CASE BounceAction[b.type].action = "delete" /\ acts
    <2>1. DeleteRows({s}) /\ {s} \in SUBSET Subscribers
        BY <1>1, <1>2, <1>3 DEF RecordBounce
    <2> QED
        BY <2>1, DeleteRowsKeep
<1>4. CASE ~(BounceAction[b.type].action = "delete" /\ acts)
    <2>1. PICK cells : cells = IF BounceAction[b.type].action = "unsubscribe" /\ acts /\ status[s] # "blocklisted"
                               THEN Subscriptions({s}, Lists) ELSE {}
        OBVIOUS
    <2>2. /\ status' = status \/ status' = [status EXCEPT ![s] = "blocklisted"]
          /\ subscription' = Mark(cells, "unsubscribed") /\ optedOut' = optedOut \cup cells
          /\ UNCHANGED <<rowId, consent>>
        BY <1>1, <1>2, <1>4, <2>1 DEF RecordBounce
    <2>3. /\ cells \subseteq Pairs
          /\ \A x \in Subscribers, l \in Lists : <<x, l>> \in cells => subscription[x][l] # NoRow
        BY <2>1 DEF Subscriptions, Row, Pairs
    <2>4. "unsubscribed" \in Values
        BY DEF Values, SubscriptionStatuses
    <2>5. /\ subscription' \in [Subscribers -> [Lists -> Values]]
          /\ \A x \in Subscribers, l \in Lists :
               subscription'[x][l] = IF <<x, l>> \in cells THEN "unsubscribed" ELSE subscription[x][l]
        BY <2>2, <2>4, MarkType
    <2>6. status' \in [Subscribers -> SubscriberStatuses \cup {NoRow}]
          /\ \A x \in Subscribers : HasRow(x) => status'[x] # NoRow
        BY <2>2 DEF TableInv, RowsTyped, SubscriberStatuses, HasRow, NoRow
    <2>7. RowsTyped'
        BY <2>2, <2>3, <2>5, <2>6 DEF TableInv, RowsTyped, Pairs, Values
    <2>8. RowsOwned'
        BY <2>3, <2>5, <2>6 DEF TableInv, RowsOwned, HasRow
    <2>9. OutKept' /\ Consented'
        BY <2>2, <2>5 DEF TableInv, OutKept, Consented
    <2> QED
        BY <2>7, <2>8, <2>9 DEF TableInv
<1> QED
    BY <1>3, <1>4

\* Steps of the bounce manager that leave the audience alone.
LEMMA SameAudience ==
    ASSUME Inv, UNCHANGED <<tables, request, links, history>>
    PROVE  Inv'
BY SameTables, SameRequests, SameLinks DEF Inv, tables, history

\* A bounce as it is queued, by mail or by webhook.
LEMMA BounceType ==
    ASSUME TableInv, NEW s \in Subscribers, NEW id \in {0, rowId[s]}, NEW t \in BounceTypes, NEW n \in Nat
    PROVE  [n |-> n, bounce |-> Bounce(s, id, t)] \in MailType
BY DEF TableInv, RowsTyped, MailType, Bounce

\* A webhook or a mail arrives.
LEMMA ArrivalKeeps ==
    ASSUME Inv, BounceInv, NEW s \in Subscribers, NEW t \in BounceTypes,
           \/ Record(Bounce(s, 0, t)) \/ Record(Bounce(s, rowId[s], t))
           \/ \E ok \in BOOLEAN : MailArrives(s, t, ok)
    PROVE  Inv' /\ BounceInv'
<1>1. ASSUME NEW id \in {0, rowId[s]}, Record(Bounce(s, id, t))
      PROVE  Inv' /\ BounceInv'
    <2>1. [n |-> 0, bounce |-> Bounce(s, id, t)] \in MailType
        BY BounceType DEF Inv
    <2>2. queue' \in Seq(MailType)
        BY <1>1, <2>1 DEF Record, BounceInv
    <2> QED
        BY <1>1, <2>2, SameAudience DEF Record, BounceInv
<1>2. ASSUME NEW ok \in BOOLEAN, MailArrives(s, t, ok)
      PROVE  Inv' /\ BounceInv'
    <2>1. [n |-> mails + 1, bounce |-> Bounce(s, rowId[s], t)] \in MailType
        BY BounceType DEF Inv, BounceInv
    <2>2. mailbox' \in Seq(MailType) /\ Len(mailbox') = Len(mailbox) + 1
        BY <1>2, <2>1 DEF MailArrives, BounceInv
    <2> QED
        BY <1>2, <2>2, SameAudience DEF MailArrives, BounceInv
<1> QED
    BY <1>1, <1>2

\* The mailbox scanner: it reads mails up to the count it began with, which are still there.
LEMMA ScanKeeps ==
    ASSUME Inv, BounceInv, ScanStart \/ Download \/ DeleteMails
    PROVE  Inv' /\ BounceInv'
<1>1. CASE ScanStart
    <2>1. ScanLimit \in Nat
        BY BouncesAssumption
    <2>2. Len(mailbox) \in Nat
        BY DEF BounceInv
    <2> QED
        BY <1>1, <2>1, <2>2, SameAudience DEF ScanStart, BounceInv, bounceHistory, audienceVars
<1>2. CASE Download
    <2>1. scan.i \in 1..Len(mailbox)
        BY <1>2 DEF Download, BounceInv
    <2>2. mailbox[scan.i] \in MailType
        BY <2>1 DEF BounceInv
    <2>3. queue' = queue \/ queue' = Append(queue, mailbox[scan.i])
        BY <1>2, Zenon DEF Download, Push
    <2>4. queue' \in Seq(MailType)
        <3>1. queue \in Seq(MailType)
            BY DEF BounceInv
        <3>2. PICK m \in MailType : m = mailbox[scan.i]
            BY <2>2
        <3>3. Append(queue, m) \in Seq(MailType)
            BY <3>1
        <3> QED
            BY <2>3, <3>1, <3>2, <3>3
    <2>5. scan' \in [at : {"asleep", "download"}, i : Nat, count : Nat]
          /\ scan'.at = "download" /\ scan'.i > 0 /\ scan'.count = scan.count
        <3>1. scan \in [at : {"asleep", "download"}, i : Nat, count : Nat] /\ scan.at = "download"
            BY <1>2 DEF Download, BounceInv
        <3>2. scan' = [scan EXCEPT !.i = @ + 1]
            BY <1>2 DEF Download
        <3> QED
            BY <3>1, <3>2
    <2> QED
        BY <1>2, <2>4, <2>5, SameAudience DEF Download, BounceInv, audienceVars
<1>3. CASE DeleteMails
    <2>1. \E k \in Nat : k <= Len(mailbox) /\ mailbox' = SubSeq(mailbox, k + 1, Len(mailbox))
        <3>1. scan.count \in Nat /\ scan.count <= Len(mailbox)
            BY <1>3 DEF DeleteMails, BounceInv
        <3>2. \/ mailbox' = SubSeq(mailbox, scan.count + 1, Len(mailbox))
              \/ \E k \in 0..(scan.count - 1) : mailbox' = SubSeq(mailbox, k + 1, Len(mailbox))
            BY <1>3 DEF DeleteMails, Deleted
        <3>3. Len(mailbox) \in Nat
            BY DEF BounceInv
        <3>4. \A k \in 0..(scan.count - 1) : k \in Nat /\ k <= Len(mailbox)
            BY <3>1, <3>3
        <3> QED
            BY <3>1, <3>2, <3>4
    <2>2. mailbox' \in Seq(MailType)
        BY <2>1 DEF BounceInv
    <2>3. scan' \in [at : {"asleep", "download"}, i : Nat, count : Nat] /\ scan'.at = "asleep"
        BY <1>3 DEF DeleteMails, Asleep
    <2> QED
        BY <1>3, <2>2, <2>3, SameAudience DEF DeleteMails, BounceInv, audienceVars
<1> QED
    BY <1>1, <1>2, <1>3

\* The bounce manager takes the first of its queue and records it.
LEMMA TakeKeeps ==
    ASSUME Inv, BounceInv, Take
    PROVE  Inv' /\ BounceInv'
<1>1. Head(queue) \in MailType /\ Tail(queue) \in Seq(MailType)
    BY DEF Take, BounceInv
<1>2. PICK b : b = Head(queue).bounce
    OBVIOUS
<1>3. b.sub \in Subscribers
    BY <1>1, <1>2 DEF MailType
<1>4. IF Found(b) THEN RecordBounce(b) ELSE UNCHANGED <<tables, history>>
    BY <1>2 DEF Take
<1>5. TableInv'
    BY <1>3, <1>4, RecordBounceKeeps, SameTables DEF Inv, tables, history
<1>6. Inv'
    BY <1>5, SameRequests, SameLinks DEF Inv, Take
<1>7. BounceInv'
    BY <1>1 DEF Take, BounceInv
<1> QED
    BY <1>6, <1>7

\* A restart forgets requests and the queue, and keeps tables and mailbox.
LEMMA RestartKeeps ==
    ASSUME Inv, BounceInv, Restart
    PROVE  Inv' /\ BounceInv'
<1>1. RequestInv'
    BY IdleType DEF Restart, RequestInv, At, RequestType, Idle
<1>2. Inv'
    BY <1>1, SameTables, SameLinks DEF Inv, Restart, tables, history
<1>3. queue' \in Seq(MailType)
    BY DEF Restart
<1> QED
    BY <1>2, <1>3 DEF Restart, BounceInv, Asleep

-----------------------------------------------------------------------------
(* Every behaviour.                                                        *)

\* The invariant holds at the start.
LEMMA InvInit == Init => Inv /\ BounceInv
<1> SUFFICES ASSUME Init PROVE Inv /\ BounceInv
    OBVIOUS
<1>1. RowsTyped
    BY DEF Init, AudienceInit, RowsTyped, SubscriberStatuses, Values, HasRow
<1>2. RowsOwned /\ OutKept /\ Consented
    BY DEF Init, AudienceInit, RowsOwned, OutKept, Consented, NoRow
<1>3. RequestInv /\ LinkInv
    BY IdleType DEF Init, AudienceInit, RequestInv, LinkInv, At, Idle
<1>4. BounceInv
    BY DEF Init, BounceInv, Asleep
<1> QED
    BY <1>1, <1>2, <1>3, <1>4 DEF Inv, TableInv

\* Every step of audience and bounce manager keeps the invariant.
LEMMA InvNext == Inv /\ BounceInv /\ [Next]_vars => Inv' /\ BounceInv'
<1> SUFFICES ASSUME Inv, BounceInv, [Next]_vars PROVE Inv' /\ BounceInv'
    OBVIOUS
<1>1. CASE AudienceNext /\ UNCHANGED bounceVars
    BY <1>1, AudienceNextKeeps DEF bounceVars, bounceHistory, BounceInv
<1>2. CASE Manager
    <2>1. CASE ScanStart \/ Download \/ DeleteMails
        BY <2>1, ScanKeeps
    <2>2. ASSUME NEW s \in Subscribers, NEW t \in BounceTypes,
                 \/ Record(Bounce(s, 0, t)) \/ Record(Bounce(s, rowId[s], t))
                 \/ \E ok \in BOOLEAN : MailArrives(s, t, ok)
          PROVE  Inv' /\ BounceInv'
        BY <2>2, ArrivalKeeps
    <2> QED
        BY <1>2, <2>1, <2>2, TakeKeeps, RestartKeeps DEF Manager
<1>3. CASE UNCHANGED vars
    BY <1>3, SameAudience DEF vars, audienceVars, bounceVars, bounceHistory, BounceInv
<1> QED
    BY <1>1, <1>2, <1>3 DEF Next

\* The invariant the theorems below rest on: tables, requests, links and the bounce manager's
\* queue and mailbox are as the statements and steps assume them, in every reachable state.
THEOREM InvCorrect == Spec => [](Inv /\ BounceInv)
BY InvInit, InvNext, PTL DEF Spec

\* Whoever opted out of a list stays out of it, through every request, bounce and restart,
\* until they or an administrator ask for it again: OptOutKept, of any number of subscribers,
\* lists and requests at once (queries/subscribers.sql:181-202).
THEOREM OptOutCorrect == Spec => []OptOutKept
<1>1. Inv => OptOutKept
    BY DEF Inv, TableInv, RowsTyped, OutKept, OptOutKept, Pairs, Row
<1> QED
    BY <1>1, InvCorrect, PTL

\* A subscription is confirmed by a click on a mailed link or by an administrator and by
\* nothing else: ConfirmedHasConsent (cmd/public.go:801-822, queries/subscribers.sql:242-249).
THEOREM ConsentCorrect == Spec => []ConfirmedHasConsent
<1>1. Inv => ConfirmedHasConsent
    BY DEF Inv, TableInv, Consented, ConfirmedHasConsent, Pairs, Row
<1> QED
    BY <1>1, InvCorrect, PTL

-----------------------------------------------------------------------------
(* Bounces.                                                                *)

OfMail(n) == {m \in MailType : m.n = n}
Counts == [n \in 1..MaxInputs |-> recorded[n] + Cardinality(PlacesIn(queue, OfMail(n)))]
Handled(n) == Counts[n] > 0 \/ n \in skipped \cup lost
Passed(j) == scan.at = "download" /\ j < scan.i

\* Numbers and bounds.
Bounded ==
    /\ spent \in 0..MaxInputs /\ mails <= spent /\ faults \in 0..MaxFaults
    /\ recorded \in [1..MaxInputs -> Nat]
    /\ readable \subseteq 1..mails /\ skipped \subseteq 1..mails /\ lost \subseteq 1..mails
    /\ Len(queue) <= QueueSize /\ scan.count <= ScanLimit /\ scan.i <= scan.count + 1

\* Mails are numbered in the order they arrive in.
Numbered ==
    /\ \A i \in 1..Len(mailbox) : mailbox[i].n \in 1..mails
    /\ \A i, j \in 1..Len(mailbox) : i < j => mailbox[i].n < mailbox[j].n
    /\ \A i \in 1..Len(queue) : queue[i].n \in 0..mails

\* A mail counts once, and once more for each fault; not yet when a scan has still to come
\* to it.
CountedInv ==
    /\ \A n \in 1..MaxInputs : Counts[n] <= 1 + faults /\ (n > mails => Counts[n] = 0)
    /\ \A j \in 1..Len(mailbox) : ~Passed(j) => Counts[mailbox[j].n] <= faults

\* What a scan has passed is dealt with, should it be deleted, and so is what is not in the
\* mailbox any more.
HandledInv ==
    /\ \A j \in 1..Len(mailbox) : Passed(j) /\ mailbox[j].n \in readable => Handled(mailbox[j].n)
    /\ \A n \in readable : Handled(n) \/ \E i \in 1..Len(mailbox) : mailbox[i].n = n

MailInv == Bounded /\ Numbered /\ CountedInv /\ HandledInv

-----------------------------------------------------------------------------
(* Bounced mails.                                                          *)

\* The counts are numbers, and zero for a mail that is nowhere.
LEMMA CountsType ==
    ASSUME BounceInv, Bounded
    PROVE  /\ Counts \in [1..MaxInputs -> Nat]
           /\ \A n \in 1..MaxInputs :
                /\ Counts[n] = recorded[n] + Cardinality({i \in DOMAIN queue : queue[i].n = n})
                /\ Counts[n] > 0 => recorded[n] > 0 \/ \E i \in DOMAIN queue : queue[i].n = n
<1> SUFFICES ASSUME NEW n \in 1..MaxInputs
             PROVE  /\ Counts[n] \in Nat
                    /\ Counts[n] = recorded[n] + Cardinality({i \in DOMAIN queue : queue[i].n = n})
                    /\ Counts[n] > 0 => recorded[n] > 0 \/ \E i \in DOMAIN queue : queue[i].n = n
    BY DEF Counts
<1> DEFINE P == PlacesIn(queue, OfMail(n))
<1>1. queue \in Seq(MailType) /\ recorded[n] \in Nat
    BY DEF BounceInv, Bounded
<1>2. \A i \in DOMAIN queue : queue[i] \in MailType
    BY <1>1, ElementOfSeq, LenProperties
<1>3. P = {i \in DOMAIN queue : queue[i].n = n}
    BY <1>2 DEF PlacesIn, OfMail
<1>4. IsFiniteSet(P) /\ Cardinality(P) \in Nat
    BY <1>1, PlacesFinite
<1>5. Cardinality(P) > 0 => P # {}
    BY <1>4, FS_EmptySet
<1>6. Counts[n] = recorded[n] + Cardinality(P)
    BY DEF Counts
<1> QED
    BY <1>1, <1>3, <1>4, <1>5, <1>6

\* Putting a mail in the queue counts once for it.
LEMMA PushCounts ==
    ASSUME BounceInv, Bounded, NEW m \in MailType, queue' = Append(queue, m), recorded' = recorded
    PROVE  Counts' = [n \in 1..MaxInputs |-> IF n = m.n THEN Counts[n] + 1 ELSE Counts[n]]
<1> SUFFICES ASSUME NEW n \in 1..MaxInputs
             PROVE  /\ n = m.n => Counts'[n] = Counts[n] + 1
                    /\ n # m.n => Counts'[n] = Counts[n]
    BY DEF Counts
<1>1. queue \in Seq(MailType) /\ recorded[n] \in Nat
    BY DEF BounceInv, Bounded
<1>2. m \in OfMail(n) <=> n = m.n
    BY DEF OfMail
<1>3. /\ n = m.n => Cardinality(PlacesIn(Append(queue, m), OfMail(n))) = Cardinality(PlacesIn(queue, OfMail(n))) + 1
      /\ n # m.n => PlacesIn(Append(queue, m), OfMail(n)) = PlacesIn(queue, OfMail(n))
    BY <1>1, <1>2, PlacesAppend
<1>4. Cardinality(PlacesIn(queue, OfMail(n))) \in Nat
    BY <1>1, PlacesFinite
<1>5. /\ Counts[n] = recorded[n] + Cardinality(PlacesIn(queue, OfMail(n)))
      /\ Counts'[n] = recorded[n] + Cardinality(PlacesIn(Append(queue, m), OfMail(n)))
    BY DEF Counts
<1> QED
    BY <1>1, <1>3, <1>4, <1>5

\* Recording the first of the queue moves one of its counts.
LEMMA TakeCounts ==
    ASSUME BounceInv, Bounded, Take
    PROVE  Counts' = Counts
<1> SUFFICES ASSUME NEW n \in 1..MaxInputs
             PROVE  Counts'[n] = Counts[n]
    BY DEF Counts
<1>1. queue \in Seq(MailType) /\ queue # <<>> /\ recorded \in [1..MaxInputs -> Nat]
    BY DEF BounceInv, Bounded, Take
<1>2. PICK m \in MailType : m = Head(queue)
    BY <1>1
<1>3. recorded' = (IF m.n > 0 THEN [recorded EXCEPT ![m.n] = @ + 1] ELSE recorded) /\ queue' = Tail(queue)
    BY <1>2 DEF Take
<1>4. m \in OfMail(n) <=> n = m.n
    BY DEF OfMail
<1>5. /\ n = m.n => Cardinality(PlacesIn(Tail(queue), OfMail(n))) = Cardinality(PlacesIn(queue, OfMail(n))) - 1
      /\ n # m.n => Cardinality(PlacesIn(Tail(queue), OfMail(n))) = Cardinality(PlacesIn(queue, OfMail(n)))
    BY <1>1, <1>2, <1>4, PlacesTail
<1>6. Cardinality(PlacesIn(queue, OfMail(n))) \in Nat
    BY <1>1, PlacesFinite
<1>7. /\ n = m.n => recorded'[n] = recorded[n] + 1
      /\ n # m.n => recorded'[n] = recorded[n]
    BY <1>1, <1>3
<1>8. /\ Counts[n] = recorded[n] + Cardinality(PlacesIn(queue, OfMail(n)))
      /\ Counts'[n] = recorded'[n] + Cardinality(PlacesIn(Tail(queue), OfMail(n)))
    BY <1>3 DEF Counts
<1> QED
    BY <1>1, <1>5, <1>6, <1>7, <1>8

\* A request costs one input at most, and none is taken on past the bound.
LEMMA SpentStep ==
    ASSUME AudienceNext
    PROVE  spent' = spent \/ (spent < MaxInputs /\ spent' = spent + 1)
<1>1. CASE Public
    <2>1. ASSUME NEW r \in Requests, NEW s \in Subscribers, NEW L \in SUBSET Lists, FormPost(r, s, L) \/ PrefsRead(r, s, L)
          PROVE  spent' = spent + 1
        BY <2>1 DEF FormPost, PrefsRead, Begin, Spend
    <2>2. ASSUME NEW r \in Requests, NEW k \in links, OptinOpen(r, k)
          PROVE  spent' = spent + 1
        BY <2>2 DEF OptinOpen, Begin, Spend
    <2>3. ASSUME NEW s \in Subscribers, (\E L \in SUBSET Lists, b \in BOOLEAN : Unsubscribe(s, L, b)) \/ Wipe(s)
          PROVE  spent' = spent + 1
        BY <2>3 DEF Unsubscribe, Wipe, Single, Spend
    <2>4. spent' = spent + 1
        BY <1>1, <2>1, <2>2, <2>3, Zenon DEF Public
    <2> QED
        BY <1>1, <2>4 DEF Public
<1>2. ASSUME NEW r \in Requests, Statement(r)
      PROVE  spent' = spent
    BY <1>2 DEF Statement, FormInsert, Lookup, FormMerge, PrefsWrite, PrefsSubscriptions, PrefsUnsubscribe,
                OptinConfirm, SendMail, PatchWrite
<1>3. CASE Administrator
    <2>1. ASSUME NEW r \in Requests, NEW s \in Subscribers, NEW st, NEW L, NEW p \in BOOLEAN, Create(r, s, st, L, p) \/ Edit(r, s, st, L, p)
          PROVE  spent' = spent + 1
        BY <2>1 DEF Create, Edit, Begin, Spend
    <2>2. ASSUME NEW r \in Requests, NEW s \in Subscribers, PatchRead(r, s)
          PROVE  spent' = spent + 1
        BY <2>2 DEF PatchRead, Begin, Spend
    <2>3. ASSUME NEW S, Delete(S) \/ Blocklist(S) \/ DeleteBounces(S) \/ DeleteLists(S) \/ DeleteUnconfirmed(S)
          PROVE  spent' = spent + 1
        BY <2>3 DEF Delete, Blocklist, DeleteBounces, DeleteLists, DeleteUnconfirmed, Single, Spend
    <2>4. ASSUME NEW S, NEW L, Remove(S, L) \/ UnsubscribeLists(S, L) \/ EditList(S, L)
          PROVE  spent' = spent + 1
        BY <2>4 DEF Remove, UnsubscribeLists, EditList, Single, Spend
    <2>5. ASSUME NEW S, NEW L, NEW st, Add(S, L, st) \/ AddByQuery(S, L, st)
          PROVE  spent' = spent + 1
        BY <2>5 DEF Add, AddByQuery, Single, Spend
    <2>6. ASSUME DeleteOrphans \/ DeleteBlocklisted \/ BlocklistBounced
          PROVE  spent' = spent + 1
        BY <2>6 DEF DeleteOrphans, DeleteBlocklisted, BlocklistBounced, Single, Spend
    <2>7. spent' = spent + 1
        <3> DEFINE Bulk(S) == Delete(S) \/ Blocklist(S) \/ DeleteBounces(S)
                   Chosen(L, st) == Delete(Selected(L, st)) \/ Blocklist(Selected(L, st))
                   Taken(S, L) == Remove(S, L) \/ UnsubscribeLists(S, L)
                   Any == SubscriptionStatuses \cup {""}
        <3>1. CASE \E r \in Requests, s \in Subscribers, st \in EditStatuses, L \in SUBSET Lists, p \in BOOLEAN :
                     Create(r, s, st, L, p)
            BY <3>1, <2>1
        <3>2. CASE \E r \in Requests, s \in Subscribers, st \in EditStatuses \cup {""}, L \in SUBSET Lists, p \in BOOLEAN :
                     Edit(r, s, st, L, p)
            BY <3>2, <2>1
        <3>3. CASE \E r \in Requests, s \in Subscribers : PatchRead(r, s)
            BY <3>3, <2>2
        <3>4. CASE \/ \E S \in SUBSET Subscribers : Bulk(S)
                   \/ \E L \in SUBSET Lists : DeleteLists(L)
                   \/ \E cells \in SUBSET Stale : DeleteUnconfirmed(cells)
            BY <3>4, <2>3
        <3>5. CASE \E S \in SUBSET Subscribers, L \in SUBSET Lists : Taken(S, L)
            BY <3>5, <2>4
        <3>6. CASE \E S \in SUBSET Subscribers, L \in SUBSET Lists, st \in Any : Add(S, L, st)
            BY <3>6, <2>5
        <3>7. CASE \E from, to \in SUBSET Lists, st \in Any : AddByQuery(Selected(from, ""), to, st)
            BY <3>7, <2>5
        <3>8. CASE \E L \in SUBSET Lists, st \in Any : Chosen(L, st)
            BY <3>8, <2>3
        <3>9. CASE \E s \in Subscribers : SendOptinAgain(s)
            BY <3>9 DEF SendOptinAgain, Spend
        <3>10. CASE \E l \in Lists, a \in Attributes : EditList(l, a)
            BY <3>10, <2>4
        <3> QED
            BY <1>3, <2>6, <3>1, <3>2, <3>3, <3>4, <3>5, <3>6, <3>7, <3>8, <3>9, <3>10, Zenon DEF Administrator
    <2> QED
        BY <1>3, <2>7 DEF Administrator
<1> QED
    BY <1>1, <1>2, <1>3 DEF AudienceNext, Public, Administrator

\* Steps of the audience, and stuttering, leave mails and counts alone.
LEMMA SameMails ==
    ASSUME BounceInv, MailInv, UNCHANGED bounceVars, spent' = spent \/ (spent < MaxInputs /\ spent' = spent + 1)
    PROVE  MailInv'
<1>1. Counts' = Counts
    BY DEF Counts, bounceVars, bounceHistory
<1>2. MaxInputs \in Nat
    BY AudienceAssumption
<1>3. Bounded'
    <2>1. UNCHANGED <<queue, scan, mails, readable, recorded, skipped, lost, faults>>
        BY DEF bounceVars, bounceHistory
    <2>2. /\ spent \in 0..MaxInputs /\ mails <= spent /\ faults \in 0..MaxFaults
          /\ recorded \in [1..MaxInputs -> Nat]
          /\ readable \subseteq 1..mails /\ skipped \subseteq 1..mails /\ lost \subseteq 1..mails
          /\ Len(queue) <= QueueSize /\ scan.count <= ScanLimit /\ scan.i <= scan.count + 1
        BY DEF MailInv, Bounded
    <2>3. mails \in Nat
        BY DEF BounceInv
    <2>4. spent' \in 0..MaxInputs /\ mails <= spent'
        BY <1>2, <2>2, <2>3
    <2> QED
        BY <2>1, <2>2, <2>4 DEF Bounded
<1>4. Numbered' /\ CountedInv' /\ HandledInv'
    BY <1>1 DEF MailInv, Numbered, CountedInv, HandledInv, Handled, Passed, bounceVars, bounceHistory
<1> QED
    BY <1>3, <1>4 DEF MailInv

\* A mail arrives: its number is new, so that it has not been counted.
LEMMA MailArrivesCounts ==
    ASSUME BounceInv, MailInv, TableInv, spent < MaxInputs,
           NEW s \in Subscribers, NEW t \in BounceTypes, NEW ok \in BOOLEAN, MailArrives(s, t, ok)
    PROVE  MailInv'
<1>0. MaxInputs \in Nat /\ MaxFaults \in Nat /\ Bounded /\ Numbered /\ CountedInv /\ HandledInv
    BY AudienceAssumption, BouncesAssumption DEF MailInv
<1>1. /\ mails \in Nat /\ mailbox \in Seq(MailType) /\ Len(mailbox) \in Nat
      /\ scan.i \in Nat /\ scan.count \in Nat /\ (scan.at = "download" => scan.count <= Len(mailbox))
    BY DEF BounceInv
<1>2. [n |-> mails + 1, bounce |-> Bounce(s, rowId[s], t)] \in MailType
    BY <1>1, BounceType
<1>3. PICK m \in MailType : m = [n |-> mails + 1, bounce |-> Bounce(s, rowId[s], t)]
    BY <1>2
<1>4. /\ mailbox' = Append(mailbox, m) /\ m.n = mails + 1 /\ mails' = mails + 1 /\ spent' = spent + 1
      /\ UNCHANGED <<queue, scan, recorded, skipped, lost>>
      /\ readable' \in {readable, readable \cup {mails + 1}}
      /\ faults' \in {faults, faults + 1} /\ faults' <= MaxFaults
    BY <1>0, <1>3 DEF MailArrives, Spend, Fault, Bounded
<1>5. /\ Len(mailbox') = Len(mailbox) + 1
      /\ \A i \in 1..Len(mailbox) : mailbox'[i] = mailbox[i]
      /\ mailbox'[Len(mailbox) + 1] = m
    BY <1>1, <1>4
<1>6. Counts' = Counts /\ Counts \in [1..MaxInputs -> Nat]
    BY <1>0, <1>4, CountsType DEF Counts
<1>7. Bounded'
    <2>1. mails \in Nat /\ spent \in Nat /\ mails <= spent /\ faults \in Nat /\ spent' \in 0..MaxInputs
          /\ readable \subseteq 1..mails
        BY <1>0, <1>1, <1>4 DEF Bounded
    <2>2. faults' \in 0..MaxFaults /\ mails' <= spent'
        BY <1>4, <2>1
    <2>3. 1..mails \subseteq 1..mails' /\ mails' \in 1..mails'
        BY <1>4, <2>1
    <2>4. readable' \subseteq 1..mails' /\ skipped' \subseteq 1..mails' /\ lost' \subseteq 1..mails'
        BY <1>0, <1>4, <2>1, <2>3 DEF Bounded
    <2> QED
        BY <1>0, <1>4, <2>1, <2>2, <2>4 DEF Bounded
<1>8. \A i \in 1..Len(mailbox') : i \in 1..Len(mailbox) \/ i = Len(mailbox) + 1
    BY <1>1, <1>5
<1>9. Numbered'
    <2>0. mails \in Nat /\ mails' = mails + 1 /\ Len(mailbox) \in Nat
        BY <1>1, <1>4
    <2>1. \A i \in 1..Len(mailbox) : mailbox'[i].n = mailbox[i].n /\ mailbox[i].n \in 1..mails
        BY <1>0, <1>5 DEF Numbered
    <2>2. mailbox'[Len(mailbox) + 1].n = mails + 1
        BY <1>4, <1>5
    <2>3. \A i \in 1..Len(mailbox') : mailbox'[i].n \in 1..mails'
        BY <1>8, <2>0, <2>1, <2>2
    <2>4. \A i, j \in 1..Len(mailbox) : i < j => mailbox[i].n < mailbox[j].n
        BY <1>0 DEF Numbered
    <2>5. \A i, j \in 1..Len(mailbox') : i < j => mailbox'[i].n < mailbox'[j].n
        <3> SUFFICES ASSUME NEW i \in 1..Len(mailbox'), NEW j \in 1..Len(mailbox'), i < j
                     PROVE  mailbox'[i].n < mailbox'[j].n
            OBVIOUS
        <3>1. i \in 1..Len(mailbox)
            BY <1>8, <2>0
        <3>2. CASE j \in 1..Len(mailbox)
            BY <2>1, <2>4, <3>1, <3>2
        <3>3. CASE j = Len(mailbox) + 1
            BY <2>0, <2>1, <2>2, <3>1, <3>3
        <3> QED
            BY <1>8, <3>2, <3>3
    <2>6. \A i \in 1..Len(queue') : queue'[i].n \in 0..mails'
        BY <1>0, <1>4, <2>0 DEF Numbered
    <2> QED
        BY <2>3, <2>5, <2>6 DEF Numbered
<1>10. CountedInv'
    <2>1. \A n \in 1..MaxInputs : Counts'[n] <= 1 + faults' /\ (n > mails' => Counts'[n] = 0)
        <3>1. ASSUME NEW n \in 1..MaxInputs
              PROVE  Counts[n] \in Nat /\ Counts[n] <= 1 + faults /\ (n > mails => Counts[n] = 0)
            BY <1>0, <1>6 DEF CountedInv
        <3> QED
            BY <3>1, <1>0, <1>1, <1>4, <1>6 DEF Bounded
    <2>2. mails + 1 \in 1..MaxInputs /\ Counts[mails + 1] = 0
        BY <1>0, <1>1 DEF Bounded, CountedInv
    <2>3. ASSUME NEW j \in 1..Len(mailbox), ~Passed(j)'
          PROVE  Counts'[mailbox'[j].n] <= faults'
        <3>1. ~Passed(j)
            BY <2>3, <1>4 DEF Passed
        <3>2. Counts[mailbox[j].n] <= faults /\ Counts[mailbox[j].n] \in Nat
            BY <3>1, <1>0, <1>1, <1>6 DEF CountedInv, Numbered, Bounded
        <3> QED
            BY <3>2, <1>0, <1>4, <1>5, <1>6 DEF Bounded
    <2>4. Counts'[mailbox'[Len(mailbox) + 1].n] <= faults'
        BY <2>2, <1>0, <1>4, <1>5, <1>6 DEF Bounded
    <2> QED
        BY <2>1, <2>3, <2>4, <1>8 DEF CountedInv
<1>11. HandledInv'
    <2>1. \A j \in 1..Len(mailbox') : Passed(j)' => Passed(j) /\ j \in 1..Len(mailbox)
        BY <1>0, <1>1, <1>4, <1>8 DEF Passed, Bounded
    <2>2. \A j \in 1..Len(mailbox) : mailbox'[j].n \in readable' => mailbox'[j].n = mailbox[j].n /\ mailbox[j].n \in readable
        BY <1>0, <1>1, <1>4, <1>5 DEF Numbered
    <2>3. \A n \in readable' : n \in readable \/ n = mailbox'[Len(mailbox) + 1].n
        BY <1>4, <1>5
    <2>4. \A i \in 1..Len(mailbox) : i \in 1..Len(mailbox')
        BY <1>1, <1>5
    <2>5. Len(mailbox) + 1 \in 1..Len(mailbox')
        BY <1>1, <1>5
    <2> QED
        BY <2>1, <2>2, <2>3, <2>4, <2>5, <1>0, <1>4, <1>5, <1>6 DEF HandledInv, Handled
<1> QED
    BY <1>7, <1>9, <1>10, <1>11 DEF MailInv

\* A webhook's bounce waits in the queue with number 0, which is no mail's.
LEMMA RecordCounts ==
    ASSUME BounceInv, MailInv, TableInv, spent < MaxInputs,
           NEW s \in Subscribers, NEW t \in BounceTypes, NEW id \in {0, rowId[s]}, Record(Bounce(s, id, t))
    PROVE  MailInv'
<1>0. MaxInputs \in Nat /\ QueueSize \in Nat /\ Bounded /\ Numbered /\ CountedInv /\ HandledInv
    BY AudienceAssumption, BouncesAssumption DEF MailInv
<1>1. /\ mails \in Nat /\ queue \in Seq(MailType) /\ Len(queue) \in Nat
      /\ scan.i \in Nat /\ scan.count \in Nat
    BY DEF BounceInv
<1>2. [n |-> 0, bounce |-> Bounce(s, id, t)] \in MailType
    BY BounceType
<1>3. PICK m \in MailType : m = [n |-> 0, bounce |-> Bounce(s, id, t)]
    BY <1>2
<1>4. /\ queue' = Append(queue, m) /\ m.n = 0 /\ Len(queue) < QueueSize /\ spent' = spent + 1
      /\ UNCHANGED <<mailbox, scan, mails, readable, recorded, skipped, lost, faults>>
    BY <1>3 DEF Record, Spend
<1>5. Counts \in [1..MaxInputs -> Nat] /\ Counts' = Counts
    BY <1>0, <1>4, CountsType, PushCounts
<1>6. /\ Len(queue') = Len(queue) + 1
      /\ \A i \in 1..Len(queue') : queue'[i] = m \/ (i \in 1..Len(queue) /\ queue'[i] = queue[i])
    BY <1>1, <1>4
<1>7. Bounded'
    BY <1>0, <1>1, <1>4, <1>6 DEF Bounded
<1>8. Numbered'
    BY <1>0, <1>1, <1>4, <1>6 DEF Numbered
<1>9. CountedInv' /\ HandledInv'
    BY <1>0, <1>4, <1>5 DEF CountedInv, HandledInv, Handled, Passed
<1> QED
    BY <1>7, <1>8, <1>9 DEF MailInv

\* A scan begins with the first mail.
LEMMA ScanStartCounts ==
    ASSUME BounceInv, MailInv, ScanStart
    PROVE  MailInv'
<1>0. /\ ScanLimit \in Nat /\ Len(mailbox) \in Nat /\ MaxInputs \in Nat
      /\ Bounded /\ Numbered /\ CountedInv /\ HandledInv
    BY BouncesAssumption, AudienceAssumption DEF MailInv, BounceInv
<1>1. /\ scan.at = "asleep" /\ scan'.at = "download" /\ scan'.i = 1 /\ scan'.count \in Nat /\ scan'.count <= ScanLimit
      /\ UNCHANGED <<audienceVars, mailbox, queue, bounceHistory>>
    BY <1>0 DEF ScanStart, Asleep
<1>2. Counts' = Counts
    BY <1>1 DEF Counts, bounceHistory
<1>3. \A j \in 1..Len(mailbox) : ~Passed(j) /\ ~Passed(j)'
    BY <1>0, <1>1 DEF Passed
<1>4. Bounded'
    BY <1>0, <1>1 DEF Bounded, bounceHistory, audienceVars
<1>5. Numbered'
    BY <1>0, <1>1 DEF Numbered, bounceHistory
<1>6. CountedInv' /\ HandledInv'
    BY <1>0, <1>1, <1>2, <1>3 DEF CountedInv, HandledInv, Handled, bounceHistory
<1> QED
    BY <1>4, <1>5, <1>6 DEF MailInv

\* A mail is downloaded: queued, or the queue is full and it is skipped, or it cannot be
\* read; its number is not that of a mail the scan has still to come to.
LEMMA DownloadCounts ==
    ASSUME BounceInv, MailInv, Download
    PROVE  MailInv'
<1>0. /\ MaxInputs \in Nat /\ QueueSize \in Nat
      /\ Bounded /\ Numbered /\ CountedInv /\ HandledInv
    BY BouncesAssumption, AudienceAssumption DEF MailInv
<1>1. /\ scan.at = "download" /\ scan.i \in 1..Len(mailbox) /\ scan.i \in Nat /\ scan.count \in Nat /\ scan.i <= scan.count
      /\ mails \in Nat /\ Len(mailbox) \in Nat /\ Len(queue) \in Nat /\ queue \in Seq(MailType)
    BY DEF BounceInv, Download
<1>2. PICK m \in MailType : m = mailbox[scan.i]
    BY <1>1 DEF BounceInv
<1>3. PICK k \in Nat : k = scan.i
    BY <1>1
<1>4. /\ scan'.at = "download" /\ scan'.i = k + 1 /\ scan'.count = scan.count
      /\ UNCHANGED <<audienceVars, mailbox, mails, readable, recorded, lost, faults>>
    BY <1>1, <1>3 DEF Download, BounceInv
<1>5. \/ m.n \in readable /\ Len(queue) < QueueSize /\ queue' = Append(queue, m) /\ skipped' = skipped
      \/ m.n \in readable /\ skipped' = skipped \cup {m.n} /\ queue' = queue
      \/ m.n \notin readable /\ queue' = queue /\ skipped' = skipped
    BY <1>2, Zenon DEF Download, Push
<1>6. m.n \in 1..mails /\ m.n \in 1..MaxInputs
    BY <1>0, <1>1, <1>2 DEF Numbered, Bounded
<1>7. Counts \in [1..MaxInputs -> Nat] /\ Counts[m.n] <= faults
    <2>1. Counts \in [1..MaxInputs -> Nat]
        BY <1>0, CountsType
    <2>2. ~Passed(scan.i)
        BY <1>1 DEF Passed
    <2>3. Counts[mailbox[scan.i].n] <= faults
        BY <1>0, <1>1, <2>2 DEF CountedInv
    <2> QED
        BY <1>2, <2>1, <2>3
<1>8. /\ Counts' \in [1..MaxInputs -> Nat]
      /\ \A n \in 1..MaxInputs : n # m.n => Counts'[n] = Counts[n]
      /\ Counts'[m.n] \in {Counts[m.n], Counts[m.n] + 1}
      /\ m.n \in readable => Handled(m.n)'
    <2>1. CASE queue' = Append(queue, m)
        <3>1. Counts' = [n \in 1..MaxInputs |-> IF n = m.n THEN Counts[n] + 1 ELSE Counts[n]]
            BY <2>1, <1>0, <1>4, PushCounts
        <3> QED
            BY <3>1, <1>6, <1>7 DEF Handled
    <2>2. CASE queue' = queue
        <3>1. Counts' = Counts
            BY <2>2, <1>4 DEF Counts
        <3>2. m.n \in readable => queue' = Append(queue, m) \/ m.n \in skipped'
            BY <1>5
        <3>3. queue' # Append(queue, m)
            BY <2>2, <1>1
        <3> QED
            BY <3>1, <3>2, <3>3, <1>6, <1>7 DEF Handled
    <2> QED
        BY <1>5, <2>1, <2>2
<1>9. Bounded'
    <2>1. skipped' \subseteq 1..mails
        BY <1>0, <1>5, <1>6 DEF Bounded
    <2>2. Len(queue') <= QueueSize
        BY <1>0, <1>1, <1>5 DEF Bounded
    <2>3. UNCHANGED <<spent, mails, readable, recorded, lost, faults>>
        BY <1>4 DEF audienceVars
    <2>4. scan'.i <= scan'.count + 1 /\ scan'.count <= ScanLimit
        BY <1>0, <1>1, <1>3, <1>4 DEF Bounded
    <2> QED
        BY <2>1, <2>2, <2>3, <2>4, <1>0 DEF Bounded
<1>10. Numbered'
    <2>1. \A i \in 1..Len(queue') : queue'[i] = m \/ (i \in 1..Len(queue) /\ queue'[i] = queue[i])
        BY <1>1, <1>5
    <2>2. m.n \in 0..mails /\ UNCHANGED <<mailbox, mails>>
        BY <1>0, <1>4, <1>6 DEF Numbered
    <2>3. \A i \in 1..Len(queue') : queue'[i].n \in 0..mails
        BY <1>0, <2>1, <2>2 DEF Numbered
    <2> QED
        BY <1>0, <2>2, <2>3 DEF Numbered
<1>11. \A j \in 1..Len(mailbox) : (Passed(j)' <=> Passed(j) \/ j = k) /\ (j # k => mailbox[j].n # m.n)
    BY <1>0, <1>1, <1>2, <1>3, <1>4 DEF Passed, Numbered
<1>12. CountedInv'
    <2>1. \A n \in 1..MaxInputs : Counts'[n] <= 1 + faults /\ (n > mails => Counts'[n] = 0)
        <3> SUFFICES ASSUME NEW n \in 1..MaxInputs
                     PROVE  Counts'[n] <= 1 + faults /\ (n > mails => Counts'[n] = 0)
            OBVIOUS
        <3>1. CASE n = m.n
            <4>1. Counts[n] \in Nat /\ Counts[n] <= faults /\ Counts'[n] \in {Counts[n], Counts[n] + 1} /\ faults \in Nat
                BY <3>1, <1>0, <1>6, <1>7, <1>8 DEF Bounded
            <4>2. ~(n > mails)
                BY <3>1, <1>1, <1>6
            <4> QED
                BY <4>1, <4>2
        <3>2. CASE n # m.n
            BY <3>2, <1>0, <1>8 DEF CountedInv
        <3> QED
            BY <3>1, <3>2
    <2>2. \A j \in 1..Len(mailbox) : mailbox[j].n \in 1..MaxInputs
        BY <1>0, <1>1 DEF Numbered, Bounded
    <2>3. \A j \in 1..Len(mailbox) : ~Passed(j)' => Counts'[mailbox[j].n] <= faults
        BY <2>2, <1>0, <1>8, <1>11 DEF CountedInv
    <2> QED
        BY <2>1, <2>3, <1>4 DEF CountedInv
<1>13. HandledInv'
    <2>1. \A n \in 1..MaxInputs : Handled(n) => Handled(n)'
        <3>1. \A n \in 1..MaxInputs : Counts[n] > 0 => Counts'[n] > 0
            BY <1>6, <1>7, <1>8
        <3>2. skipped \subseteq skipped' /\ lost' = lost
            BY <1>4, <1>5
        <3> QED
            BY <3>1, <3>2 DEF Handled
    <2>2. \A n \in readable : n \in 1..MaxInputs
        BY <1>0, <1>1 DEF Bounded
    <2>3. \A n \in readable : Handled(n)' \/ \E i \in 1..Len(mailbox) : mailbox[i].n = n
        BY <2>1, <2>2, <1>0 DEF HandledInv
    <2>4. ASSUME NEW j \in 1..Len(mailbox), Passed(j)', mailbox[j].n \in readable
          PROVE  Handled(mailbox[j].n)'
        <3>1. PICK n \in readable : n = mailbox[j].n
            BY <2>4
        <3>2. Handled(n)'
            BY <3>1, <2>1, <2>2, <2>4, <1>0, <1>2, <1>3, <1>8, <1>11 DEF HandledInv
        <3> QED
            BY <3>1, <3>2, <1>4 DEF Handled
    <2> QED
        BY <2>3, <2>4, <1>4 DEF HandledInv, Handled
<1> QED
    BY <1>9, <1>10, <1>12, <1>13 DEF MailInv

\* The mails that were downloaded are deleted: all, so that what is left has not been come to;
\* or not all, and the fault allows for another count of each.
LEMMA DeleteMailsCounts ==
    ASSUME BounceInv, MailInv, DeleteMails
    PROVE  MailInv'
<1>0. MaxInputs \in Nat /\ MaxFaults \in Nat /\ Bounded /\ Numbered /\ CountedInv /\ HandledInv
    BY BouncesAssumption, AudienceAssumption DEF MailInv
<1>1. /\ scan.at = "download" /\ scan.i \in Nat /\ scan.count \in Nat /\ scan.i > scan.count
      /\ scan.count <= Len(mailbox) /\ mails \in Nat /\ Len(mailbox) \in Nat /\ mailbox \in Seq(MailType)
    BY DEF BounceInv, DeleteMails
<1>2. /\ scan' = Asleep /\ UNCHANGED <<spent, queue, mails, readable, recorded, skipped, lost>>
    BY DEF DeleteMails, audienceVars
<1>3. PICK d \in 0..Len(mailbox) :
         /\ d <= scan.count
         /\ mailbox' = SubSeq(mailbox, d + 1, Len(mailbox))
         /\ (d = scan.count /\ faults' = faults) \/ (faults' = faults + 1 /\ faults' <= MaxFaults)
    <2>1. CASE mailbox' = SubSeq(mailbox, Deleted + 1, Len(mailbox)) /\ UNCHANGED faults
        <3>1. scan.count \in 0..Len(mailbox) /\ mailbox' = SubSeq(mailbox, scan.count + 1, Len(mailbox))
            BY <2>1, <1>1 DEF Deleted
        <3>2. PICK c \in 0..Len(mailbox) : c = scan.count
            BY <3>1
        <3>3. c <= scan.count /\ c = scan.count
            BY <3>2, <1>1
        <3>4. mailbox' = SubSeq(mailbox, c + 1, Len(mailbox))
            BY <3>1, <3>2, Zenon
        <3>5. faults' = faults
            BY <2>1
        <3> QED
            BY <3>3, <3>4, <3>5, Zenon
    <2>2. CASE Fault /\ \E k \in 0..(scan.count - 1) : mailbox' = SubSeq(mailbox, k + 1, Len(mailbox))
        <3>1. PICK k \in 0..(scan.count - 1) : mailbox' = SubSeq(mailbox, k + 1, Len(mailbox))
            BY <2>2
        <3>2. k \in 0..Len(mailbox) /\ k <= scan.count
            BY <1>1
        <3>3. faults' = faults + 1 /\ faults' <= MaxFaults
            BY <2>2, <1>0 DEF Fault, Bounded
        <3> QED
            BY <3>1, <3>2, <3>3
    <2> QED
        BY <2>1, <2>2 DEF DeleteMails
<1>4. /\ Len(mailbox') = Len(mailbox) - d
      /\ \A i \in 1..(Len(mailbox) - d) : mailbox'[i] = mailbox[i + d]
    BY <1>1, <1>3
<1>5. \A i \in 1..(Len(mailbox) - d) : i + d \in 1..Len(mailbox)
    BY <1>1
<1>6. Counts' = Counts /\ Counts \in [1..MaxInputs -> Nat]
    BY <1>0, <1>2, CountsType DEF Counts
<1>7. Bounded'
    <2>1. Len(mailbox) - d >= 0 /\ scan'.i = 0 /\ scan'.count = 0 /\ scan.count >= 0
        BY <1>1, <1>2 DEF Asleep
    <2>2. ScanLimit \in Nat /\ faults \in Nat /\ faults <= MaxFaults
        BY <1>0, BouncesAssumption DEF Bounded
    <2>3. faults' \in 0..MaxFaults
        BY <2>2, <1>0, <1>3
    <2> QED
        BY <2>1, <2>2, <2>3, <1>0, <1>2 DEF Bounded
<1>8. Numbered'
    <2>1. \A i \in 1..Len(mailbox') : mailbox'[i].n \in 1..mails
        BY <1>0, <1>4, <1>5 DEF Numbered
    <2>2. ASSUME NEW i \in 1..Len(mailbox'), NEW j \in 1..Len(mailbox'), i < j
          PROVE  mailbox'[i].n < mailbox'[j].n
        <3>1. i + d \in 1..Len(mailbox) /\ j + d \in 1..Len(mailbox) /\ i + d < j + d
            BY <1>1, <1>4, <1>5, <2>2
        <3> QED
            BY <3>1, <1>0, <1>4 DEF Numbered
    <2> QED
        BY <2>1, <2>2, <1>0, <1>2 DEF Numbered
<1>9. CountedInv'
    <2>1. ASSUME NEW n \in 1..MaxInputs
          PROVE  Counts[n] <= 1 + faults' /\ (n > mails => Counts[n] = 0)
        <3>1. Counts[n] \in Nat /\ Counts[n] <= 1 + faults /\ (n > mails => Counts[n] = 0) /\ faults \in Nat
            BY <1>0, <1>6 DEF CountedInv, Bounded
        <3> QED
            BY <3>1, <1>3
    <2>3. scan.i = scan.count + 1
        BY <1>0, <1>1 DEF Bounded
    <2>2. ASSUME NEW j \in 1..Len(mailbox')
          PROVE  Counts[mailbox'[j].n] <= faults'
        <3>1. PICK i \in 1..Len(mailbox) : i = j + d /\ mailbox'[j] = mailbox[i]
            BY <1>4, <1>5
        <3>2. PICK n \in 1..MaxInputs : n = mailbox[i].n
            <4>1. mailbox[i].n \in 1..mails /\ mails <= MaxInputs
                BY <1>0, <1>1 DEF Numbered, Bounded
            <4>2. mailbox[i].n \in 1..MaxInputs
                BY <4>1, <1>0, <1>1
            <4> QED
                BY <4>2
        <3>3. Counts[n] \in Nat /\ Counts[n] <= 1 + faults /\ faults \in Nat
            BY <1>0, <1>6 DEF CountedInv, Bounded
        <3>4. CASE faults' = faults + 1
            BY <3>1, <3>2, <3>3, <3>4
        <3>5. CASE d = scan.count /\ faults' = faults
            <4>1. ~Passed(i)
                BY <3>1, <3>5, <2>3, <1>1 DEF Passed
            <4> QED
                BY <4>1, <3>1, <3>5, <1>0 DEF CountedInv
        <3> QED
            BY <3>4, <3>5, <1>3
    <2> QED
        BY <2>1, <2>2, <1>2, <1>6 DEF CountedInv
<1>10. HandledInv'
    <2>1. ASSUME NEW n \in readable, ~Handled(n)
          PROVE  \E i \in 1..Len(mailbox') : mailbox'[i].n = n
        <3>1. PICK i \in 1..Len(mailbox) : mailbox[i].n = n
            BY <2>1, <1>0 DEF HandledInv
        <3>2. ~Passed(i)
            BY <2>1, <3>1, <1>0 DEF HandledInv
        <3>3. i > d
            BY <3>1, <3>2, <1>1, <1>3 DEF Passed
        <3>4. PICK j \in 1..(Len(mailbox) - d) : i = j + d
            <4>1. i - d \in 1..(Len(mailbox) - d) /\ i = (i - d) + d
                BY <3>3, <1>1
            <4> QED
                BY <4>1
        <3> QED
            BY <3>1, <3>4, <1>4
    <2>2. \A j : ~Passed(j)'
        BY <1>2 DEF Passed, Asleep
    <2> QED
        BY <2>1, <2>2, <1>2, <1>6 DEF HandledInv, Handled
<1> QED
    BY <1>7, <1>8, <1>9, <1>10 DEF MailInv

\* The first of the queue is recorded.
LEMMA TakeKeepsCounts ==
    ASSUME BounceInv, MailInv, Take
    PROVE  MailInv'
<1>0. MaxInputs \in Nat /\ QueueSize \in Nat /\ Bounded /\ Numbered /\ CountedInv /\ HandledInv
    BY BouncesAssumption, AudienceAssumption DEF MailInv
<1>1. /\ queue' = Tail(queue) /\ queue # <<>> /\ queue \in Seq(MailType) /\ Len(queue) \in Nat
      /\ UNCHANGED <<spent, mailbox, scan, mails, readable, skipped, lost, faults>>
    BY DEF BounceInv, Take
<1>2. Len(queue') = Len(queue) - 1 /\ \A i \in 1..Len(queue') : i + 1 \in 1..Len(queue) /\ queue'[i] = queue[i + 1]
    BY <1>1
<1>3. Counts' = Counts
    BY <1>0, TakeCounts
<1>4. PICK m \in MailType : m = Head(queue)
    BY <1>1
<1>5. recorded' = IF m.n > 0 THEN [recorded EXCEPT ![m.n] = @ + 1] ELSE recorded
    BY <1>4 DEF Take
<1>6. recorded' \in [1..MaxInputs -> Nat]
    <2>1. recorded \in [1..MaxInputs -> Nat]
        BY <1>0 DEF Bounded
    <2>2. ASSUME NEW n \in 1..MaxInputs
          PROVE  [recorded EXCEPT ![n] = @ + 1] \in [1..MaxInputs -> Nat]
        <3>1. recorded[n] + 1 \in Nat
            BY <2>1
        <3> QED
            BY <2>1, <3>1
    <2>3. m.n > 0 => m.n \in 1..MaxInputs
        <3>1. m = queue[1] /\ 1 \in 1..Len(queue)
            BY <1>1, <1>4
        <3>2. queue[1].n \in 0..mails
            BY <3>1, <1>0 DEF Numbered
        <3>3. mails \in Nat /\ mails <= spent /\ spent \in 0..MaxInputs
            <4>1. mails \in Nat
                BY DEF BounceInv
            <4>2. mails <= spent /\ spent \in 0..MaxInputs
                BY <1>0 DEF Bounded
            <4> QED
                BY <4>1, <4>2
        <3>4. mails \in 0..MaxInputs
            BY <1>0, <3>3
        <3>5. queue[1].n \in 0..MaxInputs
            BY <1>0, <3>2, <3>3, <3>4
        <3>6. m.n \in 0..MaxInputs
            BY <3>1, <3>5
        <3> QED
            BY <1>0, <3>6
    <2> QED
        BY <2>1, <2>2, <2>3, <1>5
<1>7. Bounded'
    <2>1. Len(queue') <= QueueSize
        <3>1. Len(queue) <= QueueSize /\ QueueSize \in Nat
            BY <1>0, BouncesAssumption DEF Bounded
        <3> QED
            BY <1>1, <1>2, <3>1
    <2> QED
        BY <1>0, <1>1, <1>6, <2>1 DEF Bounded
<1>8. Numbered'
    <2>1. \A i \in 1..Len(queue') : queue'[i].n \in 0..mails
        BY <1>0, <1>2 DEF Numbered
    <2> QED
        BY <1>0, <1>1, <2>1 DEF Numbered
<1>9. CountedInv' /\ HandledInv'
    BY <1>0, <1>1, <1>3 DEF CountedInv, HandledInv, Handled, Passed
<1> QED
    BY <1>7, <1>8, <1>9 DEF MailInv

\* A restart loses what was in the queue, and the fault allows for another count of what a
\* scan had downloaded.
LEMMA RestartCounts ==
    ASSUME BounceInv, MailInv, Restart
    PROVE  MailInv'
<1>0. /\ MaxInputs \in Nat /\ MaxFaults \in Nat /\ QueueSize \in Nat /\ ScanLimit \in Nat
      /\ Bounded /\ Numbered /\ CountedInv /\ HandledInv
    BY BouncesAssumption, AudienceAssumption DEF MailInv
<1>1. /\ queue' = <<>> /\ scan' = Asleep /\ faults' = faults + 1 /\ faults' <= MaxFaults
      /\ lost' = (lost \cup {queue[i].n : i \in DOMAIN queue}) \ {0}
      /\ UNCHANGED <<spent, mailbox, mails, readable, recorded, skipped>>
    BY <1>0 DEF Restart, Fault, Bounded
<1>2. queue \in Seq(MailType) /\ Len(queue) \in Nat /\ DOMAIN queue = 1..Len(queue) /\ mails \in Nat /\ Len(mailbox) \in Nat
    BY DEF BounceInv
<1>3. queue' \in Seq(MailType) /\ Len(queue') = 0
    BY <1>1
<1>4. BounceInv'
    BY <1>1, <1>3 DEF BounceInv, Asleep
<1>5. Bounded'
    <2>1. lost' \subseteq 1..mails
        <3>1. lost \subseteq 1..mails /\ \A i \in 1..Len(queue) : queue[i].n \in 0..mails
            BY <1>0 DEF Bounded, Numbered
        <3>2. ASSUME NEW n \in lost'
              PROVE  n \in 1..mails
            <4>1. n # 0 /\ (n \in lost \/ \E i \in DOMAIN queue : n = queue[i].n)
                BY <3>2, <1>1
            <4>2. ASSUME NEW i \in DOMAIN queue, n = queue[i].n
                  PROVE  n \in 0..mails
                BY <3>1, <4>2, <1>2
            <4>3. n \in lost \/ n \in 0..mails
                BY <4>1, <4>2, Zenon
            <4>4. n \in lost => n \in 1..mails
                BY <3>1
            <4>5. n \in 0..mails => n \in 1..mails
                BY <4>1, <1>2
            <4> QED
                BY <4>3, <4>4, <4>5, Zenon
        <3> QED
            BY <3>2
    <2> QED
        BY <2>1, <1>0, <1>1, <1>2, <1>3 DEF Bounded, Asleep
<1>6. Numbered'
    BY <1>0, <1>1, <1>3 DEF Numbered
<1>7. ASSUME NEW n \in 1..MaxInputs
      PROVE  /\ Counts[n] \in Nat /\ Counts'[n] \in Nat /\ Counts'[n] <= Counts[n] /\ Counts'[n] = recorded[n]
             /\ Counts[n] > 0 => Counts'[n] > 0 \/ n \in lost'
    <2>1. PlacesIn(queue', OfMail(n)) = {}
        BY <1>1 DEF PlacesIn
    <2>2. Cardinality({}) = 0
        BY FS_EmptySet
    <2>3. Counts'[n] = recorded[n]
        <3>1. Counts'[n] = recorded'[n] + Cardinality(PlacesIn(queue', OfMail(n))) /\ recorded[n] \in Nat
            BY <1>0 DEF Counts, Bounded
        <3> QED
            BY <3>1, <2>1, <2>2, <1>1
    <2>4. IsFiniteSet(PlacesIn(queue, OfMail(n))) /\ Cardinality(PlacesIn(queue, OfMail(n))) \in Nat
        BY <1>2, PlacesFinite
    <2>5. Counts[n] = recorded[n] + Cardinality(PlacesIn(queue, OfMail(n))) /\ recorded[n] \in Nat
        BY <1>0 DEF Counts, Bounded
    <2>6. Counts[n] > 0 => recorded[n] > 0 \/ \E i \in DOMAIN queue : queue[i].n = n
        BY <1>0, CountsType
    <2> QED
        BY <2>3, <2>4, <2>5, <2>6, <1>1
<1>8. CountedInv'
    <2>1. ASSUME NEW n \in 1..MaxInputs
          PROVE  Counts'[n] <= 1 + faults /\ (n > mails => Counts'[n] = 0)
        <3>1. Counts[n] <= 1 + faults /\ (n > mails => Counts[n] = 0) /\ faults \in Nat
            BY <1>0 DEF CountedInv, Bounded
        <3> QED
            BY <3>1, <1>7
    <2>2. \A j \in 1..Len(mailbox) : mailbox[j].n \in 1..MaxInputs
        BY <1>0, <1>2 DEF Numbered, Bounded
    <2>3. faults \in Nat
        BY <1>0 DEF Bounded
    <2>4. \A n \in 1..MaxInputs : Counts'[n] <= 1 + faults' /\ (n > mails => Counts'[n] = 0)
        BY <2>1, <2>3, <1>1, <1>7
    <2>5. \A j \in 1..Len(mailbox) : Counts'[mailbox[j].n] <= faults'
        BY <2>1, <2>2, <2>3, <1>1
    <2> QED
        BY <2>4, <2>5, <1>1 DEF CountedInv
<1>9. HandledInv'
    <2>1. \A n \in 1..MaxInputs : Handled(n) => Handled(n)'
        BY <1>1, <1>7 DEF Handled
    <2>2. \A n \in readable : n \in 1..MaxInputs
        BY <1>0, <1>2 DEF Bounded
    <2>3. \A n \in readable : Handled(n)' \/ \E i \in 1..Len(mailbox) : mailbox[i].n = n
        BY <2>1, <2>2, <1>0 DEF HandledInv
    <2>4. \A j : ~Passed(j)'
        BY <1>1 DEF Passed, Asleep
    <2> QED
        BY <2>3, <2>4, <1>1 DEF HandledInv
<1> QED
    BY <1>5, <1>6, <1>8, <1>9 DEF MailInv

\* Every step keeps the accounts of the mails.
LEMMA MailNextKeeps ==
    ASSUME Inv, BounceInv, MailInv, [Next]_vars
    PROVE  MailInv'
<1>1. CASE AudienceNext /\ UNCHANGED bounceVars
    BY <1>1, SpentStep, SameMails
<1>2. CASE Manager
    <2>1. ASSUME spent < MaxInputs, NEW s \in Subscribers, NEW t \in BounceTypes,
                 \/ Record(Bounce(s, 0, t)) \/ Record(Bounce(s, rowId[s], t))
                 \/ \E ok \in BOOLEAN : MailArrives(s, t, ok)
          PROVE  MailInv'
        BY <2>1, RecordCounts, MailArrivesCounts DEF Inv
    <2> QED
        BY <1>2, <2>1, ScanStartCounts, DownloadCounts, DeleteMailsCounts, TakeKeepsCounts, RestartCounts DEF Manager
<1>3. CASE UNCHANGED vars
    BY <1>3, SameMails DEF vars, audienceVars
<1> QED
    BY <1>1, <1>2, <1>3 DEF Next

\* At the start there is no mail.
LEMMA MailInit == Init => MailInv
<1> SUFFICES ASSUME Init PROVE MailInv
    OBVIOUS
<1>1. MaxInputs \in Nat /\ MaxFaults \in Nat /\ QueueSize \in Nat /\ ScanLimit \in Nat
    BY BouncesAssumption, AudienceAssumption
<1>2. /\ mailbox = <<>> /\ queue = <<>> /\ scan = Asleep /\ mails = 0 /\ readable = {} /\ spent = 0
      /\ recorded = [n \in 1..MaxInputs |-> 0] /\ skipped = {} /\ lost = {} /\ faults = 0
    BY DEF Init, AudienceInit
<1>3. \A n \in 1..MaxInputs : Counts[n] = 0
    <2>1. \A n : PlacesIn(queue, OfMail(n)) = {}
        BY <1>2 DEF PlacesIn
    <2> QED
        BY <2>1, <1>2, FS_EmptySet DEF Counts
<1>4. Bounded
    BY <1>1, <1>2 DEF Bounded, Asleep
<1>5. Numbered /\ CountedInv /\ HandledInv
    BY <1>2, <1>3 DEF Numbered, CountedInv, HandledInv
<1> QED
    BY <1>4, <1>5 DEF MailInv

\* The accounts of the mails hold in every reachable state.
THEOREM MailInvCorrect == Spec => [](BounceInv /\ MailInv)
<1>1. Init => Inv /\ BounceInv /\ MailInv
    BY InvInit, MailInit
<1>2. Inv /\ BounceInv /\ MailInv /\ [Next]_vars => (Inv /\ BounceInv /\ MailInv)'
    BY InvNext, MailNextKeeps
<1> QED
    BY <1>1, <1>2, PTL DEF Spec

\* A bounced mail that could be read is not lost but when the queue was full or the process
\* ended, and counts once and once more for each failed deletion or restart: MailsCounted, for
\* any number of mails, queue size and scan limit, of scans that mails arrive in and that
\* break off (pop.go:104, 187-205, bounce.go:130-138).
THEOREM MailsCorrect == Spec => []MailsCounted
<1>1. ASSUME BounceInv, MailInv
      PROVE  MailsCounted
    <2>1. Bounded /\ CountedInv /\ HandledInv /\ mails \in Nat /\ MaxInputs \in Nat
        BY <1>1, AudienceAssumption DEF MailInv, BounceInv
    <2>2. ASSUME NEW n \in readable
          PROVE  \/ \E i \in DOMAIN mailbox : mailbox[i].n = n
                 \/ recorded[n] > 0 \/ \E i \in DOMAIN queue : queue[i].n = n
                 \/ n \in skipped \cup lost
        <3>1. n \in 1..MaxInputs
            BY <2>1 DEF Bounded
        <3>2. CASE Handled(n)
            BY <3>1, <3>2, <1>1, <2>1, CountsType DEF Handled
        <3>3. CASE \E i \in 1..Len(mailbox) : mailbox[i].n = n
            BY <3>3, <1>1 DEF BounceInv
        <3> QED
            BY <3>2, <3>3, <2>1 DEF HandledInv
    <2>3. MailsAccountedFor
        BY <2>2 DEF MailsAccountedFor
    <2>4. CountedOncePerFault
        BY <1>1, <2>1, CountsType DEF CountedOncePerFault, CountedInv
    <2> QED
        BY <2>3, <2>4 DEF MailsCounted
<1> QED
    BY <1>1, MailInvCorrect, PTL

-----------------------------------------------------------------------------
(* What a step does to bounces, confirmations and blocklistings.           *)

\* Bounces belong to a row, and subscriptions to a list that is there.
Footing ==
    /\ list \in [Lists -> Attributes \cup {NoList}]
    /\ bounces \in [Subscribers -> [BounceTypes -> Nat]]
    /\ consent \subseteq Pairs
    /\ \A s \in Subscribers, l \in Lists : subscription[s][l] # NoRow => list[l] # NoList
    /\ \A s \in Subscribers, t \in BounceTypes : ~HasRow(s) => bounces[s][t] = 0

\* Bounces are forgotten, if anything; a confirmation is not undone by asking again; nobody is
\* taken off the blocklist.
Falling == \A s \in Subscribers, t \in BounceTypes : bounces'[s][t] \in {0, bounces[s][t]}
Confirming == \A s \in Subscribers, l \in Lists :
    subscription[s][l] = "confirmed" => subscription'[s][l] # "unconfirmed"
Blocklisting == \A s \in Subscribers : status[s] = "blocklisted" => status'[s] \notin {"enabled", "disabled"}

\* The exceptions ConfirmationKept and BlocklistingLiftedByStaleOnly make.
Unconfirming == \A c \in Pairs : Row(c) = "confirmed" /\ Row(c)' = "unconfirmed" =>
    \E S \in SUBSET Subscribers, L \in SUBSET Lists : c \in S \X L /\ Add(S, L, "unconfirmed")
Lifting == \A s \in Subscribers : status[s] = "blocklisted" /\ status'[s] \in {"enabled", "disabled"} =>
    \/ \E r \in Requests : request[r].sub = s /\ request'[r] # request[r]
                          /\ (request[r].at = "patch" \/ request[r].read \notin {"blocklisted", NoRow})
    \/ \E r \in Requests, L \in SUBSET Lists, p \in BOOLEAN : Edit(r, s, status'[s], L, p)

Steady == Footing' /\ Falling /\ Confirming /\ Blocklisting
Proper == Footing' /\ Falling /\ Unconfirming /\ Lifting

\* A step that makes no exception needs none.
LEMMA SteadyIsProper == Steady => Proper
BY DEF Steady, Proper, Confirming, Unconfirming, Blocklisting, Lifting, Pairs, Row

\* Statements that leave lists and bounces alone, and delete no row.
LEMMA SameFooting ==
    ASSUME Footing, UNCHANGED <<list, bounces>>, consent' \subseteq Pairs,
           \A s \in Subscribers, l \in Lists :
                subscription'[s][l] # NoRow => subscription[s][l] # NoRow \/ list[l] # NoList,
           \A s \in Subscribers : HasRow(s) => HasRow(s)'
    PROVE  Footing' /\ Falling
<1>1. \A s \in Subscribers, l \in Lists : subscription'[s][l] # NoRow => list'[l] # NoList
    BY DEF Footing
<1>2. \A s \in Subscribers, t \in BounceTypes : ~HasRow(s)' => bounces'[s][t] = 0
    BY DEF Footing
<1>3. list' \in [Lists -> Attributes \cup {NoList}] /\ bounces' \in [Subscribers -> [BounceTypes -> Nat]]
    BY DEF Footing
<1>4. consent' \subseteq Pairs'
    BY DEF Pairs
<1>5. Falling
    BY DEF Falling
<1> QED
    BY <1>1, <1>2, <1>3, <1>4, <1>5 DEF Footing

\* Steps that leave the tables alone.
LEMMA SameSteady ==
    ASSUME TableInv, Footing, UNCHANGED <<tables, history>>
    PROVE  Steady
<1>1. UNCHANGED <<status, rowId, subscription, list, bounces, optedOut, consent>>
    BY DEF tables, history
<1>2. Confirming /\ Blocklisting
    BY <1>1 DEF Confirming, Blocklisting
<1>3. Footing' /\ Falling
    BY <1>1, SameFooting DEF HasRow, Footing
<1> QED
    BY <1>2, <1>3 DEF Steady

\* Deleting rows takes their subscriptions and bounces with them.
LEMMA DeleteRowsSteady ==
    ASSUME TableInv, Footing, NEW S \in SUBSET Subscribers, DeleteRows(S)
    PROVE  Steady
<1>1. NoRow \in Values
    BY DEF Values
<1>2. \A s \in Subscribers, l \in Lists :
        subscription'[s][l] = IF <<s, l>> \in S \X Lists THEN NoRow ELSE subscription[s][l]
    <2>1. subscription' = Mark(S \X Lists, NoRow)
        BY DEF DeleteRows
    <2> QED
        BY <1>1, <2>1 DEF Mark
<1>3. /\ status' = [s \in Subscribers |-> IF s \in S /\ HasRow(s) THEN NoRow ELSE status[s]]
      /\ bounces' = [s \in Subscribers |-> IF s \in S THEN [t \in BounceTypes |-> 0] ELSE bounces[s]]
      /\ consent' \subseteq consent /\ list' = list
    BY DEF DeleteRows, StatusSet
<1>4. Footing'
    <2>1. \A s \in Subscribers, l \in Lists : subscription'[s][l] # NoRow => list'[l] # NoList
        BY <1>2, <1>3 DEF Footing
    <2>2. bounces' \in [Subscribers -> [BounceTypes -> Nat]]
        BY <1>3 DEF Footing
    <2>3. \A s \in Subscribers, t \in BounceTypes : ~HasRow(s)' => bounces'[s][t] = 0
        BY <1>3 DEF Footing, HasRow
    <2> QED
        BY <2>1, <2>2, <2>3, <1>3 DEF Footing, Pairs
<1>5. Falling
    BY <1>3 DEF Falling
<1>6. Confirming /\ Blocklisting
    BY <1>2, <1>3 DEF Confirming, Blocklisting, NoRow
<1> QED
    BY <1>4, <1>5, <1>6 DEF Steady

\* Marking subscriptions that are there, or new ones of lists that are there, changes no
\* confirmed one to unconfirmed if those that are marked so are new.
LEMMA MarkSteady ==
    ASSUME TableInv, Footing, NEW cells, NEW st \in Values, subscription' = Mark(cells, st),
           UNCHANGED <<list, bounces>>, consent' \subseteq Pairs,
           st # NoRow => \A s \in Subscribers, l \in Lists :
                <<s, l>> \in cells => subscription[s][l] # NoRow \/ list[l] # NoList,
           st = "unconfirmed" => \A s \in Subscribers, l \in Lists : <<s, l>> \in cells => subscription[s][l] = NoRow,
           \A s \in Subscribers : HasRow(s) => HasRow(s)'
    PROVE  Footing' /\ Falling /\ Confirming
<1>1. \A s \in Subscribers, l \in Lists :
        subscription'[s][l] = IF <<s, l>> \in cells THEN st ELSE subscription[s][l]
    BY DEF Mark
<1>2. Footing' /\ Falling
    BY <1>1, SameFooting
<1>3. Confirming
    BY <1>1 DEF Confirming, NoRow
<1> QED
    BY <1>2, <1>3

\* Blocklisting, unsubscribing and removing.
LEMMA RowsSteady ==
    ASSUME TableInv, Footing,
           \/ \E S : BlocklistRows(S)
           \/ \E S \in SUBSET Subscribers, L \in SUBSET Lists : UnsubscribeRows(Subscriptions(S, L))
           \/ \E cells : RemoveRows(cells)
    PROVE  Steady
<1>0. "unsubscribed" \in Values /\ "unsubscribed" # "unconfirmed" /\ NoRow \in Values /\ consent \subseteq Pairs
    BY DEF Values, SubscriptionStatuses, Footing
<1>1. ASSUME NEW S, BlocklistRows(S)
      PROVE  Steady
    <2>1. /\ subscription' = Mark(Subscriptions(S, Lists), "unsubscribed") /\ UNCHANGED <<list, bounces, consent>>
          /\ status' = [s \in Subscribers |-> IF s \in S /\ HasRow(s) THEN "blocklisted" ELSE status[s]]
        BY <1>1 DEF BlocklistRows, StatusSet
    <2>2. \A s \in Subscribers, l \in Lists : <<s, l>> \in Subscriptions(S, Lists) => subscription[s][l] # NoRow
        BY DEF Subscriptions, Row
    <2>3. (\A s \in Subscribers : HasRow(s) => HasRow(s)') /\ Blocklisting
        BY <2>1 DEF HasRow, NoRow, Blocklisting
    <2> QED
        BY <1>0, <2>1, <2>2, <2>3, MarkSteady DEF Steady
<1>2. ASSUME NEW S \in SUBSET Subscribers, NEW L \in SUBSET Lists, UnsubscribeRows(Subscriptions(S, L))
      PROVE  Steady
    <2>1. subscription' = Mark(Subscriptions(S, L), "unsubscribed") /\ UNCHANGED <<status, list, bounces, consent>>
        BY <1>2 DEF UnsubscribeRows
    <2>2. \A s \in Subscribers, l \in Lists : <<s, l>> \in Subscriptions(S, L) => subscription[s][l] # NoRow
        BY DEF Subscriptions, Row
    <2>3. (\A s \in Subscribers : HasRow(s) => HasRow(s)') /\ Blocklisting
        BY <2>1 DEF HasRow, Blocklisting
    <2> QED
        BY <1>0, <2>1, <2>2, <2>3, MarkSteady DEF Steady
<1>3. ASSUME NEW cells, RemoveRows(cells)
      PROVE  Steady
    <2>1. subscription' = Mark(cells, NoRow) /\ UNCHANGED <<status, list, bounces>> /\ consent' \subseteq Pairs
        BY <1>0, <1>3 DEF RemoveRows
    <2>2. NoRow # "unconfirmed"
        BY DEF NoRow
    <2>3. (\A s \in Subscribers : HasRow(s) => HasRow(s)') /\ Blocklisting
        BY <2>1 DEF HasRow, Blocklisting
    <2> QED
        BY <1>0, <2>1, <2>2, <2>3, MarkSteady DEF Steady
<1> QED
    BY <1>1, <1>2, <1>3

\* A row is inserted where there was none, with subscriptions to lists that are there.
LEMMA InsertRowSteady ==
    ASSUME TableInv, Footing, NEW s \in Subscribers, ~HasRow(s), NEW st \in SubscriberStatuses,
           NEW L \in SUBSET Lists, NEW sub \in {"unconfirmed", "confirmed"},
           InsertRow(s, st, L, sub), consent' \subseteq Pairs
    PROVE  Steady
<1>1. PICK value : value = IF st = "blocklisted" THEN "unsubscribed" ELSE sub
    OBVIOUS
<1>2. value \in Values
    BY <1>1 DEF Values, SubscriptionStatuses
<1>3. /\ subscription' = Mark({s} \X Known(L), value) /\ UNCHANGED <<list, bounces>>
      /\ status' = [status EXCEPT ![s] = st]
    BY <1>1 DEF InsertRow
<1>4. \A x \in Subscribers, l \in Lists : <<x, l>> \in {s} \X Known(L) => list[l] # NoList /\ subscription[x][l] = NoRow
    BY DEF Known, TableInv, RowsOwned
<1>5. \A x \in Subscribers : HasRow(x) => HasRow(x)'
    BY <1>3 DEF TableInv, RowsTyped, HasRow, SubscriberStatuses, NoRow
<1>6. Blocklisting
    BY <1>3 DEF TableInv, RowsTyped, Blocklisting, HasRow, NoRow
<1> QED
    BY <1>2, <1>3, <1>4, <1>5, <1>6, MarkSteady DEF Steady

\* The upsert of a row that is there; what it does to the status is the caller's.
LEMMA UpdateRowSteady ==
    ASSUME TableInv, Footing, NEW s \in Subscribers, HasRow(s), NEW st \in SubscriberStatuses \cup {""},
           NEW L \in SUBSET Lists, NEW sub \in {"unconfirmed", "confirmed"},
           NEW delete \in BOOLEAN, NEW resubscribe \in BOOLEAN,
           UpdateRow(s, st, L, sub, delete, resubscribe), consent' \subseteq Pairs
    PROVE  /\ Footing' /\ Falling /\ Confirming
           /\ \A x \in Subscribers : status'[x] = IF x = s /\ st # "" THEN st ELSE status[x]
<1> DEFINE m(l) == Merged(subscription[s][l], st, sub, resubscribe)
<1>1. \A l \in Lists : subscription[s][l] = "confirmed" => m(l) # "unconfirmed"
    BY DEF Merged
<1>2. /\ subscription' = [subscription EXCEPT ![s] = [l \in Lists |->
            IF <<s, l>> \in {s} \X Known(L) THEN m(l) ELSE IF delete THEN NoRow ELSE subscription[s][l]]]
      /\ status' = (IF st = "" THEN status ELSE [status EXCEPT ![s] = st])
      /\ UNCHANGED <<list, bounces>>
    BY DEF UpdateRow, TableInv, RowsTyped
<1> HIDE DEF m
<1>3. /\ \A l \in Lists : subscription'[s][l] =
            IF l \in Known(L) THEN m(l) ELSE IF delete THEN NoRow ELSE subscription[s][l]
      /\ \A x \in Subscribers, l \in Lists : x # s => subscription'[x][l] = subscription[x][l]
    BY <1>2 DEF TableInv, RowsTyped
<1>4. \A l \in Known(L) : list[l] # NoList
    BY DEF Known
<1>5. \A x \in Subscribers : status'[x] = IF x = s /\ st # "" THEN st ELSE status[x]
    BY <1>2 DEF TableInv, RowsTyped
<1>6. \A x \in Subscribers : HasRow(x) => HasRow(x)'
    BY <1>5 DEF HasRow, SubscriberStatuses, NoRow
<1>7. \A x \in Subscribers, l \in Lists :
        subscription'[x][l] # NoRow => subscription[x][l] # NoRow \/ list[l] # NoList
    BY <1>3, <1>4
<1>8. Footing' /\ Falling
    BY <1>2, <1>6, <1>7, SameFooting
<1>9. Confirming
    BY <1>1, <1>3 DEF Confirming, NoRow
<1> QED
    BY <1>5, <1>8, <1>9

\* Steps of requests that read only, start or end.
LEMMA ReadsSteady ==
    ASSUME TableInv, Footing,
           \/ \E r \in Requests, s \in Subscribers, L \in SUBSET Lists : FormPost(r, s, L) \/ PrefsRead(r, s, L)
           \/ \E r \in Requests, k \in links : OptinOpen(r, k)
           \/ \E r \in Requests : Lookup(r) \/ PrefsSubscriptions(r) \/ SendMail(r)
           \/ \E r \in Requests, s \in Subscribers : PatchRead(r, s)
           \/ \E s \in Subscribers : SendOptinAgain(s)
    PROVE  Steady
<1>1. UNCHANGED tables /\ UNCHANGED history
    BY DEF FormPost, PrefsRead, OptinOpen, Lookup, PrefsSubscriptions, SendMail, PatchRead, SendOptinAgain
<1> QED
    BY <1>1, SameSteady

\* The form inserts a row, or merges; what a merge lifts is what it read.
LEMMA FormProper ==
    ASSUME Inv, Footing, NEW r \in Requests, FormInsert(r) \/ FormMerge(r)
    PROVE  Proper
<1>0. TableInv /\ request[r] \in RequestType
    BY DEF Inv, RequestInv
<1>1. PICK q \in RequestType : q = request[r]
    BY <1>0
<1>2. consent \subseteq Pairs /\ q.saw \in SUBSET Lists /\ "enabled" \in SubscriberStatuses
    BY <1>1 DEF Footing, RequestType, SubscriberStatuses
<1>3. CASE FormInsert(r)
    <2>1. q.sub \in Subscribers
        BY <1>1, <1>3, RequestFacts DEF Inv, FormInsert, At
    <2>2. CASE HasRow(q.sub)
        BY <1>0, <1>1, <1>3, <2>2, SameSteady, SteadyIsProper DEF FormInsert
    <2>3. CASE ~HasRow(q.sub)
        <3>1. InsertRow(q.sub, "enabled", q.saw, "unconfirmed") /\ UNCHANGED consent
            BY <1>1, <1>3, <2>3 DEF FormInsert, FormSubscription
        <3> QED
            BY <1>0, <1>2, <2>1, <2>3, <3>1, InsertRowSteady, SteadyIsProper
    <2> QED
        BY <2>2, <2>3
<1>4. CASE FormMerge(r)
    <2>1. q.sub \in Subscribers /\ q.read \in SubscriberStatuses /\ q.at = "merge"
        BY <1>1, <1>4, RequestFacts DEF Inv, RequestInv, FormMerge, At
    <2>2. CASE ~SameRow(r)
        BY <1>0, <2>2, <1>4, SameSteady, SteadyIsProper DEF FormMerge
    <2>3. CASE SameRow(r)
        <3>1. UpdateRow(q.sub, q.read, q.saw, "unconfirmed", FALSE, TRUE) /\ UNCHANGED consent /\ Goto(r, "mail")
            BY <1>1, <1>4, <2>3 DEF FormMerge, FormStatus, FormSubscription
        <3>2. HasRow(q.sub) /\ q.read # ""
            BY <1>1, <2>1, <2>3 DEF SameRow, SubscriberStatuses
        <3>3. /\ Footing' /\ Falling /\ Confirming
              /\ \A x \in Subscribers : status'[x] = IF x = q.sub /\ q.read # "" THEN q.read ELSE status[x]
            BY <1>0, <1>2, <2>1, <3>1, <3>2, UpdateRowSteady
        <3>4. request'[r] # request[r]
            <4>1. request' = [request EXCEPT ![r].at = "mail"] /\ request \in [Requests -> RequestType]
                BY <3>1 DEF Goto, Inv, RequestInv
            <4>2. request'[r].at = "mail"
                BY <4>1 DEF RequestType
            <4> QED
                BY <1>1, <2>1, <4>2
        <3>5. Lifting
            BY <1>1, <2>1, <3>2, <3>3, <3>4 DEF Lifting, NoRow
        <3>6. Unconfirming
            BY <3>3 DEF Confirming, Unconfirming, Pairs, Row
        <3> QED
            BY <3>3, <3>5, <3>6 DEF Proper
    <2> QED
        BY <2>2, <2>3
<1> QED
    BY <1>3, <1>4

\* The preferences page writes the status it read, and unsubscribes.
LEMMA PrefsProper ==
    ASSUME Inv, Footing, NEW r \in Requests, PrefsWrite(r) \/ PrefsUnsubscribe(r)
    PROVE  Proper
<1>0. TableInv /\ request[r] \in RequestType
    BY DEF Inv, RequestInv
<1>1. PICK q \in RequestType : q = request[r]
    BY <1>0
<1>2. CASE PrefsWrite(r)
    <2>1. q.sub \in Subscribers /\ q.read \in SubscriberStatuses /\ q.at = "write"
        BY <1>1, <1>2, RequestFacts DEF Inv, RequestInv, PrefsWrite, At
    <2>2. CASE ~SameRow(r)
        <3>1. UNCHANGED <<tables, history>>
            BY <1>2, <2>2 DEF PrefsWrite, tables
        <3> QED
            BY <1>0, <3>1, SameSteady, SteadyIsProper
    <2>3. CASE SameRow(r)
        <3>1. /\ status' = [status EXCEPT ![q.sub] = q.read] /\ Goto(r, "subscriptions")
              /\ UNCHANGED <<subscription, list, bounces, consent>>
            BY <1>1, <1>2, <2>3 DEF PrefsWrite, history
        <3>2. \A x \in Subscribers : HasRow(x) => HasRow(x)'
            BY <1>0, <2>1, <3>1 DEF TableInv, RowsTyped, HasRow, SubscriberStatuses, NoRow
        <3>3. Footing' /\ Falling
            BY <3>1, <3>2, SameFooting DEF Footing
        <3>4. request'[r] # request[r]
            <4>1. request' = [request EXCEPT ![r].at = "subscriptions"] /\ request \in [Requests -> RequestType]
                BY <3>1 DEF Goto, Inv, RequestInv
            <4>2. request'[r].at = "subscriptions"
                BY <4>1 DEF RequestType
            <4> QED
                BY <1>1, <2>1, <4>2
        <3>5. Lifting
            BY <1>0, <1>1, <2>1, <3>1, <3>4 DEF Lifting, NoRow, TableInv, RowsTyped
        <3>6. Unconfirming
            BY <3>1 DEF Unconfirming, Row
        <3> QED
            BY <3>3, <3>5, <3>6 DEF Proper
    <2> QED
        BY <2>2, <2>3
<1>3. CASE PrefsUnsubscribe(r)
    <2>1. q.sub \in Subscribers /\ q.saw \in SUBSET Lists
        BY <1>1, <1>3, RequestFacts DEF Inv, PrefsUnsubscribe, At, RequestType
    <2>2. Subscriptions({}, Lists) = {}
        BY DEF Subscriptions
    <2>3. \E S \in SUBSET Subscribers, L \in SUBSET Lists : UnsubscribeRows(Subscriptions(S, L))
        BY <1>1, <1>3, <2>1, <2>2 DEF PrefsUnsubscribe
    <2> QED
        BY <1>0, <2>3, RowsSteady, SteadyIsProper
<1> QED
    BY <1>2, <1>3

\* An opt-in link confirms subscriptions that are there.
LEMMA OptinProper ==
    ASSUME Inv, Footing, NEW r \in Requests, OptinConfirm(r)
    PROVE  Proper
<1>0. TableInv /\ request[r] \in RequestType /\ "confirmed" \in Values
    BY DEF Inv, RequestInv, Values, SubscriptionStatuses
<1>1. request[r].sub \in Subscribers /\ request[r].lists \in SUBSET Lists
    BY <1>0, RequestFacts DEF Inv, OptinConfirm, At, RequestType
<1>2. PICK cells : cells = IF SameRow(r) THEN Subscriptions({request[r].sub}, request[r].lists) ELSE {}
    OBVIOUS
<1>3. /\ subscription' = Mark(cells, "confirmed") /\ UNCHANGED <<status, list, bounces>>
      /\ consent' = consent \/ consent' = consent \cup cells
    BY <1>2 DEF OptinConfirm
<1>4. /\ cells \subseteq Pairs
      /\ \A s \in Subscribers, l \in Lists : <<s, l>> \in cells => subscription[s][l] # NoRow
    BY <1>1, <1>2 DEF Subscriptions, Row, Pairs
<1>5. consent' \subseteq Pairs
    BY <1>3, <1>4 DEF Footing
<1>6. (\A s \in Subscribers : HasRow(s) => HasRow(s)') /\ Blocklisting
    BY <1>3 DEF HasRow, Blocklisting
<1> QED
    BY <1>0, <1>3, <1>4, <1>5, <1>6, MarkSteady, SteadyIsProper DEF Steady

\* What an administrator creates, edits or patches; only the last two lift a blocklisting.
LEMMA CreateProper ==
    ASSUME Inv, Footing, NEW r \in Requests, NEW s \in Subscribers, NEW st \in SubscriberStatuses,
           NEW L \in SUBSET Lists, NEW p \in BOOLEAN, Create(r, s, st, L, p)
    PROVE  Proper
<1>1. PICK sub \in {"unconfirmed", "confirmed"} : sub = IF p THEN "confirmed" ELSE "unconfirmed"
    OBVIOUS
<1>2. /\ InsertRow(s, st, L, sub) /\ ~HasRow(s) /\ TableInv
      /\ consent' = IF p THEN consent \cup ({s} \X Known(L)) ELSE consent
    BY <1>1 DEF Create, Inv
<1>3. consent' \subseteq Pairs
    BY <1>2 DEF Footing, Known, Pairs
<1> QED
    BY <1>2, <1>3, InsertRowSteady, SteadyIsProper

\* An edit of a subscriber changes consent only as a request of an administrator may.
LEMMA EditProper ==
    ASSUME Inv, Footing, NEW r \in Requests, NEW s \in Subscribers, NEW st \in SubscriberStatuses \cup {""},
           NEW L \in SUBSET Lists, NEW p \in BOOLEAN, Edit(r, s, st, L, p)
    PROVE  Proper
<1>1. PICK sub \in {"unconfirmed", "confirmed"} : sub = IF p THEN "confirmed" ELSE "unconfirmed"
    OBVIOUS
<1>2. /\ UpdateRow(s, st, L, sub, TRUE, FALSE) /\ HasRow(s) /\ TableInv
      /\ consent' = (consent \ ({s} \X (Lists \ L))) \cup (IF p THEN {s} \X Known(L) ELSE {})
    BY <1>1 DEF Edit, Inv
<1>3. consent' \subseteq Pairs
    BY <1>2 DEF Footing, Known, Pairs
<1>4. /\ Footing' /\ Falling /\ Confirming
      /\ \A x \in Subscribers : status'[x] = IF x = s /\ st # "" THEN st ELSE status[x]
    BY <1>2, <1>3, UpdateRowSteady
<1>5. Lifting
    <2> SUFFICES ASSUME NEW x \in Subscribers, status[x] = "blocklisted", status'[x] \in {"enabled", "disabled"}
                 PROVE  Edit(r, x, status'[x], L, p)
        BY DEF Lifting
    <2>1. x = s /\ status'[x] = st
        BY <1>4
    <2> QED
        BY <2>1
<1>6. Unconfirming
    BY <1>4 DEF Confirming, Unconfirming, Pairs, Row
<1> QED
    BY <1>4, <1>5, <1>6 DEF Proper

\* So does a patch, which writes what it read before: it lifts a blocklisting only if that
\* reading was stale.
LEMMA PatchProper ==
    ASSUME Inv, Footing, NEW r \in Requests, NEW st \in SubscriberStatuses \cup {"", request[r].read},
           NEW L \in SUBSET Lists, NEW replace \in BOOLEAN, NEW p \in BOOLEAN, PatchWrite(r, st, L, replace, p)
    PROVE  Proper
<1>0. TableInv /\ request \in [Requests -> RequestType]
    BY DEF Inv, RequestInv
<1>1. PICK q \in RequestType : q = request[r]
    BY <1>0
<1>2. q.sub \in Subscribers /\ q.read \in SubscriberStatuses /\ q.at = "patch"
    BY <1>1, RequestFacts DEF Inv, RequestInv, PatchWrite, At
<1>3. CASE ~SameRow(r)
    BY <1>0, <1>3, SameSteady, SteadyIsProper DEF PatchWrite
<1>4. CASE SameRow(r)
    <2>1. PICK sub \in {"unconfirmed", "confirmed"} : sub = IF p THEN "confirmed" ELSE "unconfirmed"
        OBVIOUS
    <2>2. /\ UpdateRow(q.sub, st, L, sub, replace, FALSE)
          /\ consent' = (IF replace THEN consent \ ({q.sub} \X (Lists \ L)) ELSE consent)
                            \cup (IF p THEN {q.sub} \X Known(L) ELSE {})
        BY <1>1, <1>4, <2>1 DEF PatchWrite
    <2>3. HasRow(q.sub) /\ consent' \subseteq Pairs /\ st \in SubscriberStatuses \cup {""}
        BY <1>1, <1>2, <1>4, <2>2 DEF SameRow, Footing, Known, Pairs
    <2>4. /\ Footing' /\ Falling /\ Confirming
          /\ \A x \in Subscribers : status'[x] = IF x = q.sub /\ st # "" THEN st ELSE status[x]
        <3>1. PICK s \in Subscribers : s = q.sub
            BY <1>2
        <3>2. UpdateRow(s, st, L, sub, replace, FALSE) /\ HasRow(s) /\ FALSE \in BOOLEAN
            BY <2>2, <2>3, <3>1
        <3>3. /\ Footing' /\ Falling /\ Confirming
              /\ \A x \in Subscribers : status'[x] = IF x = s /\ st # "" THEN st ELSE status[x]
            BY <1>0, <2>3, <3>2, UpdateRowSteady, ZenonT(60)
        <3> QED
            BY <3>1, <3>3, Zenon
    <2>0. Done(r) \/ request' = [request EXCEPT ![r].at = "mail", ![r].lists = L]
        BY <1>1, <1>4 DEF PatchWrite
    <2>5. request'[r] # request[r]
        <3>1. CASE Done(r)
            BY <1>0, <1>1, <1>2, <3>1, IdleType DEF Done
        <3>2. CASE request' = [request EXCEPT ![r].at = "mail", ![r].lists = L]
            <4>1. request'[r].at = "mail"
                BY <1>0, <3>2 DEF RequestType
            <4> QED
                BY <1>1, <1>2, <4>1
        <3> QED
            BY <2>0, <3>1, <3>2
    <2>6. Lifting
        BY <1>1, <1>2, <2>4, <2>5 DEF Lifting
    <2>7. Unconfirming
        BY <2>4 DEF Confirming, Unconfirming, Pairs, Row
    <2> QED
        BY <2>4, <2>6, <2>7 DEF Proper
<1> QED
    BY <1>3, <1>4

\* Every request that deletes rows or subscriptions, blocklists or unsubscribes.
LEMMA RemovalsSteady ==
    ASSUME TableInv, Footing,
           \/ \E s \in Subscribers, L \in SUBSET Lists, b \in BOOLEAN : Unsubscribe(s, L, b)
           \/ \E s \in Subscribers : Wipe(s)
           \/ \E S \in SUBSET Subscribers : Delete(S) \/ Blocklist(S)
           \/ \E L \in SUBSET Lists, st \in SubscriptionStatuses \cup {""} : Delete(Selected(L, st)) \/ Blocklist(Selected(L, st))
           \/ \E S \in SUBSET Subscribers, L \in SUBSET Lists : Remove(S, L) \/ UnsubscribeLists(S, L)
           \/ DeleteOrphans \/ DeleteBlocklisted \/ BlocklistBounced
           \/ \E cells \in SUBSET Stale : DeleteUnconfirmed(cells)
    PROVE  Steady
<1>1. ASSUME NEW s \in Subscribers, NEW L \in SUBSET Lists, NEW b \in BOOLEAN, Unsubscribe(s, L, b)
      PROVE  Steady
    <2>1. BlocklistRows({s}) \/ UnsubscribeRows(Subscriptions({s}, L))
        BY <1>1 DEF Unsubscribe
    <2>2. {s} \in SUBSET Subscribers
        OBVIOUS
    <2> QED
        BY <2>1, <2>2, RowsSteady
<1>2. ASSUME NEW S \in SUBSET Subscribers, Delete(S)
      PROVE  Steady
    BY <1>2, DeleteRowsSteady DEF Delete
<1>3. ASSUME NEW S, Blocklist(S)
      PROVE  Steady
    BY <1>3, RowsSteady DEF Blocklist
<1>4. ASSUME NEW s \in Subscribers, Wipe(s)
      PROVE  Steady
    BY <1>4, DeleteRowsSteady DEF Wipe
<1>5. \A L, st : Selected(L, st) \in SUBSET Subscribers
    BY DEF Selected
<1>6. ASSUME NEW S \in SUBSET Subscribers, NEW L \in SUBSET Lists, Remove(S, L) \/ UnsubscribeLists(S, L)
      PROVE  Steady
    BY <1>6, RowsSteady DEF Remove, UnsubscribeLists
<1>7. CASE DeleteOrphans
    <2>1. DeleteRows(Orphans) /\ Orphans \in SUBSET Subscribers
        BY <1>7 DEF DeleteOrphans, Orphans
    <2> QED
        BY <2>1, DeleteRowsSteady
<1>8. CASE DeleteBlocklisted
    BY <1>8, DeleteRowsSteady DEF DeleteBlocklisted
<1>9. CASE BlocklistBounced
    BY <1>9, RowsSteady DEF BlocklistBounced
<1>10. ASSUME NEW cells, DeleteUnconfirmed(cells)
       PROVE  Steady
    BY <1>10, RowsSteady DEF DeleteUnconfirmed
<1> QED
    BY <1>1, <1>2, <1>3, <1>4, <1>5, <1>6, <1>7, <1>8, <1>9, <1>10

\* A pair is one of a subscriber and a list.
LEMMA PairParts == \A c \in Pairs : \E s \in Subscribers, l \in Lists : c = <<s, l>>
BY DEF Pairs

\* Adding to lists that are there; by id, the only request that takes a confirmation back.
LEMMA AddProper ==
    ASSUME Inv, Footing, NEW S \in SUBSET Subscribers, NEW L \in SUBSET Lists,
           NEW st \in SubscriptionStatuses \cup {""}, Add(S, L, st)
    PROVE  Proper
<1>1. PICK cells : cells = S \X L
    OBVIOUS
<1>2. PICK fresh : fresh = cells \ Subscriptions(S, L)
    OBVIOUS
<1>3. /\ UNCHANGED <<status, list, bounces>> /\ L = Known(L)
      /\ subscription' = (IF st # "" THEN Mark(cells, st) ELSE Mark(fresh, "unconfirmed"))
      /\ consent' = (IF st = "confirmed" THEN consent \cup cells ELSE consent)
    BY <1>1, <1>2 DEF Add
<1>4. /\ \A s \in Subscribers, l \in Lists : <<s, l>> \in cells => list[l] # NoList
      /\ \A s \in Subscribers, l \in Lists : <<s, l>> \in fresh => list[l] # NoList /\ subscription[s][l] = NoRow
      /\ consent' \subseteq Pairs
    BY <1>1, <1>2, <1>3 DEF Known, Subscriptions, Row, Pairs, Footing
<1>5. \A s \in Subscribers : HasRow(s) => HasRow(s)'
    BY <1>3 DEF HasRow
<1>6. \A s \in Subscribers, l \in Lists : subscription'[s][l] =
        IF st # "" THEN (IF <<s, l>> \in cells THEN st ELSE subscription[s][l])
        ELSE IF <<s, l>> \in fresh THEN "unconfirmed" ELSE subscription[s][l]
    BY <1>3 DEF Mark
<1>7. Footing' /\ Falling
    BY <1>3, <1>4, <1>5, <1>6, SameFooting
<1>8. Unconfirming
    <2> SUFFICES ASSUME NEW c \in Pairs, Row(c) = "confirmed", Row(c)' = "unconfirmed"
                 PROVE  c \in S \X L /\ Add(S, L, "unconfirmed")
        BY DEF Unconfirming
    <2>1. PICK s \in Subscribers, l \in Lists : c = <<s, l>>
        BY PairParts, Zenon
    <2>2. subscription[s][l] = "confirmed" /\ subscription'[s][l] = "unconfirmed"
        BY <2>1 DEF Row
    <2>3. <<s, l>> \in cells /\ st = "unconfirmed"
        BY <1>4, <1>6, <2>2 DEF NoRow
    <2> QED
        BY <1>1, <2>1, <2>3
<1>9. Lifting
    BY <1>3 DEF Lifting
<1> QED
    BY <1>7, <1>8, <1>9 DEF Proper

\* Adding subscriptions in bulk is steady: it touches rows that were not there.
LEMMA AddByQuerySteady ==
    ASSUME TableInv, Footing, NEW S \in SUBSET Subscribers, NEW L \in SUBSET Lists,
           NEW st \in SubscriptionStatuses \cup {""}, AddByQuery(S, L, st)
    PROVE  Steady
<1>1. PICK fresh : fresh = (S \X L) \ Subscriptions(S, L)
    OBVIOUS
<1>2. PICK value : value = IF st = "" THEN "unconfirmed" ELSE st
    OBVIOUS
<1>3. /\ UNCHANGED <<status, list, bounces>> /\ L = Known(L) /\ subscription' = Mark(fresh, value)
      /\ consent' = (IF st = "confirmed" THEN consent \cup fresh ELSE consent)
    BY <1>1, <1>2 DEF AddByQuery
<1>4. /\ \A s \in Subscribers, l \in Lists : <<s, l>> \in fresh => list[l] # NoList /\ subscription[s][l] = NoRow
      /\ consent' \subseteq Pairs
    BY <1>1, <1>3 DEF Known, Subscriptions, Row, Pairs, Footing
<1>5. value \in Values
    BY <1>2 DEF Values, SubscriptionStatuses
<1>6. (\A s \in Subscribers : HasRow(s) => HasRow(s)') /\ Blocklisting
    BY <1>3 DEF HasRow, Blocklisting
<1> QED
    BY <1>3, <1>4, <1>5, <1>6, MarkSteady DEF Steady

\* Deleting and editing lists, and forgetting bounces.
LEMMA ListsSteady ==
    ASSUME TableInv, Footing,
           \/ \E L \in SUBSET Lists : DeleteLists(L)
           \/ \E l \in Lists, a \in Attributes : EditList(l, a)
           \/ \E S \in SUBSET Subscribers : DeleteBounces(S)
    PROVE  Steady
<1>1. ASSUME NEW L \in SUBSET Lists, DeleteLists(L)
      PROVE  Steady
    <2>1. /\ list' = [l \in Lists |-> IF l \in L THEN NoList ELSE list[l]]
          /\ UNCHANGED <<status, bounces>> /\ consent' \subseteq consent
          /\ \A s \in Subscribers, l \in Lists : subscription'[s][l] = IF l \in L THEN NoRow ELSE subscription[s][l]
        BY <1>1 DEF DeleteLists, Mark
    <2>2. \A s \in Subscribers, l \in Lists : subscription'[s][l] # NoRow => list'[l] # NoList
        BY <2>1 DEF Footing
    <2>3. list' \in [Lists -> Attributes \cup {NoList}]
        BY <2>1 DEF Footing
    <2>4. Footing'
        BY <2>1, <2>2, <2>3 DEF Footing, HasRow, Pairs
    <2>5. Falling /\ Confirming /\ Blocklisting
        BY <2>1 DEF Falling, Confirming, Blocklisting, NoRow
    <2> QED
        BY <2>4, <2>5 DEF Steady
<1>2. ASSUME NEW l \in Lists, NEW a \in Attributes, EditList(l, a)
      PROVE  Steady
    <2>1. a # NoList
        BY DEF Attributes, NoList, ListTypes, NoRow
    <2>2. list' = [list EXCEPT ![l] = a] /\ UNCHANGED <<status, subscription, bounces, consent>>
        BY <1>2 DEF EditList, history
    <2>3. list' \in [Lists -> Attributes \cup {NoList}] /\ \A k \in Lists : list[k] # NoList => list'[k] # NoList
        BY <2>1, <2>2 DEF Footing
    <2>4. Footing'
        BY <2>2, <2>3 DEF Footing, HasRow, Pairs
    <2>5. Falling /\ Confirming /\ Blocklisting
        BY <2>2 DEF Falling, Confirming, Blocklisting
    <2> QED
        BY <2>4, <2>5 DEF Steady
<1>3. ASSUME NEW S \in SUBSET Subscribers, DeleteBounces(S)
      PROVE  Steady
    <2>1. /\ bounces' = [s \in Subscribers |-> IF s \in S THEN [t \in BounceTypes |-> 0] ELSE bounces[s]]
          /\ UNCHANGED <<status, subscription, list, consent>>
        BY <1>3 DEF DeleteBounces, history
    <2>2. bounces' \in [Subscribers -> [BounceTypes -> Nat]]
        BY <2>1 DEF Footing
    <2>3. Footing'
        BY <2>1, <2>2 DEF Footing, HasRow, Pairs
    <2>4. Falling /\ Confirming /\ Blocklisting
        BY <2>1 DEF Falling, Confirming, Blocklisting
    <2> QED
        BY <2>3, <2>4 DEF Steady
<1> QED
    BY <1>1, <1>2, <1>3

\* Every step of the audience keeps bounces to rows and subscriptions to lists, adds no bounce,
\* and makes an exception only as ConfirmationKept and BlocklistingLiftedByStaleOnly have it.
LEMMA AudienceProper == ASSUME Inv, Footing, AudienceNext PROVE Proper
<1>0. EditStatuses \subseteq SubscriberStatuses /\ TableInv
    BY AudienceAssumption DEF Inv
<1>1. CASE Public
    <2>1. Steady
        <3>1. CASE \E r \in Requests, s \in Subscribers, L \in SUBSET Lists : FormPost(r, s, L) \/ PrefsRead(r, s, L)
            BY <1>0, <3>1, ReadsSteady
        <3>2. CASE \E r \in Requests, k \in links : OptinOpen(r, k)
            BY <1>0, <3>2, ReadsSteady
        <3>3. CASE \E s \in Subscribers, L \in SUBSET Lists, b \in BOOLEAN : Unsubscribe(s, L, b)
            BY <1>0, <3>3, RemovalsSteady
        <3>4. CASE \E s \in Subscribers : Wipe(s)
            BY <1>0, <3>4, RemovalsSteady
        <3> QED
            BY <1>1, <3>1, <3>2, <3>3, <3>4 DEF Public
    <2> QED
        BY <2>1, SteadyIsProper
<1>2. ASSUME NEW r \in Requests, Statement(r)
      PROVE  Proper
    <2>1. CASE FormInsert(r) \/ FormMerge(r)
        BY <2>1, FormProper
    <2>2. CASE PrefsWrite(r) \/ PrefsUnsubscribe(r)
        BY <2>2, PrefsProper
    <2>3. CASE OptinConfirm(r)
        BY <2>3, OptinProper
    <2>4. CASE Lookup(r) \/ PrefsSubscriptions(r) \/ SendMail(r)
        BY <1>0, <2>4, ReadsSteady, SteadyIsProper
    <2>5. CASE \E st \in EditStatuses \cup {"", request[r].read}, L \in SUBSET Lists, replace, p \in BOOLEAN :
                 PatchWrite(r, st, L, replace, p)
        BY <1>0, <2>5, PatchProper
    <2> QED
        BY <1>2, <2>1, <2>2, <2>3, <2>4, <2>5 DEF Statement
<1>3. CASE Administrator
    <2> DEFINE Bulk(S) == Delete(S) \/ Blocklist(S) \/ DeleteBounces(S)
               Chosen(L, st) == Delete(Selected(L, st)) \/ Blocklist(Selected(L, st))
               Taken(S, L) == Remove(S, L) \/ UnsubscribeLists(S, L)
               Any == SubscriptionStatuses \cup {""}
    <2>1. CASE \E r \in Requests, s \in Subscribers, st \in EditStatuses, L \in SUBSET Lists, p \in BOOLEAN :
                 Create(r, s, st, L, p)
        BY <1>0, <2>1, CreateProper
    <2>2. CASE \E r \in Requests, s \in Subscribers, st \in EditStatuses \cup {""}, L \in SUBSET Lists, p \in BOOLEAN :
                 Edit(r, s, st, L, p)
        BY <1>0, <2>2, EditProper
    <2>3. CASE \E r \in Requests, s \in Subscribers : PatchRead(r, s)
        BY <1>0, <2>3, ReadsSteady, SteadyIsProper
    <2>4. CASE \E S \in SUBSET Subscribers : Bulk(S)
        BY <1>0, <2>4, RemovalsSteady, ListsSteady, SteadyIsProper
    <2>5. CASE \E S \in SUBSET Subscribers, L \in SUBSET Lists : Taken(S, L)
        BY <1>0, <2>5, RemovalsSteady, SteadyIsProper
    <2>6. CASE \E S \in SUBSET Subscribers, L \in SUBSET Lists, st \in Any : Add(S, L, st)
        BY <2>6, AddProper
    <2>7. CASE \E from, to \in SUBSET Lists, st \in Any : AddByQuery(Selected(from, ""), to, st)
        <3>1. \A from : Selected(from, "") \in SUBSET Subscribers
            BY DEF Selected
        <3>2. Steady
            BY <1>0, <2>7, <3>1, AddByQuerySteady
        <3> QED
            BY <3>2, SteadyIsProper
    <2>8. CASE \E L \in SUBSET Lists, st \in Any : Chosen(L, st)
        BY <1>0, <2>8, RemovalsSteady, SteadyIsProper
    <2>9. CASE \E s \in Subscribers : SendOptinAgain(s)
        BY <1>0, <2>9, ReadsSteady, SteadyIsProper
    <2>10. CASE (\E l \in Lists, a \in Attributes : EditList(l, a)) \/ (\E L \in SUBSET Lists : DeleteLists(L))
        BY <1>0, <2>10, ListsSteady, SteadyIsProper
    <2>11. CASE DeleteOrphans \/ DeleteBlocklisted \/ BlocklistBounced \/ \E cells \in SUBSET Stale : DeleteUnconfirmed(cells)
        BY <1>0, <2>11, RemovalsSteady, SteadyIsProper
    <2> QED
        BY <1>3, <2>1, <2>2, <2>3, <2>4, <2>5, <2>6, <2>7, <2>8, <2>9, <2>10, <2>11, Zenon DEF Administrator
<1> QED
    BY <1>1, <1>2, <1>3 DEF AudienceNext

-----------------------------------------------------------------------------
(* Bounces act at their count.                                             *)

\* Bounces of type t do not pass the count, and have acted when they are at it.
Acted(s, t) ==
    /\ bounces[s][t] <= BounceAction[t].count
    /\ bounces[s][t] = BounceAction[t].count =>
         /\ BounceAction[t].action = "blocklist" => status[s] = "blocklisted" \/ s \in lifted
         /\ BounceAction[t].action # "delete"

\* Bounces that stay as many, or are forgotten, have acted as before.
LEMMA StillActed ==
    ASSUME Footing, Footing', NEW s \in Subscribers, NEW t \in BounceTypes, Acted(s, t),
           bounces'[s][t] \in {0, bounces[s][t]},
           lifted' = (lifted \cup (Blocklisted \ Blocklisted')) \ {x \in Subscribers : ~HasRow(x)'}
    PROVE  Acted(s, t)'
<1>1. BounceAction[t].count \in Nat \ {0}
    BY BouncesAssumption
<1>2. CASE bounces'[s][t] = 0
    BY <1>1, <1>2 DEF Acted
<1>3. CASE bounces'[s][t] # 0 /\ bounces'[s][t] = bounces[s][t]
    <2>1. HasRow(s)'
        BY <1>3 DEF Footing
    <2>2. status[s] = "blocklisted" \/ s \in lifted => status'[s] = "blocklisted" \/ s \in lifted'
        BY <2>1 DEF Blocklisted
    <2> QED
        BY <1>3, <2>2 DEF Acted
<1> QED
    BY <1>2, <1>3

\* Recording a bounce: at the count the action is taken with it.
LEMMA RecordProper ==
    ASSUME TableInv, Footing, NEW b, b.sub \in Subscribers, b.type \in BounceTypes, Found(b), RecordBounce(b),
           Acted(b.sub, b.type)
    PROVE  /\ Footing' /\ Confirming /\ Blocklisting
           /\ \A s \in Subscribers, t \in BounceTypes :
                bounces'[s][t] \in {0, bounces[s][t]} \/ (s = b.sub /\ t = b.type /\ Acted(s, t)')
<1>1. PICK s \in Subscribers : s = b.sub /\ HasRow(s)
    BY DEF Found
<1>2. PICK t \in BounceTypes : t = b.type
    OBVIOUS
<1>3. PICK num \in Nat : num = bounces[s][t] + 1
    BY DEF Footing
<1>4. PICK rule : rule = BounceAction[t] /\ rule.count \in Nat
    BY BouncesAssumption
<1>5. CASE rule.action = "delete" /\ num >= rule.count
    <2>1. DeleteRows({s}) /\ {s} \in SUBSET Subscribers
        BY <1>1, <1>2, <1>3, <1>4, <1>5 DEF RecordBounce
    <2>2. Steady
        BY <2>1, DeleteRowsSteady
    <2> QED
        BY <2>2 DEF Steady, Falling
<1>6. CASE ~(rule.action = "delete" /\ num >= rule.count)
    <2>1. PICK cells : cells = IF rule.action = "unsubscribe" /\ num >= rule.count /\ status[s] # "blocklisted"
                               THEN Subscriptions({s}, Lists) ELSE {}
        OBVIOUS
    <2>2. /\ bounces' = IF status[s] # "blocklisted" /\ num <= rule.count
                        THEN [bounces EXCEPT ![s][t] = num] ELSE bounces
          /\ status' = IF rule.action = "blocklist" /\ num >= rule.count
                       THEN [status EXCEPT ![s] = "blocklisted"] ELSE status
          /\ subscription' = Mark(cells, "unsubscribed")
          /\ UNCHANGED <<list, consent>>
        BY <1>1, <1>2, <1>3, <1>4, <1>6, <2>1 DEF RecordBounce
    <2>3. \A x \in Subscribers, l \in Lists : <<x, l>> \in cells => subscription[x][l] # NoRow
        BY <2>1 DEF Subscriptions, Row
    <2>4. \A x \in Subscribers, l \in Lists :
            subscription'[x][l] = IF <<x, l>> \in cells THEN "unsubscribed" ELSE subscription[x][l]
        BY <2>2 DEF Mark
    <2>5. \A x \in Subscribers : status'[x] = status[x] \/ (x = s /\ status'[x] = "blocklisted")
        BY <2>2 DEF TableInv, RowsTyped
    <2>6. \A x \in Subscribers : HasRow(x)' <=> HasRow(x)
        BY <1>1, <2>5 DEF HasRow, NoRow
    <2>7. \A x \in Subscribers, u \in BounceTypes :
            bounces'[x][u] = bounces[x][u] \/ (x = s /\ u = t /\ bounces'[x][u] = num /\ num <= rule.count)
        BY <2>2 DEF Footing
    <2>8. Footing'
        <3>0. \A x \in Subscribers, l \in Lists : subscription'[x][l] # NoRow => subscription[x][l] # NoRow
            BY <2>3, <2>4
        <3>1. \A x \in Subscribers, l \in Lists : subscription'[x][l] # NoRow => list'[l] # NoList
            BY <2>2, <3>0 DEF Footing
        <3>2. bounces' \in [Subscribers -> [BounceTypes -> Nat]]
            BY <2>2 DEF Footing
        <3>3. \A x \in Subscribers, u \in BounceTypes : ~HasRow(x)' => bounces'[x][u] = 0
            BY <1>1, <2>6, <2>7 DEF Footing
        <3> QED
            BY <2>2, <3>1, <3>2, <3>3 DEF Footing, Pairs
    <2>9. Confirming /\ Blocklisting
        BY <2>4, <2>5 DEF Confirming, Blocklisting
    <2>10. ASSUME bounces'[s][t] # bounces[s][t]
           PROVE  Acted(s, t)'
        <3>1. bounces'[s][t] = num /\ num <= rule.count
            BY <2>7, <2>10
        <3>2. ASSUME num = rule.count
              PROVE  rule.action # "delete" /\ (rule.action = "blocklist" => status'[s] = "blocklisted")
            BY <1>6, <2>2, <3>2 DEF TableInv, RowsTyped
        <3> QED
            BY <1>4, <3>1, <3>2 DEF Acted
    <2> QED
        BY <1>1, <1>2, <2>7, <2>8, <2>9, <2>10
<1> QED
    BY <1>5, <1>6

\* Steps of the bounce manager other than Take leave the tables alone.
LEMMA ManagerSteady ==
    ASSUME TableInv, Footing,
           \/ \E s \in Subscribers, t \in BounceTypes :
                \/ Record(Bounce(s, 0, t)) \/ Record(Bounce(s, rowId[s], t))
                \/ \E ok \in BOOLEAN : MailArrives(s, t, ok)
           \/ ScanStart \/ Download \/ DeleteMails \/ Restart
    PROVE  Steady
<1>1. UNCHANGED tables /\ UNCHANGED history
    BY DEF Record, MailArrives, ScanStart, Download, DeleteMails, Restart, audienceVars
<1> QED
    BY <1>1, SameSteady

\* Taking a bounce: it may add one, which acts if it is at the count.
LEMMA TakeProper ==
    ASSUME TableInv, BounceInv, Footing, Take, \A s \in Subscribers, t \in BounceTypes : Acted(s, t)
    PROVE  /\ Footing' /\ Confirming /\ Blocklisting
           /\ \A s \in Subscribers, t \in BounceTypes : bounces'[s][t] \in {0, bounces[s][t]} \/ Acted(s, t)'
<1>1. PICK b : b = Head(queue).bounce
    OBVIOUS
<1>2. b.sub \in Subscribers /\ b.type \in BounceTypes
    <2>1. Head(queue) \in MailType
        BY DEF Take, BounceInv
    <2> QED
        BY <1>1, <2>1 DEF MailType
<1>3. IF Found(b) THEN RecordBounce(b) ELSE UNCHANGED <<tables, history>>
    BY <1>1 DEF Take
<1>4. CASE Found(b)
    BY <1>2, <1>3, <1>4, RecordProper
<1>5. CASE ~Found(b)
    BY <1>3, <1>5, SameSteady DEF Steady, Falling
<1> QED
    BY <1>4, <1>5

\* The invariant CountActs takes, and the exceptions every step makes.
ActsInv == Footing /\ \A s \in Subscribers, t \in BounceTypes : Acted(s, t)

\* Every step keeps that bounces have acted, and makes the exceptions that are named only.
LEMMA ActsNext ==
    ASSUME Inv, BounceInv, ActsInv, [Next]_vars
    PROVE  ActsInv' /\ Unconfirming /\ Lifting
<1>0. TableInv /\ Footing
    BY DEF Inv, ActsInv
<1>1. CASE Next
    <2>1. lifted' = (lifted \cup (Blocklisted \ Blocklisted')) \ {x \in Subscribers : ~HasRow(x)'}
        BY <1>1 DEF Next
    <2>2. ASSUME Proper
          PROVE  ActsInv' /\ Unconfirming /\ Lifting
        <3>1. \A s \in Subscribers, t \in BounceTypes : Acted(s, t)'
            BY <2>1, <2>2, StillActed DEF ActsInv, Proper, Falling
        <3> QED
            BY <2>2, <3>1 DEF ActsInv, Proper
    <2>3. CASE AudienceNext
        BY <1>0, <2>2, <2>3, AudienceProper
    <2>4. CASE Take
        <3>1. /\ Footing' /\ Confirming /\ Blocklisting
              /\ \A s \in Subscribers, t \in BounceTypes : bounces'[s][t] \in {0, bounces[s][t]} \/ Acted(s, t)'
            BY <1>0, <2>4, TakeProper DEF ActsInv
        <3>2. \A s \in Subscribers, t \in BounceTypes : Acted(s, t)'
            BY <2>1, <3>1, StillActed DEF ActsInv
        <3>3. Unconfirming /\ Lifting
            BY <3>1 DEF Confirming, Unconfirming, Blocklisting, Lifting, Pairs, Row
        <3> QED
            BY <3>1, <3>2, <3>3 DEF ActsInv
    <2>5. CASE \/ \E s \in Subscribers, t \in BounceTypes :
                    \/ Record(Bounce(s, 0, t)) \/ Record(Bounce(s, rowId[s], t))
                    \/ \E ok \in BOOLEAN : MailArrives(s, t, ok)
               \/ ScanStart \/ Download \/ DeleteMails \/ Restart
        BY <1>0, <2>2, <2>5, ManagerSteady, SteadyIsProper
    <2> QED
        BY <1>1, <2>3, <2>4, <2>5 DEF Next, Manager
<1>2. CASE UNCHANGED vars
    <2>1. UNCHANGED tables /\ UNCHANGED history /\ UNCHANGED lifted
        BY <1>2 DEF vars, audienceVars
    <2>2. Proper /\ UNCHANGED <<bounces, status>>
        BY <1>0, <2>1, SameSteady, SteadyIsProper DEF tables
    <2> QED
        BY <2>1, <2>2 DEF ActsInv, Acted, Proper
<1> QED
    BY <1>1, <1>2

\* At the start there are no bounces.
LEMMA ActsInit == Init => ActsInv
<1> SUFFICES ASSUME Init PROVE ActsInv
    OBVIOUS
<1>1. /\ list \in [Lists -> Attributes] /\ bounces = [s \in Subscribers |-> [t \in BounceTypes |-> 0]]
      /\ consent = {} /\ subscription = [s \in Subscribers |-> [l \in Lists |-> NoRow]]
    BY AudienceAssumption DEF Init, AudienceInit
<1>2. Footing
    BY <1>1 DEF Footing
<1>3. \A s \in Subscribers, t \in BounceTypes : Acted(s, t)
    BY <1>1, BouncesAssumption DEF Acted
<1> QED
    BY <1>2, <1>3 DEF ActsInv

\* The invariants of subscriptions, bounces and counts hold in every reachable state.
THEOREM ActsInvCorrect == Spec => [](Inv /\ BounceInv /\ ActsInv)
<1>1. Init => Inv /\ BounceInv /\ ActsInv
    BY InvInit, ActsInit
<1>2. Inv /\ BounceInv /\ ActsInv /\ [Next]_vars => (Inv /\ BounceInv /\ ActsInv)'
    BY InvNext, ActsNext
<1> QED
    BY <1>1, <1>2, PTL DEF Spec

\* Bounces are recorded up to the count of their action and have acted at it: CountActs, for
\* any subscribers, types, counts and actions, whatever deletes, blocklists, edits or lifts in
\* between (queries/bounces.sql:17-35).
THEOREM CountActsCorrect == Spec => []CountActs
<1>1. ActsInv => CountActs
    BY DEF ActsInv, Acted, CountActs
<1> QED
    BY <1>1, ActsInvCorrect, PTL

\* Only an administrator's request that says so makes an unconfirmed subscription of a
\* confirmed one: ConfirmationKept (queries/subscribers.sql:196).
THEOREM ConfirmationCorrect == Spec => ConfirmationKept
<1>1. Inv /\ BounceInv /\ ActsInv /\ [Next]_vars => [Unconfirming]_audienceVars
    BY ActsNext
<1> QED
    BY <1>1, ActsInvCorrect, PTL DEF Spec, ConfirmationKept, Unconfirming

\* A blocklisting is lifted by an administrator's edit or by a request that read the row before
\* it: BlocklistingLiftedByStaleOnly (cmd/public.go:309-318, 816-822).
THEOREM LiftingCorrect == Spec => BlocklistingLiftedByStaleOnly
<1>1. Inv /\ BounceInv /\ ActsInv /\ [Next]_vars => [Lifting]_audienceVars
    BY ActsNext
<1> QED
    BY <1>1, ActsInvCorrect, PTL DEF Spec, BlocklistingLiftedByStaleOnly, Lifting

\* The types of the audience's and the bounce manager's state, and that a subscription belongs
\* to a row and to a list (schema.sql:77-78): TypeOK.
THEOREM BouncesTypeCorrect == Spec => []TypeOK
<1>1. ASSUME Inv, BounceInv, ActsInv, MailInv
      PROVE  TypeOK
    <2>1. /\ status \in [Subscribers -> SubscriberStatuses \cup {NoRow}]
          /\ rowId \in [Subscribers -> Nat]
          /\ subscription \in [Subscribers -> [Lists -> SubscriptionStatuses \cup {NoRow}]]
        BY <1>1 DEF Inv, TableInv, RowsTyped, Values
    <2>2. /\ list \in [Lists -> Attributes \cup {NoList}]
          /\ bounces \in [Subscribers -> [BounceTypes -> Nat]]
          /\ optedOut \cup consent \subseteq Pairs
        BY <1>1 DEF ActsInv, Footing, Inv, TableInv, RowsTyped
    <2>3. \A c \in Pairs : Row(c) # NoRow => HasRow(c[1]) /\ list[c[2]] # NoList
        BY <1>1 DEF ActsInv, Footing, Inv, TableInv, RowsOwned, Row, Pairs
    <2>4. AudienceTypeOK
        BY <1>1, <2>1, <2>2, <2>3 DEF AudienceTypeOK, MailInv, Bounded
    <2>5. readable \cup skipped \cup lost \subseteq 1..MaxInputs
        BY <1>1, AudienceAssumption DEF MailInv, Bounded, BounceInv
    <2> QED
        BY <1>1, <2>4, <2>5 DEF TypeOK, MailInv, Bounded, BounceInv
<1> QED
    BY <1>1, ActsInvCorrect, MailInvCorrect, PTL
===============================================================================
