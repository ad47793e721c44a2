------------------------------- MODULE Audience -------------------------------
(***************************************************************************)
(* Subscribers, their subscriptions and bounces: the tables, and every     *)
(* request that changes them, from the public pages (cmd/public.go), from  *)
(* administrators (cmd/subscribers.go, cmd/lists.go, cmd/bounce.go,        *)
(* cmd/maintenance.go) and the SQL they end in (internal/core,             *)
(* queries/subscribers.sql, lists.sql, bounces.sql).                       *)
(*                                                                         *)
(* A statement is atomic, a request is not: the form, the preferences      *)
(* page, the opt-in page and the partial update read a row and write it    *)
(* later, with everything else in between. Such a request occupies a slot  *)
(* of Requests from its first statement to its last; the others are one    *)
(* step. Administrators are taken to have permission for every list. A     *)
(* person is its email address; a row deleted and inserted again is        *)
(* another row, with another id and UUID, and rowId counts them.           *)
(***************************************************************************)
EXTENDS Integers, FiniteSets

CONSTANTS
    Subscribers,      \* email addresses
    Lists,
    Requests,         \* requests of several statements that can be under way at once
    BounceTypes,
    AllowBlocklist, AllowPreferences, AllowWipe,    \* settings privacy.*
    SendOptin,        \* setting app.send_optin_confirmation
    EditStatuses,     \* the subscriber statuses administrators choose from
    InitialLists,     \* the lists there are at first, a set of [Lists -> Attributes]
    MaxInputs         \* bound on the number of requests (and, in Bounces, of bounces)

NoRow == "none"
SubscriberStatuses == {"enabled", "disabled", "blocklisted"}
SubscriptionStatuses == {"unconfirmed", "confirmed", "unsubscribed"}
ListTypes == {"public", "private"}
Optins == {"single", "double"}
Attributes == [type : ListTypes, optin : Optins]
NoList == [type |-> NoRow, optin |-> NoRow]

ASSUME AudienceAssumption ==
    /\ IsFiniteSet(Subscribers) /\ IsFiniteSet(Lists)
    /\ NoRow \notin Lists
    /\ {AllowBlocklist, AllowPreferences, AllowWipe, SendOptin} \subseteq BOOLEAN
    /\ EditStatuses \subseteq SubscriberStatuses
    /\ InitialLists \subseteq [Lists -> Attributes]
    /\ MaxInputs \in Nat

VARIABLES
    status,         \* subscribers.status
    rowId,          \* the number of rows this address has had; the last is its row
    subscription,   \* subscriber_lists.status
    list,           \* lists: Attributes, or NoList once deleted
    bounces,        \* the number of rows in bounces, by subscriber and type
    request,        \* requests under way
    links,          \* opt-in links mailed so far: [sub, id, lists]
    \* --- history, read by properties and by the bound only ---
    optedOut,       \* unsubscribed, and not subscribed again on purpose since
    consent,        \* confirmed by a click or by an administrator
    spent           \* inputs so far

tables == <<status, rowId, subscription, list, bounces>>
history == <<optedOut, consent>>
audienceVars == <<tables, request, links, history, spent>>

Pairs == Subscribers \X Lists
HasRow(s) == status[s] # NoRow
Known(L) == {l \in L : list[l] # NoList}
Row(c) == subscription[c[1]][c[2]]
Subscriptions(S, L) == {c \in S \X L : Row(c) # NoRow}

Idle == [at |-> "idle", sub |-> NoRow, id |-> 0, lists |-> {}, read |-> NoRow, saw |-> {}]

AudienceInit ==
    /\ status \in [Subscribers -> {NoRow, "enabled"}]
    /\ rowId = [s \in Subscribers |-> IF HasRow(s) THEN 1 ELSE 0]
    /\ subscription = [s \in Subscribers |-> [l \in Lists |-> NoRow]]
    /\ list \in InitialLists
    /\ bounces = [s \in Subscribers |-> [t \in BounceTypes |-> 0]]
    /\ request = [r \in Requests |-> Idle]
    /\ links = {} /\ optedOut = {} /\ consent = {} /\ spent = 0

Spend == spent' = spent + 1

-----------------------------------------------------------------------------
(* Statements: what the SQL of queries/ does to the tables.                *)

Mark(cells, st) ==
    [s \in Subscribers |-> [l \in Lists |-> IF <<s, l>> \in cells THEN st ELSE subscription[s][l]]]

StatusSet(S, st) == [s \in Subscribers |-> IF s \in S /\ HasRow(s) THEN st ELSE status[s]]

\* delete-subscribers; subscriptions and bounces go with the row (schema.sql:77, 343).
DeleteRows(S) ==
    /\ status' = StatusSet(S, NoRow)
    /\ subscription' = Mark(S \X Lists, NoRow)
    /\ bounces' = [s \in Subscribers |-> IF s \in S THEN [t \in BounceTypes |-> 0] ELSE bounces[s]]
    /\ optedOut' = optedOut \ (S \X Lists) /\ consent' = consent \ (S \X Lists)
    /\ UNCHANGED <<rowId, list>>

\* blocklist-subscribers
BlocklistRows(S) ==
    /\ status' = StatusSet(S, "blocklisted")
    /\ subscription' = Mark(Subscriptions(S, Lists), "unsubscribed")
    /\ optedOut' = optedOut \cup Subscriptions(S, Lists)
    /\ UNCHANGED <<rowId, list, bounces, consent>>

\* unsubscribe-subscribers-from-lists
UnsubscribeRows(cells) ==
    /\ subscription' = Mark(cells, "unsubscribed")
    /\ optedOut' = optedOut \cup cells
    /\ UNCHANGED <<status, rowId, list, bounces, consent>>

\* delete-subscriptions
RemoveRows(cells) ==
    /\ subscription' = Mark(cells, NoRow)
    /\ optedOut' = optedOut \ cells /\ consent' = consent \ cells
    /\ UNCHANGED <<status, rowId, list, bounces>>

\* insert-subscriber, of an address that has no row
InsertRow(s, st, L, sub) ==
    LET value == IF st = "blocklisted" THEN "unsubscribed" ELSE sub
        cells == {s} \X Known(L)
    IN  /\ status' = [status EXCEPT ![s] = st]
        /\ rowId' = [rowId EXCEPT ![s] = @ + 1]
        /\ subscription' = Mark(cells, value)
        /\ optedOut' = IF value = "unsubscribed" THEN optedOut \cup cells ELSE optedOut
        /\ UNCHANGED <<list, bounces>>

\* Variant: an edit subscribes again those who had unsubscribed.
MergedEager(old, st, sub, resubscribe) ==
    IF st = "blocklisted" THEN "unsubscribed" ELSE IF old = "confirmed" THEN old ELSE sub

\* Variant: asking again undoes a confirmation.
MergedForgets(old, st, sub, resubscribe) ==
    IF st = "blocklisted" \/ (old = "unsubscribed" /\ ~resubscribe) THEN "unsubscribed" ELSE sub

\* The subscription status update-subscriber-with-lists writes over old: those who
\* unsubscribed stay so unless they ask again, and a confirmation is never undone.
Merged(old, st, sub, resubscribe) ==
    CASE st = "blocklisted" -> "unsubscribed"
      [] st # "blocklisted" /\ old = "confirmed" -> "confirmed"
      [] st # "blocklisted" /\ old = "unsubscribed" /\ ~resubscribe -> "unsubscribed"
      [] OTHER -> sub

\* update-subscriber-with-lists, of a row that is there; an empty status keeps the row's
UpdateRow(s, st, L, sub, delete, resubscribe) ==
    LET cells == {s} \X Known(L)
        dropped == IF delete THEN ({s} \X Lists) \ cells ELSE {}
    IN  /\ status' = IF st = "" THEN status ELSE [status EXCEPT ![s] = st]
        /\ subscription' = [subscription EXCEPT ![s] = [l \in Lists |->
                IF <<s, l>> \in cells THEN Merged(@[l], st, sub, resubscribe)
                ELSE IF delete THEN NoRow ELSE @[l]]]
        /\ optedOut' = (IF st = "blocklisted" THEN optedOut \cup cells
                        ELSE IF resubscribe THEN optedOut \ cells ELSE optedOut) \ dropped
        /\ UNCHANGED <<rowId, list, bounces>>

\* The subscribers a bulk request selects by source lists and subscription status
\* (query-subscribers-template): with a list, those subscribed to it; list_id = ALL(...)
\* holds of no row when there are two.
Selected(L, st) ==
    {s \in Subscribers : HasRow(s) /\ \A l \in L : L = {l} /\ Row(<<s, l>>) # NoRow
                                                   /\ (st # "" => Row(<<s, l>>) = st)}

-----------------------------------------------------------------------------
(* Requests of several statements.                                         *)

At(r, pc) == request[r].at = pc
Goto(r, pc) == request' = [request EXCEPT ![r].at = pc]
Done(r) == request' = [request EXCEPT ![r] = Idle]
Begin(r, rec) == At(r, "idle") /\ Spend /\ request' = [request EXCEPT ![r] = rec]
SameRow(r) == LET q == request[r] IN HasRow(q.sub) /\ rowId[q.sub] = q.id

\* The opt-in hook: one mail for the lists still to be confirmed, of those given or of all.
Pending(s, L) ==
    {l \in Lists : Row(<<s, l>>) = "unconfirmed" /\ list[l].optin = "double" /\ (L # {} => l \in L)}

Mail(s, L) ==
    LET pending == Pending(s, L) IN
    links' = IF pending = {} THEN links ELSE links \cup {[sub |-> s, id |-> rowId[s], lists |-> pending]}

\* The confirmation mail after an insert or an update; it may fail, and the rows stay.
SendMail(r) ==
    LET q == request[r] IN
    /\ At(r, "mail") /\ Done(r)
    /\ \/ SendOptin /\ SameRow(r) /\ Mail(q.sub, q.lists)
       \/ UNCHANGED links
    /\ UNCHANGED <<tables, history, spent>>

\* Variant: a form confirms its subscriptions.
FormSubscriptionConfirmed == "confirmed"

\* The subscription status a form gives.
FormSubscription == "unconfirmed"

\* SubscriptionForm, PublicSubscription: no private list, then insert the address ...
FormPost(r, s, L) ==
    /\ L # {} /\ \A l \in Known(L) : list[l].type # "private"
    /\ Begin(r, [Idle EXCEPT !.at = "insert", !.sub = s, !.saw = L])
    /\ UNCHANGED <<tables, links, history>>

FormInsert(r) ==
    LET q == request[r] IN
    /\ At(r, "insert")
    /\ IF HasRow(q.sub)
       THEN Goto(r, "lookup") /\ UNCHANGED <<tables, history>>
       ELSE /\ InsertRow(q.sub, "enabled", q.saw, FormSubscription) /\ UNCHANGED consent
            /\ request' = [request EXCEPT ![r].at = "mail", ![r].id = rowId'[q.sub]]
    /\ UNCHANGED <<links, spent>>

\* ... or, when the address is taken, read its row and write it back with the lists.
Lookup(r) ==
    LET q == request[r] IN
    /\ At(r, "lookup")
    /\ IF HasRow(q.sub)
       THEN request' = [request EXCEPT ![r] = [q EXCEPT !.at = "merge", !.read = status[q.sub], !.id = rowId[q.sub]]]
       ELSE Done(r)
    /\ UNCHANGED <<tables, links, history, spent>>

\* Variant: a form enables its subscriber.
FormStatusEnabled(q) == "enabled"

\* What the form writes to the row: what it read.
FormStatus(q) == q.read

FormMerge(r) ==
    LET q == request[r] IN
    /\ At(r, "merge")
    /\ IF SameRow(r)
       THEN UpdateRow(q.sub, FormStatus(q), q.saw, FormSubscription, FALSE, TRUE) /\ UNCHANGED consent /\ Goto(r, "mail")
       ELSE Done(r) /\ UNCHANGED <<tables, history>>
    /\ UNCHANGED <<links, spent>>

\* SubscriptionPrefs with "manage": reads the row ...
PrefsRead(r, s, L) ==
    /\ AllowPreferences /\ HasRow(s)
    /\ Begin(r, [Idle EXCEPT !.at = "write", !.sub = s, !.id = rowId[s], !.lists = L, !.read = status[s]])
    /\ UNCHANGED <<tables, links, history>>

\* ... writes it back whole with a new name ...
PrefsWrite(r) ==
    LET q == request[r] IN
    /\ At(r, "write")
    /\ IF SameRow(r)
       THEN status' = [status EXCEPT ![q.sub] = q.read] /\ Goto(r, "subscriptions")
       ELSE Done(r) /\ UNCHANGED status
    /\ UNCHANGED <<rowId, subscription, list, bounces, links, history, spent>>

\* ... reads the subscriptions to lists that are not private and not checked ...
Unchecked(q) ==
    {l \in Lists \ q.lists : Row(<<q.sub, l>>) # NoRow /\ list[l].type # "private"}

PrefsSubscriptions(r) ==
    LET q == request[r] IN
    /\ At(r, "subscriptions")
    /\ request' = [request EXCEPT ![r].at = "unsubscribe", ![r].saw = IF SameRow(r) THEN Unchecked(q) ELSE {}]
    /\ UNCHANGED <<tables, links, history, spent>>

\* ... and unsubscribes from them.
PrefsUnsubscribe(r) ==
    LET q == request[r] IN
    /\ At(r, "unsubscribe") /\ Done(r)
    /\ UnsubscribeRows(IF SameRow(r) THEN Subscriptions({q.sub}, q.saw) ELSE {})
    /\ UNCHANGED <<links, spent>>

\* OptinPage: goes on only if a list of the link is unconfirmed ...
OptinOpen(r, k) ==
    /\ HasRow(k.sub) /\ rowId[k.sub] = k.id
    /\ \E l \in k.lists : Row(<<k.sub, l>>) = "unconfirmed"
    /\ Begin(r, [Idle EXCEPT !.at = "confirm", !.sub = k.sub, !.id = k.id, !.lists = k.lists])
    /\ UNCHANGED <<tables, links, history>>

\* ... and confirms every subscription the link names.
OptinConfirm(r) ==
    LET q == request[r]
        cells == IF SameRow(r) THEN Subscriptions({q.sub}, q.lists) ELSE {}
    IN  /\ At(r, "confirm") /\ Done(r)
        /\ subscription' = Mark(cells, "confirmed")
        /\ consent' = IF rowId[q.sub] = q.id THEN consent \cup cells ELSE consent
        /\ optedOut' = optedOut \ cells
        /\ UNCHANGED <<status, rowId, list, bounces, links, spent>>

\* CreateSubscriber
Create(r, s, st, L, preconfirm) ==
    /\ ~HasRow(s)
    /\ InsertRow(s, st, L, IF preconfirm THEN "confirmed" ELSE "unconfirmed")
    /\ consent' = IF preconfirm THEN consent \cup ({s} \X Known(L)) ELSE consent
    /\ IF preconfirm
       THEN Spend /\ UNCHANGED request
       ELSE Begin(r, [Idle EXCEPT !.at = "mail", !.sub = s, !.id = rowId'[s], !.lists = L])
    /\ UNCHANGED links

\* UpdateSubscriber replaces the subscriptions by the given lists.
Edit(r, s, st, L, preconfirm) ==
    /\ HasRow(s)
    /\ UpdateRow(s, st, L, IF preconfirm THEN "confirmed" ELSE "unconfirmed", TRUE, FALSE)
    /\ consent' = (consent \ ({s} \X (Lists \ L))) \cup (IF preconfirm THEN {s} \X Known(L) ELSE {})
    /\ IF preconfirm
       THEN Spend /\ UNCHANGED request
       ELSE Begin(r, [Idle EXCEPT !.at = "mail", !.sub = s, !.id = rowId[s], !.lists = L])
    /\ UNCHANGED links

\* PatchSubscriber reads the row; what the body leaves out is written back as it was read.
PatchRead(r, s) ==
    /\ HasRow(s)
    /\ Begin(r, [Idle EXCEPT !.at = "patch", !.sub = s, !.id = rowId[s], !.read = status[s]])
    /\ UNCHANGED <<tables, links, history>>

PatchWrite(r, st, L, replace, preconfirm) ==
    LET q == request[r] IN
    /\ At(r, "patch") /\ (~replace => L = {})
    /\ IF SameRow(r)
       THEN /\ UpdateRow(q.sub, st, L, IF preconfirm THEN "confirmed" ELSE "unconfirmed", replace, FALSE)
            /\ consent' = (IF replace THEN consent \ ({q.sub} \X (Lists \ L)) ELSE consent)
                            \cup (IF preconfirm THEN {q.sub} \X Known(L) ELSE {})
            /\ IF preconfirm THEN Done(r)
               ELSE request' = [request EXCEPT ![r].at = "mail", ![r].lists = L]
       ELSE Done(r) /\ UNCHANGED <<tables, history>>
    /\ UNCHANGED <<links, spent>>

-----------------------------------------------------------------------------
(* Requests of one statement.                                              *)

Single == Spend /\ UNCHANGED <<request, links>>

\* SubscriptionPrefs without "manage": from the campaign's lists, or from all and for good.
Unsubscribe(s, L, blocklist) ==
    /\ HasRow(s) /\ Single
    /\ IF AllowBlocklist /\ blocklist
       THEN BlocklistRows({s})
       ELSE UnsubscribeRows(Subscriptions({s}, L))

\* WipeSubscriberData, DeleteSubscribers, DeleteSubscribersByQuery
Wipe(s) == AllowWipe /\ HasRow(s) /\ Single /\ DeleteRows({s})
Delete(S) == Single /\ DeleteRows(S)

\* BlocklistSubscribers, BlocklistSubscribersByQuery
Blocklist(S) == Single /\ BlocklistRows(S)

\* ManageSubscriberLists: "add" gives existing subscriptions the status too, if there is one ...
Add(S, L, st) ==
    LET cells == S \X L
        fresh == cells \ Subscriptions(S, L)
    IN  /\ Single /\ L = Known(L) /\ \A s \in S : HasRow(s)
        /\ subscription' = IF st # "" THEN Mark(cells, st) ELSE Mark(fresh, "unconfirmed")
        /\ optedOut' = IF st = "unsubscribed" THEN optedOut \cup cells
                       ELSE IF st # "" THEN optedOut \ cells ELSE optedOut
        /\ consent' = IF st = "confirmed" THEN consent \cup cells ELSE consent
        /\ UNCHANGED <<status, rowId, list, bounces>>

\* ... in bulk it leaves them as they are (ON CONFLICT DO NOTHING).
AddByQuery(S, L, st) ==
    LET fresh == (S \X L) \ Subscriptions(S, L) IN
    /\ Single /\ L = Known(L)
    /\ subscription' = Mark(fresh, IF st = "" THEN "unconfirmed" ELSE st)
    /\ optedOut' = IF st = "unsubscribed" THEN optedOut \cup fresh ELSE optedOut
    /\ consent' = IF st = "confirmed" THEN consent \cup fresh ELSE consent
    /\ UNCHANGED <<status, rowId, list, bounces>>

Remove(S, L) == Single /\ RemoveRows(S \X L)
UnsubscribeLists(S, L) == Single /\ UnsubscribeRows(Subscriptions(S, L))

\* SubscriberSendOptin
SendOptinAgain(s) ==
    /\ HasRow(s) /\ Spend /\ Mail(s, {})
    /\ UNCHANGED <<tables, request, history>>

\* UpdateList, DeleteLists; its subscriptions go with a list (schema.sql:78).
EditList(l, attributes) ==
    /\ list[l] # NoList /\ Single
    /\ list' = [list EXCEPT ![l] = attributes]
    /\ UNCHANGED <<status, rowId, subscription, bounces, history>>

DeleteLists(L) ==
    /\ Single
    /\ list' = [l \in Lists |-> IF l \in L THEN NoList ELSE list[l]]
    /\ subscription' = Mark(Subscribers \X L, NoRow)
    /\ optedOut' = optedOut \ (Subscribers \X L) /\ consent' = consent \ (Subscribers \X L)
    /\ UNCHANGED <<status, rowId, bounces>>

\* GCSubscribers, GCSubscriptions
Orphans == {s \in Subscribers : HasRow(s) /\ Subscriptions({s}, Lists) = {}}
DeleteOrphans == Single /\ DeleteRows(Orphans)
DeleteBlocklisted == Single /\ DeleteRows({s \in Subscribers : status[s] = "blocklisted"})
Stale == {c \in Pairs : Row(c) = "unconfirmed" /\ list[c[2]].optin = "double"}
DeleteUnconfirmed(cells) == Single /\ RemoveRows(cells)

\* DeleteBounces, DeleteSubscriberBounces; BlocklistBouncedSubscribers
DeleteBounces(S) ==
    /\ Single
    /\ bounces' = [s \in Subscribers |-> IF s \in S THEN [t \in BounceTypes |-> 0] ELSE bounces[s]]
    /\ UNCHANGED <<status, rowId, subscription, list, history>>

Bounced == {s \in Subscribers : \E t \in BounceTypes : bounces[s][t] > 0}
BlocklistBounced == Single /\ BlocklistRows(Bounced)

-----------------------------------------------------------------------------
(* The requests, by who makes them.                                        *)

Public ==
    /\ spent < MaxInputs
    /\ \/ \E r \in Requests, s \in Subscribers, L \in SUBSET Lists : FormPost(r, s, L) \/ PrefsRead(r, s, L)
       \/ \E r \in Requests, k \in links : OptinOpen(r, k)
       \/ \E s \in Subscribers, L \in SUBSET Lists, b \in BOOLEAN : Unsubscribe(s, L, b)
       \/ \E s \in Subscribers : Wipe(s)

Statement(r) ==
    \/ FormInsert(r) \/ Lookup(r) \/ FormMerge(r)
    \/ PrefsWrite(r) \/ PrefsSubscriptions(r) \/ PrefsUnsubscribe(r)
    \/ OptinConfirm(r) \/ SendMail(r)
    \/ \E st \in EditStatuses \cup {"", request[r].read}, L \in SUBSET Lists, replace, p \in BOOLEAN :
        PatchWrite(r, st, L, replace, p)

Administrator ==
    /\ spent < MaxInputs
    /\ \/ \E r \in Requests, s \in Subscribers, st \in EditStatuses, L \in SUBSET Lists, p \in BOOLEAN :
           Create(r, s, st, L, p)
       \/ \E r \in Requests, s \in Subscribers, st \in EditStatuses \cup {""}, L \in SUBSET Lists, p \in BOOLEAN :
           Edit(r, s, st, L, p)
       \/ \E r \in Requests, s \in Subscribers : PatchRead(r, s)
       \/ \E S \in SUBSET Subscribers : Delete(S) \/ Blocklist(S) \/ DeleteBounces(S)
       \/ \E S \in SUBSET Subscribers, L \in SUBSET Lists : Remove(S, L) \/ UnsubscribeLists(S, L)
       \/ \E S \in SUBSET Subscribers, L \in SUBSET Lists, st \in SubscriptionStatuses \cup {""} : Add(S, L, st)
       \/ \E from, to \in SUBSET Lists, st \in SubscriptionStatuses \cup {""} : AddByQuery(Selected(from, ""), to, st)
       \/ \E L \in SUBSET Lists, st \in SubscriptionStatuses \cup {""} : Delete(Selected(L, st)) \/ Blocklist(Selected(L, st))
       \/ \E s \in Subscribers : SendOptinAgain(s)
       \/ \E l \in Lists, a \in Attributes : EditList(l, a)
       \/ \E L \in SUBSET Lists : DeleteLists(L)
       \/ DeleteOrphans \/ DeleteBlocklisted \/ BlocklistBounced
       \/ \E cells \in SUBSET Stale : DeleteUnconfirmed(cells)

AudienceNext ==
    Public \/ Administrator \/ \E r \in Requests : Statement(r)

AudienceSpec == AudienceInit /\ [][AudienceNext]_audienceVars

-----------------------------------------------------------------------------
(* What is checked.                                                        *)

\* Types; a subscription belongs to a row of each side (schema.sql:77-78).
AudienceTypeOK ==
    /\ status \in [Subscribers -> SubscriberStatuses \cup {NoRow}]
    /\ rowId \in [Subscribers -> Nat]
    /\ subscription \in [Subscribers -> [Lists -> SubscriptionStatuses \cup {NoRow}]]
    /\ list \in [Lists -> Attributes \cup {NoList}]
    /\ bounces \in [Subscribers -> [BounceTypes -> Nat]]
    /\ optedOut \cup consent \subseteq Pairs
    /\ \A c \in Pairs : Row(c) # NoRow => HasRow(c[1]) /\ list[c[2]] # NoList
    /\ spent \in 0..MaxInputs

\* Whoever unsubscribed from a list stays unsubscribed or loses the subscription, through
\* every edit, partial update, bulk request and write-back of a row read earlier, until
\* they ask for the list again, by the form or an opt-in link, or an administrator gives
\* the subscription a status (queries/subscribers.sql:181-202, 308-314).
OptOutKept == \A c \in optedOut : Row(c) \in {NoRow, "unsubscribed"}

\* A subscription is confirmed only by an administrator or by a click on a link that was
\* mailed to this row: not by a public form, nor by the link of a row since deleted and
\* inserted anew (cmd/public.go:801-822, queries/subscribers.sql:242-249).
ConfirmedHasConsent == \A c \in Pairs : Row(c) = "confirmed" => c \in consent

\* A confirmation is not undone by asking again: what was confirmed becomes unconfirmed
\* only by an administrator's request that says so (queries/subscribers.sql:196).
ConfirmationKept ==
    [][\A c \in Pairs : Row(c) = "confirmed" /\ Row(c)' = "unconfirmed" =>
         \E S \in SUBSET Subscribers, L \in SUBSET Lists : c \in S \X L /\ Add(S, L, "unconfirmed")]_audienceVars

\* A request that finds its subscriber blocklisted does not lift that, and one that found
\* him otherwise is the only way, beside an administrator's edit, that it is lifted
\* (cmd/public.go:309-318, 816-822).
BlocklistingLiftedByStaleOnly ==
    [][\A s \in Subscribers : status[s] = "blocklisted" /\ status'[s] \in {"enabled", "disabled"} =>
         \/ \E r \in Requests : request[r].sub = s /\ request'[r] # request[r]
                               /\ (request[r].at = "patch" \/ request[r].read \notin {"blocklisted", NoRow})
         \/ \E r \in Requests, L \in SUBSET Lists, p \in BOOLEAN : Edit(r, s, status'[s], L, p)]_audienceVars
=============================================================================
