---------------------------- MODULE ConfirmWebhooks ----------------------------
(***************************************************************************)
(* What is reported of a confirmed subscription: clicks on the opt-in page *)
(* (cmd/public.go), the targets of the lists (cmd/confirm_webhook.go,      *)
(* internal/webhooks/env.go) and the goroutines that deliver               *)
(* (internal/webhooks/webhooks.go), for one subscriber.                    *)
(*                                                                         *)
(* The statements of a click are steps of their own. The targets of the    *)
(* environment are read without waiting. Nothing of a delivery is stored.  *)
(***************************************************************************)
EXTENDS Integers, FiniteSets

CONSTANTS
    WebLists,           \* lists the subscriber has subscribed to
    Clicks,             \* clicks on the opt-in page
    MaxRetries,         \* Dispatcher.MaxRetries, 3
    EnvSettings,        \* environments: [configured, targets], targets with a valid URL
    MaxWebEvents        \* bound on failing statements, restarts, and what goes on around the clicks

ASSUME ConfirmWebhooksAssumption ==
    /\ MaxRetries \in Nat /\ MaxWebEvents \in Nat
    /\ EnvSettings \subseteq [configured : BOOLEAN, targets : SUBSET WebLists]

VARIABLES
    subscription,       \* subscriber_lists.status
    hook,               \* lists whose row has a webhook URL
    env,                \* the environment of the process
    click,              \* [at, lists, ids]: lists read as unconfirmed, ids to be confirmed
    delivery,           \* of a click and a list: [at, failed]
    \* --- history, read by properties and by bounds only ---
    turned,             \* lists a click's statement turned from unconfirmed to confirmed
    received,           \* lists a click's report of which has arrived
    hookEdited,         \* lists whose URL changed since the clicks began
    webEvents

webhookVars == <<subscription, hook, env, click, delivery, turned, received, hookEdited, webEvents>>

NoEnv == [configured |-> FALSE, targets |-> {}]
NoClick == [at |-> "new", lists |-> {}, ids |-> {}]
NoDelivery == [at |-> "none", failed |-> 0]

WebhooksInit ==
    /\ subscription = [l \in WebLists |-> "unconfirmed"]
    /\ hook = WebLists /\ env = NoEnv
    /\ click = [c \in Clicks |-> NoClick]
    /\ delivery = [c \in Clicks |-> [l \in WebLists |-> NoDelivery]]
    /\ turned = [c \in Clicks |-> {}] /\ received = [c \in Clicks |-> {}] /\ hookEdited = {} /\ webEvents = 0

WebEvent == webEvents < MaxWebEvents /\ webEvents' = webEvents + 1
ClickAt(c, pc) == click[c].at = pc
ClickGoto(c, pc) == click' = [click EXCEPT ![c].at = pc]
Unconfirmed == {l \in WebLists : subscription[l] = "unconfirmed"}

\* The statement a click is at fails: an error page, or a log line when the page is shown anyway.
ClickFails(c) ==
    /\ click[c].at \in {"confirm", "load", "hooks"} /\ WebEvent
    /\ ClickGoto(c, "failed")
    /\ UNCHANGED <<subscription, hook, env, delivery, turned, received, hookEdited>>

\* OptinPage: the unconfirmed among the lists that are named, of all if none is.
OptinPage(c, named) ==
    LET lists == IF named = {} THEN Unconfirmed ELSE Unconfirmed \cap named IN
    /\ ClickAt(c, "new") /\ lists # {}
    /\ click' = [click EXCEPT ![c] = [at |-> "confirm", lists |-> lists,
                                      ids |-> IF named = {} THEN lists ELSE named]]
    /\ UNCHANGED <<subscription, hook, env, delivery, turned, received, hookEdited, webEvents>>

\* confirmOptinSubscription: every named list, whatever its status.
Confirm(c) ==
    LET ids == click[c].ids IN
    /\ ClickAt(c, "confirm")
    /\ subscription' = [l \in WebLists |-> IF l \in ids THEN "confirmed" ELSE subscription[l]]
    /\ turned' = [turned EXCEPT ![c] = ids \cap Unconfirmed]
    /\ ClickGoto(c, "load")
    /\ UNCHANGED <<hook, env, delivery, received, hookEdited, webEvents>>

\* Dispatch: a goroutine for each target.
Dispatch(c, targets) ==
    delivery' = [delivery EXCEPT ![c] = [l \in WebLists |->
                    IF l \in targets THEN [at |-> "due", failed |-> 0] ELSE NoDelivery]]

\* dispatchConfirmWebhooks: reads the subscriber; the environment's targets are the only
\* ones if it has any webhook configured ...
LoadSubscriber(c) ==
    /\ ClickAt(c, "load")
    /\ IF env.configured
       THEN ClickGoto(c, "over") /\ Dispatch(c, click[c].lists \cap env.targets)
       ELSE ClickGoto(c, "hooks") /\ UNCHANGED delivery
    /\ UNCHANGED <<subscription, hook, env, turned, received, hookEdited, webEvents>>

\* ... or GetListWebhooks reads those of the lists.
LoadHooks(c) ==
    /\ ClickAt(c, "hooks")
    /\ ClickGoto(c, "over") /\ Dispatch(c, click[c].lists \cap hook)
    /\ UNCHANGED <<subscription, hook, env, turned, received, hookEdited, webEvents>>

\* Variant: the retries are all the attempts there are.
TriedOnceLess(failed) == failed >= MaxRetries

\* SendDetailed's loop is over: the first attempt and MaxRetries more.
TriedAll(failed) == failed > MaxRetries

\* One attempt: the report arrives and the answer too; or the answer is late or bad, and
\* whether the report arrived is not known; after the last the goroutine gives up.
Attempt(c, l) ==
    LET failed == delivery[c][l].failed + 1 IN
    /\ delivery[c][l].at = "due"
    /\ \/ /\ delivery' = [delivery EXCEPT ![c][l].at = "delivered"]
          /\ received' = [received EXCEPT ![c] = @ \cup {l}]
       \/ /\ delivery' = [delivery EXCEPT ![c][l] =
                [at |-> IF TriedAll(failed) THEN "gave up" ELSE "due", failed |-> failed]]
          /\ received' \in {received, [received EXCEPT ![c] = @ \cup {l}]}
    /\ UNCHANGED <<subscription, hook, env, click, turned, hookEdited, webEvents>>

-----------------------------------------------------------------------------
(* What goes on around the clicks.                                         *)

\* The subscriber leaves a list, or subscribes again; the row of a list is edited.
Resubscribe(l) ==
    /\ WebEvent /\ subscription[l] # "unconfirmed"
    /\ subscription' = [subscription EXCEPT ![l] =
          IF @ = "confirmed" THEN "unsubscribed" ELSE "unconfirmed"]
    /\ UNCHANGED <<hook, env, click, delivery, turned, received, hookEdited>>

EditHook(l) ==
    /\ WebEvent
    /\ hook' = (IF l \in hook THEN hook \ {l} ELSE hook \cup {l})
    /\ hookEdited' = hookEdited \cup {l}
    /\ UNCHANGED <<subscription, env, click, delivery, turned, received>>

\* The process ends, its goroutines with it, and starts with another environment.
RestartWebhooks(e) ==
    /\ WebEvent /\ env' = e
    /\ click' = [c \in Clicks |-> IF ClickAt(c, "new") THEN NoClick ELSE [click[c] EXCEPT !.at = "ended"]]
    /\ delivery' = [c \in Clicks |-> [l \in WebLists |-> NoDelivery]]
    /\ hookEdited' = {}
    /\ UNCHANGED <<subscription, hook, turned, received>>

WebhooksNext ==
    \/ \E c \in Clicks :
          \/ \E named \in SUBSET WebLists : OptinPage(c, named)
          \/ Confirm(c) \/ LoadSubscriber(c) \/ LoadHooks(c) \/ ClickFails(c)
          \/ \E l \in WebLists : Attempt(c, l)
    \/ \E l \in WebLists : Resubscribe(l) \/ EditHook(l)
    \/ \E e \in EnvSettings : RestartWebhooks(e)

-----------------------------------------------------------------------------
(* What is checked.                                                        *)

WebhooksTypeOK ==
    /\ subscription \in [WebLists -> {"unconfirmed", "confirmed", "unsubscribed"}]
    /\ env \in EnvSettings \cup {NoEnv}
    /\ \A c \in Clicks : click[c].lists \subseteq WebLists
    /\ \A c \in Clicks, l \in WebLists : delivery[c][l].failed \in 0..(MaxRetries + 1)

HasTarget(l) == IF env.configured THEN l \in env.targets ELSE l \in hook \ hookEdited

\* A click whose reports are not all under way yet, and one that the process did not finish:
\* the subscriber or the webhooks of its lists could not be loaded, or the process ended.
ToDispatch(c) == click[c].at \in {"load", "hooks"}
CutOff(c) == click[c].at \in {"failed", "ended"}

\* A subscription that a click confirmed is reported by it to the target of its list, as
\* long as the process does not end: the report arrived, or is due, or is still to be
\* dispatched, or every one of the MaxRetries + 1 attempts failed. That is less than
\* webhooks.go:3 says, "Deliveries are at-least-once": a report is given up after the last
\* attempt and kept nowhere. Two clicks at once, of
\* which one finds confirmed what both had read as waiting, do not keep one from reporting
\* it. Nothing is said of a click that could not load the subscriber or the webhooks
\* (confirm_webhook.go:30-33, 62-66: a log line and no report), of one whose process ended,
\* of lists whose URL was edited meanwhile, and of a list that was not waiting for its
\* confirmation when the click read the lists: it is confirmed with the others and not
\* reported (cmd/public.go:384, 423, 430; internal/webhooks/webhooks.go:162-219).
ConfirmationReported ==
    \A c \in Clicks : ~CutOff(c) =>
        \A l \in turned[c] \cap click[c].lists : HasTarget(l) =>
            \/ ToDispatch(c) \/ delivery[c][l].at = "due" \/ l \in received[c]
            \/ delivery[c][l].failed = MaxRetries + 1
=============================================================================
