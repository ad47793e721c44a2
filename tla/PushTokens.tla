------------------------------- MODULE PushTokens -------------------------------
(***************************************************************************)
(* Push notifications (cmd/push.go, internal/push/fcm.go): browsers        *)
(* register tokens, a test is sent to one or to every active token, and    *)
(* the tokens that the service rejects are deactivated after the last was  *)
(* sent to.                                                                *)
(*                                                                         *)
(* The service accepts a message, rejects its token, or fails: for its own *)
(* reasons, so that any answer can come at any time.                       *)
(***************************************************************************)
EXTENDS Integers, FiniteSets, Functions

CONSTANTS
    PushRequests,       \* requests that send, at once
    PushTokens          \* tokens of browsers

VARIABLES
    pushToken,          \* push_tokens: token -> is_active
    pushReq,            \* requests that send
    \* --- history, read by properties only ---
    rejected,           \* tokens the service has rejected
    excused             \* of a request at work: tokens registered since it sent to them, or
                        \* whose deactivation by it failed

pushVars == <<pushToken, pushReq, rejected, excused>>

NoPushReq == [at |-> "idle"]

PushInit ==
    /\ pushToken = <<>> /\ pushReq = [r \in PushRequests |-> NoPushReq]
    /\ rejected = {} /\ excused = [r \in PushRequests |-> {}]

PushAt(r, pc) == pushReq[r].at = pc
PushGoto(r, rec) == pushReq' = [pushReq EXCEPT ![r] = rec]
Active == {t \in DOMAIN pushToken : pushToken[t]}
Deactivated(t) == [u \in DOMAIN pushToken |-> u # t /\ pushToken[u]]

\* SavePushToken: made, or active again.
SavePushToken(t) ==
    /\ pushToken' = [u \in DOMAIN pushToken \cup {t} |-> u = t \/ pushToken[u]]
    /\ excused' = [r \in PushRequests |-> IF PushAt(r, "idle") THEN {} ELSE excused[r] \cup {t}]
    /\ UNCHANGED <<pushReq, rejected>>

DeletePushToken(t) ==
    /\ t \in DOMAIN pushToken /\ pushToken' = Restrict(pushToken, DOMAIN pushToken \ {t})
    /\ UNCHANGED <<pushReq, rejected, excused>>

\* SendTestPush names a token, whether it is registered or not, or takes the active ones;
\* without any it ends.
SendTestPush(r, ts) ==
    /\ PushAt(r, "idle") /\ ts # {}
    /\ PushGoto(r, [at |-> "send", all |-> Cardinality(ts), left |-> ts, invalid |-> {}, accepted |-> 0])
    /\ UNCHANGED <<pushToken, rejected, excused>>

\* Send: accepted, ...
SendAccepted(r, t) ==
    LET q == pushReq[r] IN
    /\ PushAt(r, "send") /\ t \in q.left
    /\ PushGoto(r, [q EXCEPT !.left = @ \ {t}, !.accepted = @ + 1])
    /\ UNCHANGED <<pushToken, rejected, excused>>

\* Variant: tokens that are rejected are only counted.
Forgotten(q, t) == [q EXCEPT !.left = @ \ {t}]

\* ... UNREGISTERED or INVALID_ARGUMENT: the others are still sent to, ...
Rejected(q, t) == [q EXCEPT !.left = @ \ {t}, !.invalid = @ \cup {t}]
SendRejected(r, t) ==
    /\ PushAt(r, "send") /\ t \in pushReq[r].left
    /\ PushGoto(r, Rejected(pushReq[r], t)) /\ rejected' = rejected \cup {t}
    /\ excused' = [excused EXCEPT ![r] = @ \ {t}]
    /\ UNCHANGED pushToken

\* ... or failed: nobody else is sent to, what was rejected before is not deactivated, and
\* the request is answered with the error.
SendFails(r) ==
    /\ PushAt(r, "send") /\ pushReq[r].left # {}
    /\ PushGoto(r, [pushReq[r] EXCEPT !.at = "failed"])
    /\ UNCHANGED <<pushToken, rejected, excused>>

\* The last was sent to. The rejected are deactivated ...
SendEnds(r) ==
    LET q == pushReq[r] IN
    /\ PushAt(r, "send") /\ q.left = {}
    /\ PushGoto(r, [q EXCEPT !.at = "deactivate", !.left = q.invalid])
    /\ UNCHANGED <<pushToken, rejected, excused>>

\* ... one after the other, an error being logged at most, ...
DeactivatePushToken(r, t, fails) ==
    /\ PushAt(r, "deactivate") /\ t \in pushReq[r].left
    /\ pushToken' = IF fails THEN pushToken ELSE Deactivated(t)
    /\ excused' = IF fails THEN [excused EXCEPT ![r] = @ \cup {t}] ELSE excused
    /\ PushGoto(r, [pushReq[r] EXCEPT !.left = @ \ {t}])
    /\ UNCHANGED rejected

\* ... and the request is answered: with numbers, or with the error when its one token was
\* rejected.
PushAnswer(r) ==
    /\ PushAt(r, "deactivate") /\ pushReq[r].left = {}
    /\ PushGoto(r, [pushReq[r] EXCEPT !.at = "answered"])
    /\ UNCHANGED <<pushToken, rejected, excused>>

PushOver(r) ==
    /\ PushAt(r, "answered") \/ PushAt(r, "failed")
    /\ PushGoto(r, NoPushReq) /\ excused' = [excused EXCEPT ![r] = {}]
    /\ UNCHANGED <<pushToken, rejected>>

\* The process starts again.
RestartPush ==
    /\ \E r \in PushRequests : ~PushAt(r, "idle")
    /\ pushReq' = [r \in PushRequests |-> NoPushReq] /\ excused' = [r \in PushRequests |-> {}]
    /\ UNCHANGED <<pushToken, rejected>>

PushNext ==
    \/ \E t \in PushTokens : SavePushToken(t) \/ DeletePushToken(t)
    \/ \E r \in PushRequests :
          \/ SendTestPush(r, Active)
          \/ SendFails(r) \/ SendEnds(r) \/ PushAnswer(r) \/ PushOver(r)
          \/ \E t \in PushTokens :
                \/ SendTestPush(r, {t}) \/ SendAccepted(r, t) \/ SendRejected(r, t)
                \/ \E fails \in BOOLEAN : DeactivatePushToken(r, t, fails)
    \/ RestartPush

-----------------------------------------------------------------------------
(* What is checked.                                                        *)

PushTypeOK ==
    /\ DOMAIN pushToken \subseteq PushTokens
    /\ \A r \in PushRequests : PushAt(r, "send") => pushReq[r].invalid \subseteq rejected

\* A test that came to its end was sent to every token it began with, and none of those that
\* were rejected is active, unless its browser registered it again meanwhile or the statement
\* failed. One that broke off has sent to some, once each, and to at least one not at all;
\* its answer is the error, which tells neither, and what was rejected of it may be active,
\* where cmd/push.go:153-155 says that rejected tokens are marked inactive. And no token is inactive that the service never rejected (cmd/push.go:176-227,
\* internal/push/fcm.go:103-171).
PushAnswered ==
    /\ \A t \in DOMAIN pushToken \ Active : t \in rejected
    /\ \A r \in PushRequests :
         LET q == pushReq[r] IN
         /\ q.at = "answered" => /\ q.accepted + Cardinality(q.invalid) = q.all
                                /\ q.invalid \cap Active \subseteq excused[r]
         /\ q.at = "failed" => /\ q.left # {} /\ q.left \cap q.invalid = {}
                              /\ q.accepted + Cardinality(q.invalid) + Cardinality(q.left) = q.all
=============================================================================
