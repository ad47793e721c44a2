------------------------------- MODULE TxMessages -------------------------------
(***************************************************************************)
(* Transactional messages (cmd/tx.go): a message to many recipients is     *)
(* rendered and queued for one after the other, from a template that the   *)
(* manager has in memory (Templates). The queue is the manager's           *)
(* (CampaignManager): here a push finds room or times out.                 *)
(*                                                                         *)
(* What is rendered for a recipient is the number of the recipient. A      *)
(* message has a subject and an alternative body with template expressions *)
(* in them: without any there is nothing to render.                        *)
(***************************************************************************)
EXTENDS Integers, Sequences

CONSTANTS
    TxRequests,         \* requests at once
    Recipients          \* a message has the recipients 1..Recipients

ASSUME TxAssumption == Recipients \in Nat

VARIABLE txReq          \* requests

txVars == <<txReq>>

NoTxReq == [at |-> "idle"]
Unrendered == 0

TxInit == txReq = [r \in TxRequests |-> NoTxReq]

TxAt(r, pc) == txReq[r].at = pc
TxGoto(r, rec) == txReq' = [txReq EXCEPT ![r] = rec]

\* validateTxMessage: subscribers are named by id or by e-mail, and only in the default mode
\* must they exist; ids exist in no other mode.
TxForms == {[by |-> "ids", mode |-> "default"]} \cup [by : {"emails"}, mode : {"default", "fallback", "external"}]

\* SendTxMessage takes the template in memory, when there is one.
SendTx(r, form) ==
    /\ TxAt(r, "idle")
    /\ TxGoto(r, [at |-> "send", mode |-> form.mode, n |-> 1, subject |-> Unrendered, alt |-> Unrendered,
                  pushed |-> <<>>, notFound |-> {}])

\* Variant: who is not found is not remembered.
NotNoted(q) == q.notFound

NotFound(q) == q.notFound \cup {q.n}

\* Render: the body is made for everyone; the subject and the alternative body become those
\* of the message, so that the next recipient has them too.
RenderedOnce(text, n) == IF text = Unrendered THEN n ELSE text

\* The next recipient is looked up, except in the external mode. Who is not found is noted,
\* in the default mode, ...
NotFoundNext(r) ==
    LET q == txReq[r] IN
    /\ TxAt(r, "send") /\ q.n <= Recipients /\ q.mode = "default"
    /\ TxGoto(r, [q EXCEPT !.notFound = NotFound(q), !.n = @ + 1])

\* ... anybody else's message is rendered and queued (PushMessage).
PushMessage(r) ==
    LET q == txReq[r]
        subject == RenderedOnce(q.subject, q.n)
        alt == RenderedOnce(q.alt, q.n) IN
    /\ TxAt(r, "send") /\ q.n <= Recipients
    /\ TxGoto(r, [q EXCEPT !.subject = subject, !.alt = alt, !.n = @ + 1,
                    !.pushed = Append(@, [to |-> q.n, body |-> q.n, subject |-> subject, alt |-> alt])])

\* The answer: "ok", "not found" with the names of those who were not, or "error" alone.
TxAnswer(r, answer) ==
    TxGoto(r, [at |-> "answered", answer |-> answer, mode |-> txReq[r].mode,
               notFound |-> txReq[r].notFound, pushed |-> txReq[r].pushed])

\* The lookup, the rendering or the push fails: the rest is not tried.
TxFails(r) == TxAt(r, "send") /\ txReq[r].n <= Recipients /\ TxAnswer(r, "error")

TxEnds(r) ==
    /\ TxAt(r, "send") /\ txReq[r].n > Recipients
    /\ TxAnswer(r, IF txReq[r].notFound = {} THEN "ok" ELSE "not found")

TxOver(r) == TxAt(r, "answered") /\ TxGoto(r, NoTxReq)

TxNext ==
    \E r \in TxRequests :
       \/ \E form \in TxForms : SendTx(r, form)
       \/ NotFoundNext(r) \/ PushMessage(r) \/ TxFails(r) \/ TxEnds(r) \/ TxOver(r)

-----------------------------------------------------------------------------
(* What is checked.                                                        *)

TxTypeOK == \A r \in TxRequests : TxAt(r, "send") => txReq[r].n \in 1..(Recipients + 1)

\* When a transactional message is answered with "ok" everyone has it; with "not found",
\* which only the default mode gives, everyone but those that the answer names. With an
\* error those before the failure have it, but for the ones not found, and nobody after
\* them: the answer tells neither how far it came nor who was not found. In any case nobody
\* has two, and each has a body of its own; but the subject and the alternative body are
\* those made for the first of them, although docs/docs/content/templating.md:18-24 has
\* template expressions in both (cmd/tx.go:82-176, models/messages.go:77-137).
TxAnswered ==
    \A r \in TxRequests : TxAt(r, "answered") =>
      LET q == txReq[r]
          to == [i \in 1..Len(q.pushed) |-> q.pushed[i].to]
          reached == {to[i] : i \in 1..Len(to)} IN
      /\ \A i \in 2..Len(to) : to[i - 1] < to[i]
      /\ reached \cap q.notFound = {} /\ (q.notFound # {} => q.mode = "default")
      /\ q.answer = "ok" => reached = 1..Recipients
      /\ q.answer = "not found" => q.notFound # {} /\ reached \cup q.notFound = 1..Recipients
      /\ q.answer = "error" => \E n \in 1..Recipients : reached \cup q.notFound = 1..(n - 1)
      /\ \A i \in 1..Len(to) : LET m == q.pushed[i] IN
            m.body = m.to /\ m.subject = to[1] /\ m.alt = to[1]
=============================================================================
