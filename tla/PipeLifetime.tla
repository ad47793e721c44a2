----------------------------- MODULE PipeLifetime -----------------------------
(***************************************************************************)
(* What a pipe of the campaign manager promises, with no counter, queue or *)
(* goroutine in sight: while it is open it takes on messages, each of      *)
(* which is settled once (sent, failed or dropped); once it is closed it   *)
(* takes on no more; and it ends, which is when its campaign's row is      *)
(* brought up to date, only closed and with nothing left to settle.        *)
(***************************************************************************)
CONSTANTS Pipes, Subs
VARIABLES phase, pending

vars == <<phase, pending>>
Phases == {"none", "open", "closed", "ended"}

Init == /\ phase = [p \in Pipes |-> "none"]
        /\ pending = [p \in Pipes |-> {}]

Move(p, from, to) == phase[p] = from /\ phase' = [phase EXCEPT ![p] = to]

\* A pipe that finds no room in the manager's queue is closed from the start.
Open(p) == (Move(p, "none", "open") \/ Move(p, "none", "closed")) /\ UNCHANGED pending
Issue(p, s) ==
    /\ phase[p] = "open"
    /\ s \notin pending[p]
    /\ pending' = [pending EXCEPT ![p] = @ \cup {s}]
    /\ UNCHANGED phase
Settle(p, s) ==
    /\ s \in pending[p]
    /\ pending' = [pending EXCEPT ![p] = @ \ {s}]
    /\ UNCHANGED phase
Close(p) == Move(p, "open", "closed") /\ UNCHANGED pending
End(p) == Move(p, "closed", "ended") /\ pending[p] = {} /\ UNCHANGED pending
Forget(p) == Move(p, "ended", "none") /\ UNCHANGED pending

\* The process is gone and everything in its memory with it.
Vanish == phase' = [p \in Pipes |-> "none"] /\ pending' = [p \in Pipes |-> {}]

Next == \/ \E p \in Pipes : \/ Open(p) \/ Close(p) \/ End(p) \/ Forget(p)
                            \/ \E s \in Subs : Issue(p, s) \/ Settle(p, s)
        \/ Vanish

Spec == Init /\ [][Next]_vars
===============================================================================
