------------------------------ MODULE MCBounces -------------------------------
(***************************************************************************)
(* One person, two lists; hard bounces blocklist at the second.            *)
(***************************************************************************)
EXTENDS Bounces, TLC

CONSTANT DoubleList

OneOfEach == [t \in {"hard", "complaint", "soft"} |->
    CASE t = "hard" -> [count |-> 2, action |-> "blocklist"]
      [] t = "complaint" -> [count |-> 1, action |-> "unsubscribe"]
      [] t = "soft" -> [count |-> 2, action |-> "delete"]]
TwoKinds ==
    {[l \in Lists |-> IF l = DoubleList THEN [type |-> "public", optin |-> "double"]
                     ELSE [type |-> "private", optin |-> "single"]]}
Symmetry == Permutations(Requests)
===============================================================================
