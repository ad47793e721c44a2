------------------------- MODULE MCCampaignManager -------------------------
(* Instances of CampaignManager for TLC.                                    *)
EXTENDS CampaignManager, TLC

\* Pipe objects and workers are interchangeable.
Symmetry == Permutations(PipeIds) \cup Permutations(Workers)

\* What a garbage pipe object still holds is read by nobody and overwritten when its
\* identity is used again: states that differ only there are the same.
Kept(f) == [p \in PipeIds |-> IF p \in FreePipes THEN 0 ELSE f[p]]
KeptFlag(f) == [p \in PipeIds |-> p \notin FreePipes /\ f[p]]
View == <<db, mgr, [p \in PipeIds |-> IF p \in FreePipes THEN NoPipe ELSE camp[p]],
          Kept(wg), Kept(sent), Kept(lastID), Kept(errors), Kept(late),
          KeptFlag(stopped), KeptFlag(withErrors), stage,
          runVars, scanVars, workVars, reqVars, delivered, failed, disturbed, used>>

AllRunning == [c \in Campaigns |-> "running"]

\* One campaign to be sent later; the others are running already.
OneScheduled == [c \in Campaigns |-> IF c \in InitTimed THEN "scheduled" ELSE "running"]
=============================================================================
