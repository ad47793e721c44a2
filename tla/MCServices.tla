------------------------------ MODULE MCServices ------------------------------
(***************************************************************************)
(* Services with two requests, clicks, browsers or processes at once.      *)
(***************************************************************************)
EXTENDS Services, TLC

CONSTANTS r1, r2, l1, l2, p1, p2
Two == {r1, r2}
TwoLists == {l1, l2}
TwoTokens == {p1, p2}
Symmetry == Permutations(Two)

\* The other parts stay as they begin, in one way each.
View ==
    <<part, CASE part = "accounts" -> accountsVars [] part = "logins" -> loginsVars
              [] part = "settings" -> settingsVars [] part = "webhooks" -> webhookVars
              [] part = "stream" -> streamVars [] part = "upgrade" -> upgradeVars
              [] part = "templates" -> templatesVars [] part = "tx" -> txVars
              [] part = "media" -> mediaVars [] part = "push" -> pushVars>>

AllParts == {"accounts", "logins", "settings", "webhooks", "stream", "upgrade", "templates", "tx",
             "media", "push"}
TestUsers ==
    {[type |-> "user", super |-> TRUE, enabled |-> TRUE, listRole |-> TRUE],
     [type |-> "user", super |-> FALSE, enabled |-> TRUE, listRole |-> FALSE],
     [type |-> "api", super |-> FALSE, enabled |-> TRUE, listRole |-> TRUE]}
KeptEdit == [type |-> "", role |-> "super", status |-> "enabled", listRole |-> ""]
TestEdits == {[KeptEdit EXCEPT !.type = "user"], [KeptEdit EXCEPT !.type = "api"],
              [KeptEdit EXCEPT !.status = "disabled"], [KeptEdit EXCEPT !.role = "other"]}
\* With no webhook in the environment, and with one for one of the lists.
TestEnvs == {[configured |-> FALSE, targets |-> {}], [configured |-> TRUE, targets |-> {l1}]}
=============================================================================
