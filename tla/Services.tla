-------------------------------- MODULE Services --------------------------------
(***************************************************************************)
(* The services around campaigns, audience and importer: accounts, logins, *)
(* settings and their reload, confirm webhooks, the error stream, install  *)
(* and upgrade, templates, transactional messages, media, push             *)
(* notifications. They share no state, and what one does is no input of    *)
(* another, so a behaviour of the program is an interleaving of theirs     *)
(* that each of them can be checked apart from: a behaviour here is one of *)
(* them, chosen at the start.                                              *)
(***************************************************************************)
EXTENDS Accounts, Logins, Settings, ConfirmWebhooks, EventStream, Upgrade,
        Templates, TxMessages, Media, PushTokens

CONSTANT Parts          \* the services to be checked

VARIABLE part           \* the one that this behaviour is of

ASSUME ServicesAssumption ==
    Parts \subseteq {"accounts", "logins", "settings", "webhooks", "stream", "upgrade", "templates",
                     "tx", "media", "push"}

vars == <<part, accountsVars, loginsVars, settingsVars, webhookVars, streamVars, upgradeVars,
          templatesVars, txVars, mediaVars, pushVars>>

Init ==
    /\ part \in Parts
    /\ AccountsInit /\ LoginsInit /\ SettingsInit /\ WebhooksInit /\ StreamInit /\ UpgradeInit
    /\ TemplatesInit /\ TxInit /\ MediaInit /\ PushInit

Next ==
    /\ UNCHANGED part
    /\ \/ /\ part = "accounts" /\ AccountsNext
          /\ UNCHANGED <<loginsVars, settingsVars, webhookVars, streamVars, upgradeVars,
                        templatesVars, txVars, mediaVars, pushVars>>
       \/ /\ part = "logins" /\ LoginsNext
          /\ UNCHANGED <<accountsVars, settingsVars, webhookVars, streamVars, upgradeVars,
                        templatesVars, txVars, mediaVars, pushVars>>
       \/ /\ part = "settings" /\ SettingsNext
          /\ UNCHANGED <<accountsVars, loginsVars, webhookVars, streamVars, upgradeVars,
                        templatesVars, txVars, mediaVars, pushVars>>
       \/ /\ part = "webhooks" /\ WebhooksNext
          /\ UNCHANGED <<accountsVars, loginsVars, settingsVars, streamVars, upgradeVars,
                        templatesVars, txVars, mediaVars, pushVars>>
       \/ /\ part = "stream" /\ StreamNext
          /\ UNCHANGED <<accountsVars, loginsVars, settingsVars, webhookVars, upgradeVars,
                        templatesVars, txVars, mediaVars, pushVars>>
       \/ /\ part = "upgrade" /\ UpgradeNext
          /\ UNCHANGED <<accountsVars, loginsVars, settingsVars, webhookVars, streamVars,
                        templatesVars, txVars, mediaVars, pushVars>>
       \/ /\ part = "templates" /\ TemplatesNext
          /\ UNCHANGED <<accountsVars, loginsVars, settingsVars, webhookVars, streamVars,
                        upgradeVars, txVars, mediaVars, pushVars>>
       \/ /\ part = "tx" /\ TxNext
          /\ UNCHANGED <<accountsVars, loginsVars, settingsVars, webhookVars, streamVars,
                        upgradeVars, templatesVars, mediaVars, pushVars>>
       \/ /\ part = "media" /\ MediaNext
          /\ UNCHANGED <<accountsVars, loginsVars, settingsVars, webhookVars, streamVars,
                        upgradeVars, templatesVars, txVars, pushVars>>
       \/ /\ part = "push" /\ PushNext
          /\ UNCHANGED <<accountsVars, loginsVars, settingsVars, webhookVars, streamVars,
                        upgradeVars, templatesVars, txVars, mediaVars>>

Spec == Init /\ [][Next]_vars

\* Every service keeps its state in range: what the requests, caches, tokens, channels,
\* files and the steps of migrations can hold.
TypeOK ==
    /\ AccountsTypeOK /\ LoginsTypeOK /\ SettingsTypeOK /\ WebhooksTypeOK /\ StreamTypeOK
    /\ UpgradeTypeOK /\ TemplatesTypeOK /\ TxTypeOK /\ MediaTypeOK /\ PushTypeOK

\* When a request that sends to many one after the other is answered without an error, it has
\* reached everyone but those its answer tells of; an error means that it broke off, and
\* does not tell where: TxAnswered for transactional messages, PushAnswered for push
\* notifications (cmd/tx.go:82-176, cmd/push.go:176-227).
FanOutsAnswered == TxAnswered /\ PushAnswered

\* What is kept outside of the database agrees with the rows it belongs to: the templates in
\* memory, TemplatesCurrent, and the files of media, MediaIntact (cmd/templates.go:109-212,
\* cmd/media.go:26-192).
CopiesFollowRows == TemplatesCurrent /\ MediaIntact
=============================================================================
