------------------------------ MODULE Templates ------------------------------
(***************************************************************************)
(* Templates (cmd/templates.go, internal/core/templates.go). Transactional *)
(* ones are kept in memory by the manager: a request writes the row first  *)
(* and the copy after it, with what the form said. Messages made from them *)
(* are in TxMessages.                                                      *)
(*                                                                         *)
(* A template is a body and a subject, each the number of the request that *)
(* wrote it; the body is negative when it uses functions that are only     *)
(* known to campaigns (TemplateFuncs), which GenericTemplateFuncs lacks.   *)
(* Names, which become subjects, hold no template expression here.         *)
(***************************************************************************)
EXTENDS Integers, FiniteSets, Functions

CONSTANTS
    TplRequests,        \* requests at once
    MaxTemplates,       \* bound on templates ever made
    MaxTplWrites        \* bound on forms that are posted

\* There is room for the two that an install makes.
ASSUME TemplatesAssumption == {MaxTemplates, MaxTplWrites} \subseteq Nat /\ MaxTemplates >= 2

VARIABLES
    tpl,                \* templates: id -> [type, body, subject, default]
    cachedTpl,          \* m.tpls: id -> [body, subject]
    campaign,           \* template_id of a campaign, 0 = NULL
    tplReq,             \* requests
    nextTpl, tplWrites, \* ids and forms so far
    \* --- history, read by properties only ---
    superseded,         \* requests after whose statement another one changed the row
    loose,              \* ids whose copy may differ from the row
    unset,              \* a template that cannot be the default was made it
    bare                \* the campaign was given no template

templatesVars == <<tpl, cachedTpl, campaign, tplReq, nextTpl, tplWrites, superseded, loose, unset,
                  bare>>

NoTplReq == [at |-> "idle", id |-> 0]
Blank == 0
NameAsSubject == -1     \* an UPDATE with a blank subject stores the name of the template
CampaignTypes == {"campaign", "campaign_visual"}
TemplateTypes == CampaignTypes \cup {"tx", "optin"}

TplIds == DOMAIN tpl
Content(t) == [body |-> t.body, subject |-> t.subject]
TxIds == {id \in TplIds : tpl[id].type = "tx"}
Default == {id \in TplIds : tpl[id].default}
DefaultOrNone == IF Default = {} THEN {0} ELSE Default

\* Compile with GenericTemplateFuncs.
Compiles(id) == tpl[id].body >= 0

\* initTxTemplates: one that does not compile is left out.
InitTxTemplates == [id \in {i \in TxIds : Compiles(i)} |-> Content(tpl[id])]

\* What an install leaves, or part of it: the default template and a transactional one.
TemplatesInit ==
    /\ tpl = [id \in 1..2 |-> [type |-> IF id = 1 THEN "campaign" ELSE "tx", body |-> 1,
                               subject |-> id - 1, default |-> id = 1]]
    /\ cachedTpl = InitTxTemplates
    /\ campaign = 1
    /\ tplReq = [r \in TplRequests |-> NoTplReq]
    /\ nextTpl = 3 /\ tplWrites = 1 /\ superseded = {} /\ loose = {} /\ unset = FALSE /\ bare = FALSE

TplAt(r, pc) == tplReq[r].at = pc
TplGoto(r, rec) == tplReq' = [tplReq EXCEPT ![r] = rec]

\* Bookkeeping: r changed the row of id. Whoever else is at work on it is superseded, and the
\* copy of a transactional template is behind ...
RowChanged(r, id, type) ==
    /\ superseded' = {o \in TplRequests \ {r} : o \in superseded \/ tplReq[o].id = id}
    /\ loose' = IF type = "tx" THEN loose \cup {id} ELSE loose

\* ... until the last one to change the row is done with the copy.
CopyChanged(r, id, whole) ==
    /\ superseded' = superseded \ {r}
    /\ loose' = IF whole /\ r \notin superseded THEN loose \ {id} ELSE loose \cup {id}

\* A form arrives; o is what it says. A campaign's template has no subject of its own, a
\* transactional one must have one (validateTemplate), and one for opt-ins without is as a
\* visual one. What the functions for the type do not compile is refused.
NewForm(r) == TplAt(r, "idle") /\ tplWrites < MaxTplWrites /\ tplWrites' = tplWrites + 1
Bodies == {"blank", "plain", "for_campaigns"}
Allowed(type, body) ==
    /\ type = "campaign" => body # "blank"      \* it must have the placeholder
    /\ body = "for_campaigns" => type \in CampaignTypes
Form(type, body) ==
    [body |-> CASE body = "blank" -> Blank [] body = "plain" -> tplWrites' [] body = "for_campaigns" -> -tplWrites',
     subject |-> IF type \in CampaignTypes THEN Blank ELSE tplWrites']
Whole(o) == o.body # Blank /\ o.subject # Blank

\* CreateTemplate: the row, ...
CreateTemplate(r, type, body) ==
    LET o == Form(type, body) IN
    /\ NewForm(r) /\ nextTpl <= MaxTemplates /\ Allowed(type, body)
    /\ tpl' = [id \in TplIds \cup {nextTpl} |->
                 IF id = nextTpl THEN [type |-> type, body |-> o.body, subject |-> o.subject, default |-> FALSE]
                 ELSE tpl[id]]
    /\ nextTpl' = nextTpl + 1
    /\ TplGoto(r, [at |-> "read", id |-> nextTpl, o |-> o])
    /\ RowChanged(r, nextTpl, type)
    /\ UNCHANGED <<cachedTpl, campaign, unset, bare>>

\* update-template: what is blank in the form stays as it is; a blank subject is the name.
Stored(t, o) ==
    [t EXCEPT !.body = IF o.body = Blank THEN @ ELSE o.body,
              !.subject = IF o.subject = Blank THEN NameAsSubject ELSE o.subject]

\* UpdateTemplate: the form says what type the template has, and its row knows; ...
UpdateTemplate(r, id, type, body) ==
    LET o == Form(type, body) IN
    /\ NewForm(r) /\ id \in TplIds /\ Allowed(type, body)
    /\ tpl' = [tpl EXCEPT ![id] = Stored(@, o)]
    /\ TplGoto(r, [at |-> "read", id |-> id, o |-> o])
    /\ RowChanged(r, id, tpl[id].type)
    /\ UNCHANGED <<cachedTpl, campaign, nextTpl, unset, bare>>

\* ... then, for both, the row is read again, which fails when it is gone, ...
ReadBack(r) ==
    LET q == tplReq[r] IN
    /\ TplAt(r, "read")
    /\ TplGoto(r, IF q.id \in TxIds THEN [q EXCEPT !.at = "cache"] ELSE NoTplReq)
    /\ superseded' = IF q.id \in TxIds THEN superseded ELSE superseded \ {r}
    /\ UNCHANGED <<tpl, cachedTpl, campaign, nextTpl, tplWrites, loose, unset, bare>>

\* ... or for another reason, and no copy is made.
ReadBackFails(r) ==
    /\ TplAt(r, "read") /\ TplGoto(r, NoTplReq) /\ superseded' = superseded \ {r}
    /\ UNCHANGED <<tpl, cachedTpl, campaign, nextTpl, tplWrites, loose, unset, bare>>

\* ... and a transactional one is copied as the form has it (CacheTpl).
CacheTpl(r) ==
    LET q == tplReq[r] IN
    /\ TplAt(r, "cache")
    /\ cachedTpl' = [id \in DOMAIN cachedTpl \cup {q.id} |-> IF id = q.id THEN q.o ELSE cachedTpl[id]]
    /\ TplGoto(r, NoTplReq)
    /\ CopyChanged(r, q.id, Whole(q.o))
    /\ UNCHANGED <<tpl, campaign, nextTpl, tplWrites, unset, bare>>

\* set-default-template: the others stop being it, whether or not this one can be.
SetDefault(id) ==
    /\ tpl' = [t \in TplIds |-> [tpl[t] EXCEPT !.default = IF t = id THEN @ \/ tpl[t].type = "campaign" ELSE FALSE]]
    /\ unset' = (unset \/ id \notin TplIds \/ tpl[id].type # "campaign")
    /\ UNCHANGED <<cachedTpl, campaign, tplReq, nextTpl, tplWrites, superseded, loose, bare>>

\* DeleteTemplate: never the last nor the default one; its campaigns go to the default ...
DeleteTemplate(r, id) ==
    /\ TplAt(r, "idle") /\ id \in TplIds /\ Cardinality(TplIds) > 1 /\ ~tpl[id].default
    /\ tpl' = Restrict(tpl, TplIds \ {id})
    /\ campaign' \in IF campaign = id THEN DefaultOrNone ELSE {campaign}
    /\ TplGoto(r, [at |-> "delete", id |-> id])
    /\ RowChanged(r, id, tpl[id].type)
    /\ UNCHANGED <<cachedTpl, nextTpl, tplWrites, unset, bare>>

\* Variant: the copy stays.
EvictedNone(id) == cachedTpl

\* ... and then the copy goes (DeleteTpl).
Evicted(id) == Restrict(cachedTpl, DOMAIN cachedTpl \ {id})
DeleteTpl(r) ==
    /\ TplAt(r, "delete")
    /\ cachedTpl' = Evicted(tplReq[r].id)
    /\ TplGoto(r, NoTplReq)
    /\ CopyChanged(r, tplReq[r].id, TRUE)
    /\ UNCHANGED <<tpl, campaign, nextTpl, tplWrites, unset, bare>>

\* A campaign is saved with a template or with none, as one that is made from a visual
\* template is ...
UseTemplate(id) ==
    /\ campaign' = id /\ bare' = (id = 0)
    /\ UNCHANGED <<tpl, cachedTpl, tplReq, nextTpl, tplWrites, superseded, loose, unset>>

\* ... or is made without naming one and has the default.
UseDefault ==
    /\ campaign' \in DefaultOrNone /\ bare' = FALSE
    /\ UNCHANGED <<tpl, cachedTpl, tplReq, nextTpl, tplWrites, superseded, loose, unset>>

\* The process starts again.
RestartTemplates ==
    /\ tplReq' = [r \in TplRequests |-> NoTplReq]
    /\ cachedTpl' = InitTxTemplates /\ superseded' = {} /\ loose' = {}
    /\ UNCHANGED <<tpl, campaign, nextTpl, tplWrites, unset, bare>>

TemplatesNext ==
    \/ \E r \in TplRequests :
          \/ \E type \in TemplateTypes, body \in Bodies :
                \/ CreateTemplate(r, type, body)
                \/ \E id \in TplIds : UpdateTemplate(r, id, type, body)
          \/ ReadBack(r) \/ ReadBackFails(r) \/ CacheTpl(r) \/ DeleteTpl(r)
          \/ \E id \in TplIds : DeleteTemplate(r, id)
    \/ \E id \in 1..MaxTemplates : SetDefault(id)
    \/ \E id \in TplIds \cup {0} : UseTemplate(id)
    \/ UseDefault \/ RestartTemplates

-----------------------------------------------------------------------------
(* What is checked.                                                        *)

TemplatesTypeOK ==
    /\ TplIds \cup DOMAIN cachedTpl \cup loose \subseteq 1..MaxTemplates /\ superseded \subseteq TplRequests
    /\ campaign \in TplIds \cup {0}
    /\ Cardinality(Default) <= 1

\* Transactional messages are made from the template that is stored: there is a copy in
\* memory for every transactional row that compiles for such messages and for no other row,
\* and it is the row. This holds however requests overlap, as soon as the last of them to
\* change the row has made its copy or removed it, until another changes the row, and after
\* every start. The ways to a copy that differs from its row, or that is missing or left
\* over, are these, and the next whole change of the row, or a start, ends them: a request
\* makes its copy after one that changed the row later (two updates, or an update after a
\* deletion); the form leaves the body or the subject blank, or says campaign, which drops
\* the subject; the row is not read back; the row does not compile for such messages, as it
\* was written with a form that said campaign: its copy is used until a start finds none.
\* And a campaign has a template, its own or after a deletion the default, unless it was
\* given none or the default was taken away by naming one that cannot be it
\* (cmd/templates.go:109-212, cmd/init.go:645-658, queries/templates.sql:26-47).
TemplatesCurrent ==
    /\ \A id \in 1..MaxTemplates \ loose :
         /\ id \in DOMAIN cachedTpl <=> id \in TxIds /\ Compiles(id)
         /\ id \in DOMAIN cachedTpl => cachedTpl[id] = Content(tpl[id])
    /\ ~unset => Default # {}
    /\ campaign = 0 => unset \/ bare
=============================================================================
