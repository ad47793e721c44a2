-------------------------------- MODULE Upgrade --------------------------------
(***************************************************************************)
(* Installing and upgrading the database (cmd/install.go, cmd/upgrade.go,  *)
(* cmd/main.go init, internal/migrations), and what a server finds that    *)
(* starts on it.                                                           *)
(*                                                                         *)
(* A migration is its statements: each is atomic, and nothing keeps two    *)
(* processes from running the same ones. What a statement leaves matters   *)
(* in as much as running it again shows: most ask whether it is there      *)
(* already (Once); some add a setting that a later migration takes away,   *)
(* two insert a sample template.                                           *)
(***************************************************************************)
EXTENDS Integers, Sequences, FiniteSets

CONSTANTS
    Processes,          \* patra processes
    OlderReleases,      \* migrations an older database may have, as the number of the last
    MaxStartups,        \* bound on installs and upgrades
    MaxUpgradeFaults    \* bound on failing statements and crashes

Once == [does |-> "once", key |-> "none"]
Sample == [does |-> "sample", key |-> "none"]
AddSetting(k) == [does |-> "add", key |-> k]
DropSetting(k) == [does |-> "drop", key |-> k]

-----------------------------------------------------------------------------
(* internal/migrations: the statements in order.                           *)

V0_4_0 == <<Once>>                                      \* optin, campaign type
V0_7_0 == <<Once, Once, Once>>                          \* blocklisted, settings, media provider
V0_8_0 == <<Once>>
V0_9_0 == <<Once, Once>>
V1_0_0 == <<Once, Once>>
V2_0_0 == <<Once, Once, AddSetting("bounce.count"), Once, Once, Once>>
V2_1_0 == <<Once, Once, Once>>
V2_2_0 == <<Once, Once, Once, Once, Sample>>            \* sample transactional template
V2_3_0 == <<Once, Once, Once, Once>>
V2_4_0 == <<AddSetting("security.enable_captcha")>>
V2_5_0 == <<Once, DropSetting("bounce.count"), Once>>
V3_0_0 == <<Once, Once, Once, Once, Once>>
V4_0_0 == <<Once, Once, Once, Once, Once>>              \* the last two: super admin, if configured
V4_1_0 == <<Once>>
V5_0_0 == <<Once, Once, Once, Once, Once, Once, Sample>>        \* sample visual template
V5_1_0 == <<Once, Once, DropSetting("security.enable_captcha"), Once>>
V6_0_0 == <<AddSetting("security.cors_origins"), Once, Once, Once>>
V6_1_0 == <<Once, Once, Once, Once>>
V6_2_0 == <<Once, Once, Once, Once, [does |-> "rename", key |-> "security.cors_origins"], Once>>
V6_3_0 == <<Once, Once>>                                \* push tokens
V6_4_0 == <<Once>>                                      \* list webhooks
V6_5_0 == <<Once>>
V6_6_0 == <<Once, Once>>                                \* opt-in templates
V6_7_0 == <<Once, Once>>

\* migList
migList == <<V0_4_0, V0_7_0, V0_8_0, V0_9_0, V1_0_0, V2_0_0, V2_1_0, V2_2_0, V2_3_0, V2_4_0,
             V2_5_0, V3_0_0, V4_0_0, V4_1_0, V5_0_0, V5_1_0, V6_0_0, V6_1_0, V6_2_0, V6_3_0,
             V6_4_0, V6_5_0, V6_6_0, V6_7_0>>

Last == Len(migList)
WithSettings == 2       \* v0.7.0 makes the settings table, with its second statement
Statements(n) == {<<m, i>> : m \in 1..n, i \in 1..7} \cap
                 UNION {{m} \X (1..Len(migList[m])) : m \in 1..n}
Everything == Statements(Last)
Does(s) == migList[s[1]][s[2]]
Samples == {s \in Everything : Does(s) = Sample}
Retired == {"bounce.count", "security.enable_captcha", "security.cors_origins"}
\* Retired settings a database has after the first n migrations.
RetiredAfter(n) == {k \in Retired :
    LET touched == {m \in 1..n : \E i \in 1..Len(migList[m]) : migList[m][i].key = k} IN
    \E m \in touched : \A l \in touched : l = m}

ASSUME UpgradeAssumption ==
    /\ OlderReleases \subseteq 1..(Last - 1)
    /\ {MaxStartups, MaxUpgradeFaults} \subseteq Nat

-----------------------------------------------------------------------------

VARIABLES
    tables,             \* there is a schema (checkSchema)
    applied,            \* statements whose effect the schema has
    hasSettings,        \* there is a settings table
    recorded,           \* the last of settings.migrations, 0 if none
    trusted,            \* settings has security.trusted_urls
    retired,            \* settings that a migration was to take away
    copies,             \* of a sample: how often the database has it
    process,            \* [at, mig, stmt, record]
    \* --- history, read by properties and by bounds only ---
    disturbed,          \* "interrupted", "overlapped", "nightly"
    startups, upgradeFaults

upgradeVars == <<tables, applied, hasSettings, recorded, trusted, retired, copies, process,
                 disturbed, startups, upgradeFaults>>

NoProcess == [at |-> "none"]
NoCopies == [s \in Samples |-> 0]

UpgradeInit ==
    /\ tables = FALSE /\ applied = {} /\ hasSettings = FALSE /\ recorded = 0
    /\ trusted = FALSE /\ retired = {} /\ copies = NoCopies
    /\ process = [p \in Processes |-> NoProcess]
    /\ disturbed = {} /\ startups = 0 /\ upgradeFaults = 0

\* The database of an older release, upgraded or installed by it.
OlderDatabase(n) ==
    /\ ~tables /\ \A p \in Processes : process[p] = NoProcess
    /\ tables' = TRUE /\ applied' = Statements(n)
    /\ hasSettings' = (n >= WithSettings) /\ recorded' = (IF n >= WithSettings THEN n ELSE 0)
    /\ retired' = RetiredAfter(n) /\ trusted' = (<<19, 5>> \in Statements(n))
    /\ copies' = [s \in Samples |-> IF s \in Statements(n) THEN 1 ELSE 0]
    /\ UNCHANGED <<process, disturbed, startups, upgradeFaults>>

ProcessAt(p, pc) == process[p].at = pc
ProcessGoto(p, rec) == process' = [process EXCEPT ![p] = rec]
ProcessEnds(p) == ProcessGoto(p, NoProcess)
Changing == {p \in Processes : process[p].at \in {"run", "record", "installed", "samples"}}
Startup(p) ==
    /\ ProcessAt(p, "none") /\ startups < MaxStartups /\ startups' = startups + 1
    /\ UNCHANGED upgradeFaults
\* What another process changes while p does.
Overlap(p) == IF Changing \ {p} # {} THEN {"overlapped"} ELSE {}
Database == <<tables, applied, hasSettings, recorded, trusted, retired, copies>>

-----------------------------------------------------------------------------
(* --install                                                               *)

\* install, installSchema: the schema is made, the one there was is wiped; unless the
\* installation is to be idempotent and there are settings.
InstallSchema(p, idempotent) ==
    /\ Startup(p)
    /\ idempotent => ~hasSettings
    /\ tables' = TRUE /\ applied' = Everything /\ hasSettings' = TRUE /\ recorded' = 0
    /\ trusted' = TRUE /\ retired' = {} /\ copies' = NoCopies
    /\ disturbed' = Overlap(p)
    /\ ProcessGoto(p, [at |-> "installed"])

\* recordMigrationVersion of the last migration
InstallRecord(p) ==
    /\ ProcessAt(p, "installed")
    /\ recorded' = Last
    /\ disturbed' = disturbed \cup Overlap(p)
    /\ ProcessGoto(p, [at |-> "samples"])
    /\ UNCHANGED <<tables, applied, hasSettings, trusted, retired, copies, startups, upgradeFaults>>

\* installTemplates, and the sample list, subscribers and campaign
InstallSamples(p) ==
    /\ ProcessAt(p, "samples")
    /\ copies' = [s \in Samples |-> copies[s] + 1]
    /\ disturbed' = disturbed \cup Overlap(p)
    /\ ProcessEnds(p)
    /\ UNCHANGED <<tables, applied, hasSettings, recorded, trusted, retired, startups, upgradeFaults>>

-----------------------------------------------------------------------------
(* --upgrade, and the start of a nightly build                             *)

\* Variants: the last one again; one is left out.
FirstPendingAgain(n) == IF n = 0 THEN 1 ELSE n
FirstPendingSkips(n) == IF n = 0 THEN 1 ELSE n + 2

\* getPendingMigrations: from the one after the last that is recorded.
FirstPending(n) == n + 1

\* upgrade, as --upgrade (record) or when a nightly build starts.
UpgradeBegin(p, record) ==
    /\ Startup(p) /\ tables
    /\ IF FirstPending(recorded) <= Last
       THEN /\ ProcessGoto(p, [at |-> "run", mig |-> FirstPending(recorded), stmt |-> 1, record |-> record])
            /\ disturbed' = disturbed \cup (IF record THEN {} ELSE {"nightly"})
       ELSE /\ ProcessGoto(p, IF record THEN NoProcess ELSE [at |-> "serving"])
            /\ UNCHANGED disturbed
    /\ UNCHANGED Database

NextMigration(p) ==
    LET q == process[p] IN
    IF q.mig < Last THEN ProcessGoto(p, [q EXCEPT !.at = "run", !.mig = @ + 1, !.stmt = 1])
    ELSE ProcessGoto(p, IF q.record THEN NoProcess ELSE [at |-> "serving"])

\* fn: a statement of the migration
RunStatement(p) ==
    LET q == process[p]
        s == <<q.mig, q.stmt>>
        d == Does(s)
    IN  /\ ProcessAt(p, "run")
        /\ applied' = applied \cup {s}
        /\ hasSettings' = (hasSettings \/ s = <<WithSettings, 2>>)
        /\ copies' = IF d.does = "sample" THEN [copies EXCEPT ![s] = @ + 1] ELSE copies
        /\ retired' = CASE d.does = "add" -> retired \cup {d.key}
                        [] d.does = "drop" \/ (d.does = "rename" /\ ~trusted) -> retired \ {d.key}
                        [] OTHER -> retired
        /\ trusted' = (trusted \/ (d.does = "rename" /\ d.key \in retired))
        /\ disturbed' = disturbed \cup Overlap(p)
        /\ IF q.stmt < Len(migList[q.mig]) THEN ProcessGoto(p, [q EXCEPT !.stmt = @ + 1])
           ELSE IF q.record THEN ProcessGoto(p, [q EXCEPT !.at = "record"])
           ELSE NextMigration(p)
        /\ UNCHANGED <<tables, recorded, startups, upgradeFaults>>

\* recordMigrationVersion appends the version; before v0.7.0 there is no table for it.
RecordVersion(p) ==
    /\ ProcessAt(p, "record")
    /\ recorded' = IF hasSettings THEN process[p].mig ELSE recorded
    /\ disturbed' = disturbed \cup Overlap(p)
    /\ NextMigration(p)
    /\ UNCHANGED <<tables, applied, hasSettings, trusted, retired, copies, startups, upgradeFaults>>

\* A statement fails, or the process is killed: nothing is rolled back.
UpgradeStops(p) ==
    /\ p \in Changing /\ upgradeFaults < MaxUpgradeFaults /\ upgradeFaults' = upgradeFaults + 1
    /\ disturbed' = disturbed \cup {"interrupted"}
    /\ ProcessEnds(p)
    /\ UNCHANGED <<Database, startups>>

-----------------------------------------------------------------------------
(* A release starts: checkUpgrade refuses a database with migrations to run. *)

Serve(p) ==
    /\ ProcessAt(p, "none") /\ tables /\ FirstPending(recorded) > Last
    /\ ProcessGoto(p, [at |-> "serving"])
    /\ UNCHANGED <<Database, disturbed, startups, upgradeFaults>>

StopServing(p) ==
    /\ ProcessAt(p, "serving") /\ ProcessEnds(p)
    /\ UNCHANGED <<Database, disturbed, startups, upgradeFaults>>

UpgradeNext ==
    \/ \E n \in OlderReleases : OlderDatabase(n)
    \/ \E p \in Processes :
          \/ \E b \in BOOLEAN : InstallSchema(p, b) \/ UpgradeBegin(p, b)
          \/ InstallRecord(p) \/ InstallSamples(p)
          \/ RunStatement(p) \/ RecordVersion(p) \/ UpgradeStops(p)
          \/ Serve(p) \/ StopServing(p)

-----------------------------------------------------------------------------
(* What is checked.                                                        *)

UpgradeTypeOK ==
    /\ applied \subseteq Everything /\ recorded \in 0..Last /\ retired \subseteq Retired
    /\ copies \in [Samples -> Nat]
    /\ \A p \in Changing : process[p].at = "run" =>
          process[p].stmt \in 1..Len(migList[process[p].mig])

\* A server serves only on a database that every migration has been run on, whatever
\* upgrades ran at once, stopped half way or ran again; for what is recorded never runs
\* ahead of what was done (cmd/upgrade.go:81-101, 108-163, cmd/install.go:124-137).
ServesOnFullSchema ==
    /\ \A p \in Processes : process[p].at = "serving" => applied = Everything
    /\ Statements(recorded) \subseteq applied

\* Migrations are idempotent as far as one can tell, when no upgrade was stopped half way,
\* no two ran at once and none by a nightly build: once they are through, a database has
\* each sample template once and no setting that was taken away. Otherwise it may have more:
\* a sample template is inserted again, and a setting comes back that its migration leaves
\* when the new name is there (v2.2.0.go:40, v5.0.0.go:90, v6.2.0.go:71-75).
RepeatsOnlyAfterDisturbance ==
    recorded = Last /\ Changing = {} /\ disturbed = {} =>
        retired = {} /\ \A s \in Samples : copies[s] = 1

\* Together: what upgrades leave behind is all there and, undisturbed, is there once.
UpgradesComplete == ServesOnFullSchema /\ RepeatsOnlyAfterDisturbance
=============================================================================
