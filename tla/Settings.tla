-------------------------------- MODULE Settings --------------------------------
(***************************************************************************)
(* Settings: the requests that save them (cmd/settings.go,                 *)
(* internal/core/settings.go), and the reload that makes the process use   *)
(* them (cmd/admin.go, init.go, main.go).                                  *)
(*                                                                         *)
(* The settings are one secret and a version that stands for the rest. A   *)
(* save reads the secret in one statement and writes everything in         *)
(* another. The process has them as they were when it started.             *)
(***************************************************************************)
EXTENDS Integers, FiniteSets

CONSTANTS
    SettingsRequests,   \* requests, with the goroutines they leave behind, at once
    PipedCampaigns,     \* campaigns that can have a pipe
    MaxSaves,           \* bound on requests
    MaxStarts           \* bound on campaigns that start

ASSUME SettingsAssumption == IsFiniteSet(PipedCampaigns) /\ {MaxSaves, MaxStarts} \subseteq Nat

VARIABLES
    stored, loaded,     \* settings in the table, and in ko: [secret, rest]
    needsRestart,       \* app.needsRestart
    saving,             \* requests and their reload goroutines
    chReload,           \* signals in it; there is room for one
    closing,            \* awaitReload: "no", "http" or "db" once these are closed
    running,            \* campaigns with a pipe (HasRunningCampaigns)
    \* --- history, read by properties and by bounds only ---
    given,              \* the secret somebody gave last
    undone,             \* a save put back a secret it had read before another was saved
    saves, starts

settingsVars == <<stored, loaded, needsRestart, saving, chReload, closing, running, given, undone,
                  saves, starts>>

Nobody == [at |-> "idle"]
FirstSettings == [secret |-> 1, rest |-> 1]

SettingsInit ==
    /\ stored = FirstSettings /\ loaded = FirstSettings
    /\ needsRestart = FALSE /\ chReload = 0 /\ closing = "no"
    /\ saving = [r \in SettingsRequests |-> Nobody]
    /\ running = {} /\ given = 1 /\ undone = FALSE /\ saves = 0 /\ starts = 0

SavingAt(r, pc) == saving[r].at = pc
SavingGoto(r, rec) == saving' = [saving EXCEPT ![r] = rec]
Process == <<loaded, needsRestart, chReload, closing, running, starts>>

\* A request arrives while the HTTP server is open.
NewRequest(r) == SavingAt(r, "idle") /\ closing = "no" /\ saves < MaxSaves /\ saves' = saves + 1

\* UpdateSettings: reads the settings; the secret is blank in the form unless it is changed ...
ReadSettings(r, blank) ==
    /\ NewRequest(r)
    /\ SavingGoto(r, [at |-> "save", cur |-> stored.secret, secret |-> IF blank THEN 0 ELSE saves' + 1,
                      rest |-> saves' + 1])
    /\ UNCHANGED <<stored, Process, given, undone>>

\* Variant: a blank secret is stored.
SecretBlank(q) == q.secret

\* A blank secret is the one there was.
Secret(q) == IF q.secret = 0 THEN q.cur ELSE q.secret

\* ... and writes them all ...
SaveSettings(r) ==
    LET q == saving[r] IN
    /\ SavingAt(r, "save")
    /\ IF closing = "db"
       THEN SavingGoto(r, Nobody) /\ UNCHANGED <<stored, given, undone>>
       ELSE /\ stored' = [secret |-> Secret(q), rest |-> q.rest]
            /\ given' = IF q.secret = 0 THEN given ELSE q.secret
            /\ undone' = (undone \/ (q.secret = 0 /\ q.cur # stored.secret))
            /\ SavingGoto(r, [at |-> "saved"])
    /\ UNCHANGED <<Process, saves>>

\* ... or does not: what the form says is refused, or the statement fails.
SaveRefused(r) ==
    /\ SavingAt(r, "save") /\ SavingGoto(r, Nobody)
    /\ UNCHANGED <<stored, Process, given, undone, saves>>

\* UpdateSettingsByKey: one setting, as it is sent.
UpdateSettingsByKey(r, secret) ==
    /\ NewRequest(r)
    /\ stored' = IF secret THEN [stored EXCEPT !.secret = saves' + 1] ELSE [stored EXCEPT !.rest = saves' + 1]
    /\ given' = IF secret THEN saves' + 1 ELSE given
    /\ SavingGoto(r, [at |-> "saved"])
    /\ UNCHANGED <<Process, undone>>

\* HasRunningCampaigns
RunningPipes == running

\* handleSettingsRestart: asks the manager; a goroutine waits 500 ms when no campaign runs ...
SettingsRestart(r) ==
    /\ SavingAt(r, "saved")
    /\ IF RunningPipes # {} THEN SavingGoto(r, [at |-> "warn"])
       ELSE SavingGoto(r, [at |-> "timer"])
    /\ UNCHANGED <<stored, Process, given, undone, saves>>

\* ... and when one does the restart is left to the user.
NeedsRestart(r) ==
    /\ SavingAt(r, "warn")
    /\ needsRestart' = TRUE /\ SavingGoto(r, Nobody)
    /\ UNCHANGED <<stored, loaded, chReload, closing, running, starts, given, undone, saves>>

\* ReloadApp: whatever runs.
ReloadApp(r) ==
    /\ NewRequest(r)
    /\ SavingGoto(r, [at |-> "timer"])
    /\ UNCHANGED <<stored, Process, given, undone>>

\* The 500 ms are over: the goroutine sends the signal, when there is room for it.
SendReload(r) ==
    /\ SavingAt(r, "timer") /\ chReload = 0
    /\ chReload' = 1
    /\ SavingGoto(r, Nobody)
    /\ UNCHANGED <<stored, loaded, needsRestart, closing, running, starts, given, undone, saves>>

\* awaitReload takes the signal, although a campaign may have started since the manager was
\* asked, and starts the closer: the HTTP server first ...
BeginReload ==
    /\ chReload # 0 /\ closing = "no"
    /\ chReload' = 0 /\ closing' = "http"
    /\ UNCHANGED <<stored, loaded, needsRestart, saving, running, starts, given, undone, saves>>

\* ... the manager and the database after it, at the latest a second later.
CloseDB ==
    /\ closing = "http" /\ closing' = "db"
    /\ UNCHANGED <<stored, loaded, needsRestart, saving, chReload, running, starts, given, undone, saves>>

\* The closer is through, or three seconds are over: the process starts again and loads the
\* settings (init, initSettings). So it does after a crash.
Respawn ==
    /\ \/ closing # "no" \/ starts < MaxStarts
    /\ loaded' = stored /\ needsRestart' = FALSE /\ closing' = "no" /\ chReload' = 0
    /\ saving' = [r \in SettingsRequests |-> Nobody]
    /\ running' = {}
    /\ starts' = IF closing = "no" THEN starts + 1 ELSE starts
    /\ UNCHANGED <<stored, given, undone, saves>>

\* The scanner makes a pipe for a campaign; a pipe ends.
CampaignStarts(k) ==
    /\ closing # "db" /\ k \notin running /\ starts < MaxStarts /\ starts' = starts + 1
    /\ running' = running \cup {k}
    /\ UNCHANGED <<stored, loaded, needsRestart, saving, chReload, closing, given, undone, saves>>

CampaignEnds(k) ==
    /\ running' = running \ {k} /\ k \in running
    /\ UNCHANGED <<stored, loaded, needsRestart, saving, chReload, closing, given, undone, saves, starts>>

SettingsNext ==
    \/ \E r \in SettingsRequests :
          \/ \E b \in BOOLEAN : ReadSettings(r, b) \/ UpdateSettingsByKey(r, b)
          \/ SaveSettings(r) \/ SaveRefused(r) \/ SettingsRestart(r) \/ NeedsRestart(r)
          \/ ReloadApp(r) \/ SendReload(r)
    \/ BeginReload \/ CloseDB \/ Respawn
    \/ \E k \in PipedCampaigns : CampaignStarts(k) \/ CampaignEnds(k)

-----------------------------------------------------------------------------
(* What is checked.                                                        *)

SettingsTypeOK ==
    /\ chReload \in 0..1 /\ closing \in {"no", "http", "db"} /\ running \subseteq PipedCampaigns
    /\ \A s \in {stored, loaded} : s.secret \in 0..(MaxSaves + 1) /\ s.rest \in 1..(MaxSaves + 1)

\* A setting that was saved holds. The secret is the one given last, unless a save that left
\* it blank had read the settings before another changed it. And the process uses what is
\* stored, or the user is told that it needs a restart, or a restart is on its way: a save
\* is about to ask for it, its 500 ms run, the signal waits, or the closer is at work
\* (cmd/settings.go:95-99, 143-150, 313-364, init.go:1073-1103).
SavedSettingsHold ==
    /\ stored.secret # given => undone
    /\ loaded # stored =>
         \/ needsRestart \/ chReload # 0 \/ closing # "no"
         \/ \E r \in SettingsRequests : saving[r].at \in {"saved", "warn", "timer"}
=============================================================================
