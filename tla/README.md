# Formal models of Patra

Patra (the repository is named Omnipost) is a self-hosted newsletter and mailing
list manager: a Go server on Postgres, a fork of listmonk. This directory holds
TLA+ models of its core, TLC configurations that check them, and proofs that TLAPS
checks. Every definition is translated from the source; `PROJECT.json` maps each
one to the lines it stands for.

## 1. The system

| Part | State | Operations | Meets others through |
|---|---|---|---|
| Campaign manager (`internal/manager`) | `m.pipes`, `nextPipes` (1000), `campMsgQ`, `msgQ`; per pipe a WaitGroup, sent, lastID, errors, stopped, withErrors | scan, start a pipe, fetch a batch, queue, send, count, clean up, stop | campaign rows, messengers, HTTP handlers |
| Campaign rows (`queries/campaigns.sql`) | status, send_at, last/max_subscriber_id, sent, to_send | next-campaigns, next-campaign-subscribers, update-* | everything about campaigns |
| Campaign handlers (`cmd/campaigns.go`, `internal/core/campaigns.go`) | none | status change, edit, delete, test | rows, `StopCampaign`, `PushCampaignMessage` |
| Importer (`internal/subimporter`, `cmd/import.go`) | status, stop channel (1), a session's queue (10000), open transaction | new session, load CSV, commit batches, stop | subscribers table |
| Temporary tokens, login, 2FA, reset (`internal/tmptokens`, `cmd/auth.go`) | token map with TTL and tries, `needsUserSetup` | set, check, get, delete, clean; verify | users, sessions |
| Sessions and API users (`internal/auth`, `cmd/users.go`) | session rows, cache of API users | save, prune, cache all, cache one | users table |
| Subscriptions and public pages (`cmd/public.go`, `internal/core/subscri*.go`) | subscribers.status, subscriber_lists.status | subscribe, confirm, unsubscribe, preferences, blocklist | campaigns' audience, confirm webhooks, bounces |
| Bounces (`internal/bounce`, `queries/bounces.sql`) | queue (1000), bounces table | record, act at the threshold | subscribers |
| Confirm webhooks (`internal/webhooks`, `cmd/confirm_webhook.go`) | goroutines only | dispatch, retry | confirmations |
| Events and log buffer (`internal/events`, `internal/buflog`) | a channel (100) per subscriber, a ring of lines | subscribe, publish, write | browser event stream |
| Settings and reload (`cmd/settings.go`, `cmd/init.go`) | settings rows, `needsRestart`, signal channel (1) | save, reload, respawn | manager (`HasRunningCampaigns`) |
| Push notifications (`cmd/push.go`, `internal/push`) | device tokens | register, multicast, deactivate | FCM |
| Templates and transactional messages (`cmd/templates.go`, `cmd/tx.go`) | templates, `m.tpls` in memory | create, update, set default, delete; send to recipients | campaigns, manager's queue |
| Media (`cmd/media.go`, `internal/media`) | rows, files of a directory | upload, delete | campaigns' attachments |
| Install and upgrade (`cmd/install.go`, `cmd/upgrade.go`, `internal/migrations`) | the schema, recorded versions | install, migrate, check at the start | everything |
| Archive, dashboard, analytics | rows | read, delete old rows | database only |
| Messengers, bounce parsers, captcha, i18n, frontend | none worth modelling | I/O and data | |

What is hard, and why the campaign manager comes first: one scanner goroutine, one
Run goroutine, a pool of workers and one goroutine per live campaign share atomics,
channels and a map, and all of them share database rows with HTTP handlers that
check first and write later. Nothing is transactional across two statements, the
process may be replaced at any moment by a settings change, and what goes wrong is
mail sent twice, not at all, or after the user pressed "cancel". The repository has no
test for any of it.

What makes each part correct:

* **manager**: WaitGroup accounting, cleanup only when drained, one pipe per campaign,
  checkpoint never ahead of what was fetched, no message after a stop but those in
  hand, every running campaign settles;
* **rows and handlers**: the documented status transitions;
* **importer**: a session that nobody stopped has committed every valid row once, the count
  shown is what is stored, a stop ends one session, no session and no request hangs (the ways in
  which they do are in section 3);
* **accounts**: the last super admin is not lost; the cache of API users is the table; setup
  happens once;
* **logins**: a 2FA token passes no more checks than it has tries; a changed password
  ends the sessions there were;
* **audience**: whoever opted out stays out, and a confirmation needs a click, through every
  write of a row that was read earlier; a confirmation is reported (as long as the attempts last);
* **bounces**: a bounced mail counts once, and the action happens at the threshold;
* **events**: an error is shown to every browser with room for it;
* **settings**: what was saved is stored, and used or announced; a reload waits for running campaigns
  (not for one that starts after the question);
* **upgrade**: a server meets a database on which every migration has been run;
* **templates, media**: what is in memory or on disk is what the rows say;
* **transactional messages, push notifications**: an answer without an error means that everyone it does
  not name was reached; a recipient gets what was rendered for it (its body only); rejected tokens are
  deactivated (when nothing fails on the way).

The hazards this code is exposed to, each at its line, are in `PROJECT.json`.

## 2. What is modelled

### `CampaignManager` - the engine

| Model | Code |
|---|---|
| `status, timed, due, last, maxID, sentDB` | columns of `campaigns`: status, send_at set / passed, last_subscriber_id, max_subscriber_id, sent |
| `audience[c]` | the subscribers `next-campaign-subscribers` would accept now |
| `pipes, nextPipes, campMsgQ` | fields of `Manager` |
| `camp, wg, sent, lastID, errors, stopped, withErrors` | fields of `pipe` |
| `stage[p]` | where the goroutine started by `newPipe` is: waiting (`open`), in `cleanup`, gone |
| `runPc, runPipe, runFrom, runTo, runBatch` | locals of `Run` and `NextSubscribers` |
| `scanPc, scanIds, scanTodo, scanCur, scanCount, scanList` | locals of `scanCampaigns` and `getCurrentCampaigns` |
| `wpc, wmsg` | a worker's position and message |
| `reqPc, reqCamp, reqTo` | a status or edit request between its check and its write |
| `delivered, failed, late, disturbed, used` | history, read by properties only |

| Goroutine | Actions, in code order |
|---|---|
| `scanCampaigns` | `ScanTick`, (`ScanLoad`, `ScanReset`) per live pipe, `ScanQuery` or `ScanQueryFails`, then `ScanRefuse` or `ScanStart` per campaign |
| `Run` | `RunPop` (first statement), `RunFetch` (second) or `RunFetchFails`, (`RunNewMessage`, `RunSend`) or `RunRenderFails` per subscriber, `RunRequeue` |
| `worker` | `WorkerTake`, `WorkerCheck`, `WorkerPush`, `WorkerDone`, then `WorkerOnError` or `WorkerLoad`, `WorkerStore`, `WorkerAdd` |
| a pipe's goroutine | `CleanupCounts`, `CleanupCheckErrors`, `CleanupCheckStopped`, `CleanupLoad`, `CleanupWrite`, `CleanupRemove` |
| HTTP requests | `StatusCheck`, `StatusWrite`, `StatusStop`; `EditCheck`, `EditWrite`; `Delete`; `TestMessage` |
| the rest of the world | `Churn`, `SendAtPasses`, `Restart` |

One SQL statement is one step; one atomic load, store or channel operation is one step
wherever another goroutine can see the difference. Merged into one step, because
nobody can: `Stop` (its two stores are made in the order in which cleanup reads them),
and `newPipe` with the push that follows (the pipe's goroutine waits until that push
or its failure). The read lock of `getCurrentCampaigns` is a guard of `CleanupRemove`.

Abstracted: a subscriber is an id, a message is (pipe, campaign, subscriber);
rendering and sending succeed or fail; message-rate pauses and the sliding window only
take time; identities of pipe objects are reused when nothing refers to them. Not in the
model: `msgQ` (transactional mail passes through the workers and touches no
campaign state), links, templates, statistics, notifications. `Churn` stands for all
statements that change who is eligible.

Definitions marked "variant" are the plausible bugs the properties are tried against;
nothing uses them in the model.

### `PipeLifetime` - the abstract specification

A pipe is open, closed or ended; while open it takes on messages, each is settled
once, and it ends only closed with nothing left. There is no counter in it. The property
`PipesDrain` says that the manager's queues, hands and WaitGroup implement it under
the mapping `Phase` / `PendingSubs`.

### `MCCampaignManager` and the configurations

Adds symmetry (pipe objects, workers) and a view that forgets what is left in
garbage pipe objects. Liveness is checked without either.

### `Importer` - bulk import

| Model | Code |
|---|---|
| `status, imported, hasLog` | `im.status`: Status, Imported, whether `logBuf` is set |
| `stop` | a signal in `im.stop`, a channel of one |
| `jammed` | a reader and a writer of `im.RWMutex` wait for each other |
| `file, loader, pos` | the upload, where `ExtractZIP`/`LoadCSV` are, rows read |
| `queue, closed` | `s.subQueue` and whether it is closed |
| `committer, tx, torn` | where `Start` is, the open transaction's rows (as many as `cur`), whether it was rolled back |
| `committed` | what of the session's rows the database keeps |
| `request, upload` | an upload or stop request under way |
| `latest, troubled, disturbed, stopped` | history, read by properties only |

| Who | Actions, in code order |
|---|---|
| upload request | `Upload`, `NewSessionCheck`, `NewSessionSet`, `NewSessionStart` |
| stop request | `StopRequest`, then `StopReset`, or `StopSignal` and `StopStatus` |
| loader | `ExtractZIP`, `LoadStart`, `LoadOpen`, per row `LoadLoop`, `LoadRow`, `LoadSend`; `LoadEOF` or `LoadFail` |
| committer | per row `Insert`, `BeginFails` or `InsertFails`; `Commit`, `Count` per batch; `QueueClosed`, `LastCommit`, `Count`, `Finish` |

Every section under the Importer's lock is one step. `isDone` is the exception: it takes the
read lock twice, and `sync.RWMutex` does not let a second read lock pass a waiting
writer. If no writer asks in between, the two act as one atomic read; if one does, both wait
for ever, and everybody who needs the lock after them. That outcome is the action `Jam`,
possible whenever somebody is at `isDone` and somebody else at a write; from then on
steps under the lock are disabled and the others go on.

A row is one to import, one to skip (wrong number of columns, invalid fields) or one at which
the CSV reader fails; what makes a row valid is not modelled. An empty sequence of rows
stands for the files refused before their first row. Sessions that lose a goroutine (a
committer at a queue nobody closes, a loader at a full queue nobody empties) are
`Stranded`: they stay in the state, and the properties say what they cannot do.

### `Audience` - subscribers, lists, subscriptions

| Model | Code |
|---|---|
| `status, rowId` | `subscribers.status`; how many rows an address has had (a new row has a new id and UUID) |
| `subscription` | `subscriber_lists.status`, by address and list |
| `list` | type and opt-in of `lists`, or deleted |
| `bounces` | rows of `bounces`, counted by subscriber and type |
| `request` | requests of several statements: where they are, what they read |
| `links` | opt-in links mailed so far |
| `optedOut, consent` | history: unsubscribed and not asked back since; confirmed by a click or an administrator |

| Request | Actions, in code order |
|---|---|
| subscription form | `FormPost`, `FormInsert`, then `Lookup`, `FormMerge` for an address that is taken; `SendMail` |
| preferences page | `PrefsRead`, `PrefsWrite`, `PrefsSubscriptions`, `PrefsUnsubscribe`; or `Unsubscribe`, `Wipe` |
| opt-in page | `OptinOpen`, `OptinConfirm` |
| administrator, one subscriber | `Create` or `Edit`, then `SendMail`; `PatchRead`, `PatchWrite`, `SendMail`; `SendOptinAgain` |
| administrator, many | `Delete`, `Blocklist`, `Add`, `AddByQuery`, `Remove`, `UnsubscribeLists`, `DeleteBounces`, `BlocklistBounced` |
| lists, maintenance | `EditList`, `DeleteLists`; `DeleteOrphans`, `DeleteBlocklisted`, `DeleteUnconfirmed` |

The SQL that several requests share is an operator each (`InsertRow`, `UpdateRow`, `BlocklistRows`,
`UnsubscribeRows`, `DeleteRows`, `RemoveRows`). `Merged` is the status that
`update-subscriber-with-lists` gives a subscription, the rule that keeps opt-outs.
`disabled` is a status like `enabled` to every statement here; the run chooses from
`enabled` and `blocklisted` (`EditStatuses`).

### `Bounces` - the bounce manager

`Audience` plus `mailbox` (the POP server), `queue` (`m.queue`) and `scan` (the scanner's loop).
`ScanStart`, `Download`, `DeleteMails` are the scanner, `Record` a webhook, `Take` one round of `Run` with
the whole of `record-bounce`, `Restart` a crash or reload. A mail names the row it was sent to by UUID, a
webhook a row or an address. `MCBounces` adds the lists and the bounce actions.

### `Services` - ten components that share no state

`Services` EXTENDS the ten modules below. None of them reads what another writes, so an interleaving
of two of them shows nothing that each alone does not: `part`, chosen in `Init`, says which one a
behaviour is of. `MCServices` names the instance.

| Module | State | Who does what, in code order |
|---|---|---|
| `Accounts` | rows of `users` with a version, `apiCache`, `needsUserSetup`, `legacyCached` | `CreateUser`; `UpdateBegin`, `UpdateWrite`; `DeleteBegin`, `DeleteWrite`; `UpdateRole`, `DeleteRole`, each followed by `ReadUsers`, `StoreUsers` (`cacheUsers`) or `RefreshFails`; `UpdateUserProfile`, `CreateOIDCUser`; setup: `SetupOpen`, `SetupCreate` or `SetupRefused`, `SetupLogin`, `SetupClear` |
| `Logins` | one account, `token` (tmptokens), `sessions` | `Login` or `OIDCFinish`, `IssueToken`, `TwofaPage`, `Verify`, `ConsumeToken`, `SaveSession`; `ChangePassword`, `SetPassword`, then `PurgeSessions`; `TOTPCheck`, `TOTPWrite`; `ExpireToken`, `Logout` |
| `Settings` | `stored`, `loaded`, `needsRestart`, `chReload`, `closing` | `ReadSettings`, `SaveSettings` or `SaveRefused`, or `UpdateSettingsByKey`; `SettingsRestart`, `NeedsRestart`; `SendReload`, `BeginReload`, `CloseDB`, `Respawn`; `ReloadApp` |
| `ConfirmWebhooks` | subscriptions, targets of lists and environment, goroutines (`delivery`) | `OptinPage`, `Confirm`, `LoadSubscriber`, `LoadHooks`, `Attempt` until it arrives or `MaxRetries` are over |
| `EventStream` | `subs` with a channel each, the ring `log` | `Subscribe`, `TakeEvent`, `WriteEvent`, `Unsubscribe`; `LogLine` (buffer, then `Publish`) |
| `Upgrade` | which statements of the 24 migrations a database has, what is recorded | `InstallSchema`, `InstallRecord`, `InstallSamples`; `UpgradeBegin`, `RunStatement`, `RecordVersion`; `Serve`; `UpgradeStops` anywhere |
| `Templates` | `tpl` (rows), `cachedTpl` (`m.tpls`), a campaign's `template_id` | `CreateTemplate` or `UpdateTemplate`, `ReadBack`, `CacheTpl`; `SetDefault`; `DeleteTemplate`, `DeleteTpl` |
| `TxMessages` | `txReq` | `SendTx`, then per recipient `NotFoundNext` or `PushMessage`; `TxFails`, `TxEnds` |
| `Media` | `files`, `media` (rows) | `UploadMedia`, `PutFile`, `PutThumb`, `InsertMedia`, `ReadMedia`, or a failure and `CleanUp`; `DeleteMedia`, `Unlink`, `UnlinkThumb` |
| `PushTokens` | `pushToken` (rows) | `SavePushToken`, `DeletePushToken`; `SendTestPush`, per token `SendAccepted`, `SendRejected` or `SendFails`; `SendEnds`, `DeactivatePushToken`, `PushAnswer` |

What these take on: a user's, a template's or a settings form's contents are a version number; in
`Accounts` a statement that counts the other super admins begins and writes in two steps, because under
READ COMMITTED it counts rows as they were when it began; in `Upgrade` a statement is known by whether it is
there and by what running it again adds; in `Media` a name is its kind, its `thumb_` prefixes and its random
suffix; in `Templates` a body is one that any message can use, or one that needs the functions of campaigns
(negative), and names hold no template expression; in `TxMessages` what is rendered for a recipient is its number, and a
message has a subject and an alternative body with expressions in them, which do not render to nothing; the services outside (POP, FCM, the webhook's receiver) answer anything at any
time.


## 3. Runs

Bounds common to the manager's: `MsgCap` 2 and `NextCap` 1, so that both queues fill up and the
full-queue paths are taken (in the code 1000 and 2 x concurrency x rate). `Outside`
names the kinds of outside events and `MaxEvents` how many happen in a behaviour.

| Run | Instance | Checks | Result |
|---|---|---|---|
| `manager_one` | 1 campaign, 2 subscribers, 2 workers, batch 1, 3 pipe objects, any 1 event of all kinds | `WaitGroupExact`, `CleanupAfterDrain`, `OnePipePerCampaign`, `CheckpointNotSkipped`, `QuietWithoutPipes`, `PipesDrain` | hold |
| `manager_queue` | 2 campaigns, 1 subscriber, `nextPipes` of 1, no events | `WaitGroupExact`, `TypeOK` | hold |
| `manager_batches` | 3 campaigns (scheduled, no messenger, broken), 4 subscribers, batch 3, 1 request, edit, test or failing send | `FetchedOnceInOrder`, `UndisturbedExactlyOnce`, `FewLateMessages` | hold |
| `manager_live` | 1 scheduled campaign, 2 subscribers, 1 request, edit, deletion, test, failing send, fault or crash, fairness | `EveryPipeEnds`, `RunningSettles` | hold |
| `manager_threshold` | 1 campaign, batch of 2, one failing send, threshold 1 | `ThresholdPauses` | violated |
| `manager_resume` | 1 campaign, 2 requests (pause, resume) | `FinishedTriedAll` | violated |
| `manager_cancel` | 1 campaign, a failing send and a cancel, fairness | `PausedOnlyFromRunning` | violated |
| `importer` | 2 requests, 2 sessions, batches and queue of 2; files of 3 rows, of a skipped and a valid row (zipped), of a row and a failing one; 2 stops, 1 database error | `TypeOK`, `CommittedOnceInOrder`, `EndedHasAll`, `ShownIsStored`, `StopsOneAtMost` | hold |
| `importer_live` | 1 request at a time, 2 sessions; files of 4 rows, of a row and a failing one (zipped), empty; 2 stops, 1 error, fairness | `EverySessionEnds`, `ImportingPasses` | hold |
| `importer_jam` | 2 requests, a file of one row, 1 stop, fairness | `StopReturns` | violated |
| `audience` | 1 subscriber, a public double opt-in list and a private single one; 2 requests at once, 3 inputs, 1 fault; bounce queue of 1, scans of 2; hard bounces blocklist at 2, a complaint unsubscribes at 1, soft ones delete at 2 | `TypeOK`, `OptOutKept`, `ConfirmedHasConsent`, `ConfirmationKept`, `BlocklistingLiftedByStaleOnly`, `MailsCounted`, `CountActs` | hold |
| `services` | ten services, see below | `TypeOK`, `SuperAdminKept`, `CacheFresh`, `SetupEnds`, `OldSessionsEnd`, `TokenEnds`, `SavedSettingsHold`, `ConfirmationReported`, `MissedOnlyWhenFull`, `UpgradesComplete`, `CopiesFollowRows`, `FanOutsAnswered` | hold |

Why the bounds are enough to be interesting: with one campaign and batches of one, every
batch is a new round through `nextPipes`, both workers can hold a message of the
same pipe (so `lastID` races), and a pipe can end and be replaced while the scanner is
half way. Two campaigns are the least that can fill a queue of one. Four subscribers
in batches of three give a full batch, a short one and an empty one. For the importer, three
rows are a full batch and a rest, four are one more than queue and committer can hold, so that
a loader whose committer is gone blocks; two requests are enough for two uploads to
pass the check together, and two stops for the second to reset the status of a session that is
stopping.

In `audience` one subscriber is enough because no statement relates two subscribers except in bulk, where each
is treated alone; two lists are the least that tell "the lists named" from "all", and one of each kind the
least in which opt-in and privacy differ. Three inputs allow what the properties are about: somebody is
subscribed, opts out or is blocklisted, while a third request that read before writes after. A
bounce queue of one and scans of two make the scanner find it full and a mail arrive in a scan.

`services` bounds each part on its own: two requests (clicks, browsers, processes) at once, which are
interchangeable (`Symmetry`), and one fault or restart each. Accounts: 2 rows, 4 changes, the edits of
`TestEdits`, a legacy admin from the TOML file and none in the environment. Logins: 1 token with 2 tries (15 in
the code), 2 passwords, so one change (the theorem covers any number), 3 logins. Settings: 3 saves, 1 campaign with a pipe, 2 starts. Webhooks: 2 lists, 1 retry (3 in the
code), an environment with no webhook and one with a target, 2 events around the clicks. Stream: channels and
buffer of 2, 4 lines. Upgrade: all 24 migrations, from nothing or after the first or the 15th (so that retired
settings and samples are on either side), 2 startups. Templates: 3 templates, 2 forms after the
installed ones, each of any type and with a blank body, a plain one or one for campaigns. Transactional: 3 recipients (a first, one in between, a last). Media: 2 uploads of each kind of file.
Push: 2 tokens. `View` leaves the parts out that a behaviour is not of, which stay as they begin.

The same property is expected to catch a mutated model (`mutants` in
`PROJECT.json`), e.g. a give-up path that releases twice, a checkpoint query with `>=`,
a worker that marks a message done before sending it.

### What the violations show

* **threshold**: the worker calls `wg.Done()` before `OnError()`. If the failed message is the
  last outstanding one, cleanup reads `withErrors` too early and finishes a campaign
  that should have been paused.
* **resume**: a pause is written, Run therefore lets the pipe go, cleanup looks at `stopped`
  before `StopCampaign` sets it, a resume is written, and cleanup's re-read of the
  status sees "running" and writes "finished". Nobody is sent the rest of the campaign.
* **cancel**: cleanup writes "paused" over whatever is there. A cancelled campaign becomes a
  paused one that can be resumed.

* **jam**: the loader of a fresh session is in `isDone`, a stop request found no import
  a moment before and asks for the write lock to clear the status. The loader's second read lock
  waits for the writer, the writer for the loader's first. The importer answers no request
  again until the process is restarted. `LoadCSV`, `ExtractZIP` and `NewSession` all
  pass through `isDone`, and requests, loader and committer all write.

### What the properties name instead

The four runs above show disagreements with a promise as counterexamples. These others the models reach too; the
properties that hold name each of them as an exception, or state it as it is, so that nothing else passes for one:

| The code says | The code does | Named in |
|---|---|---|
| `importer.go:271-273`: `Start` blocks "until all subscriber entries in the import session are imported" | two stop requests before the loader has looked: the second resets the status, `LoadCSV` (457-459) or `ExtractZIP` (375-377) returns without closing the queue, and `Start` waits at it for ever, with file and database in order | `EverySessionEnds` (`TurnedAway`) |
| `webhooks.go:3`: "Deliveries are at-least-once" | after `MaxRetries` + 1 attempts a report is given up and only logged; a click that cannot load the subscriber or the hooks (`confirm_webhook.go:30-33`, `62-66`), or whose process ends, reports nothing | `ConfirmationReported` (`CutOff`) |
| `settings.go:345-346`: with active campaigns "don't do an auto reload" | the manager is asked once, the signal comes half a second later and `awaitReload` asks nobody: a campaign that started meanwhile is cut off | the step `BeginReload` (no property calls it wrong) |
| `media.go:58`: a filename that exists in the database is made unique | two uploads of a name ask before either has its row, or the question fails: two rows share a name and a file | `CopiesFollowRows` (`crossed`) |
| `templating.md:18-24`: template expressions in subject and alternative body of a transactional message | `Render` overwrites both in the message (`messages.go:101`, `130`): the other recipients get those of the first | `FanOutsAnswered` |
| `push.go:153-155`: rejected tokens are marked inactive | when a later send fails for another reason the handler returns first (`push.go:209-213`) and they stay active | `FanOutsAnswered` |
| `upgrade.go:19`, `27`: migrations are idempotent | running one again repeats its sample template and can bring a retired setting back | `UpgradesComplete` |

Further behaviour the importer's model reaches, which the code nowhere promises to avoid: two
uploads pass `NewSession`'s check together, or a second stop resets the status of a session
that is still stopping, and two sessions share the status, the count and the stop
channel; a stop that comes after the loader's last look leaves "stopping" behind after
"finished", and its signal ends the next import at its first row; a failed commit or
`Begin` loses rows of a session that is then reported finished. `EndedHasAll` and
`ShownIsStored` name these exceptions (`troubled`, `stopped`, `disturbed`) and say that
there are no others.

Behaviour of the audience and the services that their properties name as exceptions, since the code
has it, with no promise to the contrary:

* audience: a form, a preferences page or a partial update that read a row before it was blocklisted
  writes the old status back (`BlocklistingLiftedByStaleOnly` says that nothing else does);
* accounts: two requests that each count the other super admin can both go ahead; an update to an API user
  is not refused for the last super admin; deleting a list role deletes its users by ON DELETE CASCADE
  (`schema.sql:382`); the TOML admin's cache entry is gone after the first refresh
  (`init.go:1201-1221`, `auth.go:120-128`); an API user that edits its own profile is not refreshed;
  a setup whose login fails leaves the setup page open until a restart. Role id 1 is the super admin's
  (`cmd/roles.go:76`) only if setup comes before any role is made;
* logins: a 2FA token given before a password change still gives a session after it;
* settings: `UpdateSettingsByKey` stores a blank secret as it is sent; a reload that the user asks for
  (`ReloadApp`) cuts off whatever runs;
* opt-in page, webhooks: a list that is named in the request and was not unconfirmed, one unsubscribed from in
  between included, is confirmed with the others and not reported: the click counts as consent to all of
  them, here as in the code; a click that cannot load the subscriber or the hooks reports nothing; what is being
  delivered when the process ends is gone;
* stream: a browser with room misses an error when another's channel is full;
* upgrade: `--install --idempotent` takes a database from before v0.7.0, which has no
  settings table, for an empty one and wipes it;
* templates: an update with a blank subject stores the template's name as its subject
  (`queries/templates.sql:17`) while the copy in memory gets the blank one, and one with a blank body keeps the
  row's and blanks the copy's; copies are made in the order in which requests get there, not in that of the rows; an
  update of a transactional template whose form says `campaign` or `campaign_visual` is compiled with the functions
  of campaigns (`cmd/templates.go:161-169`): a body that needs them is stored and copied, and at the next start it does
  not compile and there is no copy (`cmd/init.go:654-657`); making a default of a template that cannot be it leaves none;
* transactional messages: a request that breaks off is answered with the error alone, which tells neither how far it
  came nor who was not found before;
* media: a row that is inserted but cannot be read back loses its files; a failed lookup of a name counts as
  "free" and the file there is overwritten; deleting `x` removes another upload's file named `thumb_x`.

Simplifications within modelled parts that a reader should know of: a commit that took effect but whose reply
was lost is a failed one in `Importer`; a database error while a bounce is recorded counts as recorded
(`MailsCounted` counts calls); in `Accounts` an API user does not change its own TOTP, and users do not disappear by
a cascade from lists.

### Fairness (`FairSpec`)

`Audience`, `Bounces` and `Services` are checked for safety only and state no fairness.

For the importer: weak fairness for each goroutine of a session and for requests under way. None
for uploads and stops, for database errors, or for `Jam`.

For the manager: weak fairness for the scanner (its ticker keeps ticking), for Run, for each worker (a
messenger's `Push` returns: both messengers have timeouts), for each pipe's goroutine, for
the remaining steps of a request already made, and for time passing a `send_at`. No fairness
for events, faults or requests being made. `CleanupRemove` has strong fairness: it needs
the write lock of `pipesMut`, which the scanner's read lock keeps from it again and
again, and `sync.RWMutex` guarantees a blocked writer its turn by keeping new readers out.
`RunningSettles` leaves out campaigns whose template or media cannot be loaded: the code
retries those on every tick for ever, as it is written to.

## 4. Proofs

Every safety property that a run checks (invariant, action property, refinement) is also a theorem, for every
value of the constants the assumptions allow. The proof modules, in the order in which they build on each other:

| Module | About |
|---|---|
| `Places_proofs` | counting the places of a queue that hold something: what `Append` and `Tail` do to the count |
| `CampaignManager_proofs`, `PipeOrder_proofs`, `ExactlyOnce_proofs` | `CampaignManager` and `PipeLifetime` |
| `Importer_proofs` | `Importer` |
| `Bounces_proofs` | `Audience` and `Bounces` |
| `Stores_proofs` | inductive invariants of `Accounts`, `Templates`, `Media`, `Upgrade` |
| `Services_proofs` | those of the other services, and all theorems about `Services` |

A property is seldom inductive. Each proof is three facts about a stronger invariant: the initial states have it,
a lemma per action says that the action keeps it, and it implies the property. What the stronger invariants say
and why they are needed:

### The campaign manager

* `TypeInv == TypeOK /\ ScanKnowsPipes` (`TypeCorrect`). `ScanLoad` looks at `sent[pipes[c]]`, so every campaign still
  to be counted has a pipe: none leaves while the scanner counts, and no campaign outside its list gets one
  before it starts one itself. `OnePipeCorrect` rests on it: the step that starts a pipe needs `ScanKnowsPipes`, the
  step that removes one needs `OnePipePerCampaign` itself (the entry it deletes is its own).
* `CountInv`: the WaitGroup of a live pipe is what is `Out`: its places in the queue, the workers that hold a
  message of it, the message Run is creating, the token of the first push; and nothing is out for a pipe that is
  not open. `WaitGroupExact` and `CleanupAfterDrain` are its two halves, and neither is inductive without the other: the
  cleanup starts when the count is 0, and the count stays exact because nothing is out when it starts.
  `WaitGroupCorrect`, `CleanupCorrect` and `QuietCorrect` follow.
* `LateInv`: of a stopped pipe, late messages and workers that already passed the check are no more than the
  workers, since no worker passes the check any more (`LateCorrect`).
* `OrderInv` (`OrderCorrect`, `CheckpointCorrect`): queue, workers and Run's batch hold a pipe's subscribers in
  order, all of them up to the checkpoint; `OrderRun` says that the checkpoint Run read is still the row's
  when it fetches, although stops, crashes and edits come between.
* `LifetimeCorrect == Spec => PipesDrain`: the step refinement. Under the mapping every action moves one subscriber of one
  pipe, issues or settles him, opens or closes a pipe, or stutters; `CountInv` gives "it ends with nothing left",
  `OrderInv` that no subscriber of a pipe is in two places.
* `ExactInv` (`ExactlyOnceCorrect`): of a campaign nobody disturbed, either it has no pipe and is `Unstarted` or
  all tried (`AtRest`), or its pipe is healthy and `Sending`: each subscriber up to the checkpoint has been tried
  once or is `Ahead` (in the batch, the queue or before the messenger), nobody above it has, and the
  pipe is with Run or waits for it unless everybody was fetched; or `Ending`: all were tried.
  `Listed` says what a scan that read the row earlier may still rely on.

### The importer

* `StopInv` (`StopsCorrect`): a signal enters the channel without a new request, since the request was counted
  when it looked at the status; a stop request is in one of four places at a time.
* `ImportInv` (`ImporterTypeCorrect`, `CommittedCorrect`, `EndedCorrect`): per session, what is committed, in the
  transaction and in the queue is in the order of the file, each before the next, and together all valid rows
  the loader has passed unless the session failed or was stopped (`Ordered`, `Complete`). `RoomInv`: there is a session left
  for each request that is going to start one. `EndedHasAll` is stated of sets of rows; with
  `CommittedOnceInOrder` that is the sequence of valid rows.
* `ShownInv` (`ShownCorrect`): the last session, if undisturbed, is the only one alive, and the count shown plus
  the batch about to be counted is what it committed.

### Audience and bounces

* `Inv /\ BounceInv` (`OptOutCorrect`, `ConsentCorrect`): a statement that inserts a row writes subscriptions without looking at
  those there are, which overwrites no opt-out only because a subscription belongs to a row (`RowsOwned`); a
  request that writes back what it read needs to have read a status (`RequestInv`, `LinkInv`). One lemma per statement, one
  per request.
* `MailInv` (`MailsCorrect`): a mail's recordings and its places in the queue together are at most 1 and one more
  for each fault (`CountedInv`); taking it out of the queue to record it leaves the sum as it is. What the
  scan passed, or is not in the mailbox any more, is dealt with (`HandledInv`).
* `ActsInv` (`CountActsCorrect`): `Footing` (bounces belong to a row, subscriptions to a list) and, per subscriber and
  type, that the count acted. Each step is `Steady` (forgets bounces at most, undoes no confirmation, lifts no
  blocklisting) or makes an exception the action properties name (`Proper`): so `ConfirmationCorrect` and `LiftingCorrect`
  hold of each step.

### The services

A step of `Services` is one of a component or leaves it alone (`NextOf`), so the invariant of each is one of `Services`.

* `AccountsInv` (`CacheCorrect`, `SetupCorrect`, `SuperAdminCorrect`): who read the users and was not overtaken read them
  as they are (`ReadInv`), so that the refresh that stores last stores the truth. `SetupInv`: the user of a setup
  stays one until it is deleted. The proof found that `SetupEnds` was not inductive as first stated: an edit
  may make that user an API user, a restart then asks for a setup, and a second edit makes it a user again. `setupUsers`
  now leaves out users that an edit made API users of, and the comment of `SetupEnds` says so.
* `LoginsInv`, `LoginsRange` (`SessionsCorrect`, `TokenCorrect`): a live token has passed as often as tries were
  counted. All sessions are current, or a deletion failed, or *one* deletion is to come that leaves only current
  ones; `OldSessionsEnd` asks for *some* deletion, which overlapping changes of password do not keep.
* `SettingsInv` (`SavedCorrect`): `SavedSettingsHold` itself is inductive, given the types of what
  requests hold on their way.
* `WebhooksInv` (`ReportCorrect`): a click that is over has started a goroutine for each of its lists with a
  target; how a goroutine ended tells how its attempts went. Clicks that are `CutOff` are apart from it.
* `StreamInv` (`StreamShownCorrect`): what a connection was shown, writes and has in its channel is one rising sequence of
  all errors since it began but those that met a full channel.
* `TemplatesInv`, `MediaInv` (`CopiesCorrect`). Templates: the request that was the last to change a row (it
  is not in `superseded`) holds what the row has (`ReqRight`), and a copy that is not loose is its row
  (`CopyRight`): so it does not matter who overlapped before. Media: a name that did not cross is worked on by one
  request (`OneAtWork`) and by none while a row has it (`NoRowAtWork`), and what a request wrote is there until
  the row is made (`Written`).
* `SchemaInv`, `OnceInv` (`CompleteCorrect`): what is recorded was applied, statement by statement; and a database
  that nobody disturbed has what the statements applied so far make of it (`As(D)`): with `D` those of the
  recorded versions, or, while one process is at work, those before the statement it is at (`Sole`).
* `TxInv`, `PushInv` (`AnswersCorrect`): whom a request has reached so far.

### Assumptions

The named ASSUMEs of the modules: capacities, batches and counts are positive where the code's defaults are,
bounds of the model are numbers, sets that are counted are finite, initial rows have the values of their columns.
Beyond that: an older release records an older version (`UpgradeAssumption`), an install has room for its two templates
(`TemplatesAssumption`). TLC evaluates all of them in the runs.

### Only model-checked

The liveness properties `EveryPipeEnds`, `RunningSettles`, `EverySessionEnds`, `ImportingPasses`, and the four runs that
expect a violation: fairness and ENABLED are out of TLAPS's reach. No theorem speaks of what a fold or a
recursive definition computes over data of any size.

## 5. Not modelled

See the components in `PROJECT.json`. Left out for good: parsers of provider formats, SMTP and
other messengers (a `Push` that succeeds or fails), template rendering and compiling (but for bodies that need what only campaigns have), i18n, captcha, the SQL of
migrations, CRUD over a single table with no rule between rows, read-only pages, the browser code. Of
modelled parts: the S3 media store (single writes, as the directory's), permissions per list and
per campaign, attributes and names of subscribers, pruning of expired sessions, analytics and
vacuuming, the importer's blocklist mode (another statement in the same loop), campaign creation and
preview, the manager's message rate and sliding window (they only take time).

## 6. Plan

Done: `CampaignManager` with `PipeLifetime`, `Importer`, `Audience` with `Bounces`, the ten modules of
`Services`; theorems for every safety property the runs check. Left, in order:

1. compositions: the audience under a running campaign instead of `Churn`; the settings' reload with the
   manager's pipes instead of `CampaignStarts`/`CampaignEnds`;
2. campaign creation and scheduling rules, the importer's blocklist mode, list permissions; the proofs of
   their properties.
