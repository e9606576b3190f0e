# PixelCast: a verification of its server, player and editor protocols

PixelCast runs digital signage: TVs that play content in a browser, a Django
server that tenants manage them from, and the protocols between the two, with the
licence registry and the support desk behind them. This directory holds TLA+
models of the parts that are hardest to test, the TLC configurations that check
them on small instances, and TLAPS proofs of what matters most for instances of
any size. Paths below are relative to the repository; `src/app` is the server,
`src/frontend` the dashboard and the player.

| part | modules | run | theorems |
|---|---|---|---|
| commands for a screen | `CommandDispatch`, `CommandContract`, `MCCommandDispatch`, `MCCommandRaces`, `MCLive`, `CommandDispatch_proofs` | `command_races`, `live`, `command_x_concurrent` | 6 |
| pairing a TV | `Pairing`, `PairingContract`, `MCPairing`, `MCLive`, `Pairing_proofs` | `pairing_races`, `live` | 9 |
| reachability of a screen | `ScreenConnections`, `MCScreenConnections`, `ScreenConnections_proofs` | `connections_overlap` | 3 |
| licences | `LicenceRegistry`, `Licence`, `MCLicence`, `Licence_proofs` | `licence_races` | 4 |
| tickets and notifications | `Notifier`, `TicketDesk`, `MCTicketDesk`, `TicketDesk_proofs` | `tickets_service` | 6 |
| tickets mirrored at the operator | `TicketBridge`, `MirrorContract`, `MCTicketDesk`, `TicketBridge_proofs` | `tickets_service` | 6 |
| schedules and downloads | `Recurrence`, `ContentDelivery`, `ScheduleRunner`, `MCScheduleRunner`, `MCJobs`, `Jobs_proofs` | `jobs`, `schedules_x_due` | 4 |
| layouts of templates | `Layouts`, `MCJobs`, `MCLive`, `Jobs_proofs` | `jobs`, `live`, `layouts_x_emptied` | 4 |
| backups | `Backups`, `MCJobs`, `Jobs_proofs` | `jobs`, `backups_x_failure` | 3 |
| installation wizard | `Installation`, `MCInstallation`, `Installation_proofs` | `installation_wizard` | 4 |

`tlc -config <cfg> <module>` runs a configuration (`PROJECT.json` names the two
for each run), `tlapm <module>_proofs.tla` checks a proof module.
`PROJECT.json` also maps every definition to the lines of the code it stands for.

## 1. The system

### Components

*Modelled:*

- **Commands** (`commands/models.py`, `commands/views.py`, `signage/views.py`).
  State: the `Command` rows (status, attempts, `expire_at`) and their
  `CommandExecutionLog`. The dashboard queues, executes, retries and edits; a
  device takes commands by polling `/iot/commands/pending/` and reports to
  `/iot/commands/status/`, or takes them by a WebSocket push. Correct when a
  command is done only if something says so, is not handed out twice without
  cause, does not linger, and its expiry means what it says.
- **The player's command loop** (`stores/player.js`). A 5-second timer polls
  whether or not the last poll has ended; each answer is worked off by a loop of
  its own, which posts one outcome per command and repeats a post that failed as
  `failed`.
- **Pairing** (`signage/models.py`, `serializers.py`, `views.py`,
  `saas_platform/plan_policy.py`; on the TV `PairingFlow.vue`,
  `WebPlayer.vue`). State: `PairingSession` rows, the `Screen` rows binds
  create, the hash of each screen's device token, the identity a TV has stored.
  A TV shows a code, a user binds it within five minutes, a status poll of the
  TV gets the token, once. Correct when each code gives one screen, the plan is
  kept, the TV ends up with a token that works and never on a dead page.
- **Connections and status** (`commands/consumers.py`,
  `commands/connection_registry.py`, `Screen.update_heartbeat`,
  `check_heartbeats`, edits of a screen). State: in the shared cache a connection
  count and a registry entry per screen, in the channel layer a group, in the
  database `is_online`, `last_heartbeat_at` and the token. Correct when the
  registry can be believed, the screen goes offline when it falls silent and a
  screen can always connect again.
- **Licences** (`licensing/`). On the operator's side the registry: purchases,
  installations, tokens. On the site's side the one `LicenseState` row, a decision
  cached for 900 seconds, the middleware that lets a request through or not.
  Correct when a site is let through only on a yes of the registry that is recent
  enough, and overlapping activations of a site give one installation.
- **Tickets and notifications** (`tickets/`, `notifications/`). State: ticket
  rows, service level snapshots, log rows with their Celery tasks, deduplication
  and cooldown keys in the cache. Correct when tickets move along the table,
  breaches stand and are told once, and the log says what was delivered.
- **Ticket bridge** (`tickets/operator_bridge.py`, `ingest_remote_support_ticket`,
  `mother_client/operator_gateway.py`). A self-hosted site pushes its tickets to
  the operator after the commit, over a mother gateway or directly. Correct when
  the mirror repeats and invents nothing, and a site has one tenant there.
- **Schedules and content** (`templates/models.py`, `recurrence.py`,
  `execute_schedules`). State: schedules and windows, the template each screen
  shows, one global download status per content item. Correct when the winner of
  a conflict is shown, and a file counts as downloaded only when a screen said so.
- **Layouts** (`templates/views.py`, `TemplateEditor.vue`,
  `templatePlaybackLayers.js`). A layout is kept twice: as `config_json`, the list
  the editor sent, and as `Widget` rows, which own the contents. The player merges
  the two by id and polls with an ETag. Correct when list and rows agree and the
  screen shows what was saved.
- **Backups** (`core/backup.py`, `core/tasks.py`). State: `SystemBackup` rows and
  the files of the backup directory, whose names nothing reserves. Correct when a
  completed backup verifies until it expires and no file is left that no row
  leads to.
- **Installation wizard** (`setup/`). State: `.env` and its temporary file, the
  lock file, the database settings of each worker, the database. Correct when the
  wizard can be repeated after any failure and the lock means that the
  installation is usable.

*Not modelled*: accounts and permissions, tenants and payments, storage, cache and
rate-limit helpers, analytics, logs, content validation, the fleet client,
dashboard push and the dashboard's user interface. They are pure I/O, reads,
third-party code or sequential updates of single rows whose correctness is a
matter of access rules; `PROJECT.json` gives the reason for each.

### How the components meet

`execute()` pushes a command when `is_online` is set and the registry has an
entry, both of which `ScreenConnections` is about; `CommandDispatch` lets them
change at any time to any pair of values (`SocketConnect`, `Heartbeat`), so that
everything it shows holds whatever the consumers do. A poll, a heartbeat and a
report are authenticated with the token that `Pairing` issues. An activation of a
template sends its content through a command; `ContentDelivery` has the report of
the device as an answer that may come at any time. `TicketDesk` extends `Notifier`:
a check of the service levels dispatches to the rules, and other components
announce their own events to the same dispatcher. `Licence` extends
`LicenceRegistry`: the site's calls run in the registry's handlers. Handlers share
nothing but the database (PostgreSQL in autocommit mode), the Redis cache, the
channel layer and files: several gunicorn workers run at the same time, so a read,
a save, a cache call and a file operation are each one step, and whatever a handler
has read may be stale when it saves. `select_for_update` is a lock; a plain
`save()` waits for it and then writes the columns it names without looking again.

### What makes it hard

`PROJECT.json` lists each hazard at its line, with the properties that watch it.
Most are of five kinds:

- decisions on instances read without a lock and saved later (retry, edits, status
  polls, `check_heartbeats`, ticket transitions, clean-ups of backups, activations);
- answers that are lost after the server has written (polls, reports, activations,
  saves of a layout, posts to the operator), and clients that ask again;
- sequences of writes without a transaction, cut off or overlapping: WebSocket
  connects, a save of a layout, a backup, a step of the wizard;
- names that nothing reserves: `.env.tmp`, a backup's second, a tenant's slug;
- rules that sit in one place and bind every handler: no command is saved whose
  `expire_at` has come, an ETag that only some of the writes change.

## 2. The models

### CommandDispatch and CommandContract

One screen and the commands queued for it. `row[c]` is the row, `logs[c]` its log
entries, `wk[w]` a dashboard request with the instance it has read (`seen`),
`pl[p]` a poll with its server side (`marking`) and the player's loop over the
answer (`loop`, `posting`, `saving`). `ghost` records what really happened (what
was sent, pushed, reported, pulled, put back in the queue) and decides nothing,
except that a device can only start on a command that was pushed to it.

| actions | code |
|---|---|
| `QueueCommand` | `Command.queue_command`, with the `full_clean()` of `save()` |
| `ExecuteRequest`, `ExecuteBegin`, `ExecuteClaim`, `ExecuteSend`, `ExecuteFinish` | the execute view and `Command.execute()`: checks on the instance, first transaction, send outside any transaction, second transaction |
| `RetryRequest`, `ResetStatus` | the retry view, then `execute()` |
| `EditRequest`, `EditCheck`, `EditSave` | `update()`: two reads, then a save of all columns of the first |
| `PullQuery`, `PullMark`, `PullAnswer` | `iot_command_pull` and the older `command_pull`, which leaves a command pending |
| `DeviceExecute`, `PostStatus`, `SaveStatus` | `executeCommand` of the player and `iot_command_response` |
| `SocketConnect`, `Heartbeat`, `SocketExecuting`, `Tick` | the consumers, `check_heartbeats`, the status message of a WebSocket device, the clock |

`Saves` is the rule of `Command.save()`: a row whose `expire_at` has come raises.
Priorities are the ranks `Rank[c]`, payloads and error messages are left out. A
send of a `push` command succeeds when the registry has an entry, a `sync` one
always, a `template` one may fail.

`CommandContract` is the life of a command with no handler in sight: it is queued,
taken, given to a poll loop, believed to be sent, concluded, asked for again or
edited, and time passes. A conclusion needs that somebody took the command, `done`
needs evidence, a poll loop is given a command once per queueing, an edit brings back
only a status that the command may once have had, and all of it but an edit needs that
the deadline has not come. `CommandDispatch` implements it: a command was `Taken` when
its log has an entry other than that of an offline screen. In the code the row is
saved just before its log entry; in the model the two are one step.

### Pairing and PairingContract

`session[s]` is a `PairingSession`, `screen[s]` counts the screens bound from it
and the tokens issued (a token is the number of its issue; `hash` is the number
the server accepts). `poll[p]` is a status poll from the request to the answer,
`bind[b]` a bind request, `tv[d]` the page: whether its timers run, which code it
shows, how many time-outs will generate another one, which identities wait for the
end of the welcome animation, which identity it stored. A bind in `create` holds
the lock of its row (`Holds`), and every other update of that row waits (`Free`).
The cleanup command is one `UPDATE`.

`PairingContract` is what pairing promises: a code is offered, then bound to one
new screen or lapsed, never both, and tokens are issued only for screens that were
bound. `Pairing` implements it with `Phase`: a session that has a screen is bound
*whatever its status column says*, because a stale `expired` can be saved over
`paired`.

### ScreenConnections

The consumers of one screen, each a process that goes down the steps of
`connect()` or `disconnect()`; `got` is the count it has read. A consumer that is
refused because of the limit goes through `disconnect()` in full, as its
`screen_id` is set. `Die` kills a consumer between any two steps. `heard` is the
age of the last heartbeat as `check_heartbeats` sees it: none, recent, or older
than its timeout. The `/iot/` heartbeat is two steps, so a revocation may come
between; so is an edit (`EditRead`, `EditSave`), a PUT, PATCH or bulk update that
writes back every column of the instance it read.

### LicenceRegistry and Licence

`row[i]` is an installation, `handler[c]` the activation that serves a caller,
which looks the installation up (`ActivateLock`) under the lock that
`update_or_create` holds on the purchase until `ActivateCommit`. `lic` is the
site's `LicenseState` row, `cache` the cached decision and the time it has left,
`job[w]` a worker with the row it has read (`seen`). Ages replace the clock: of a
success up to the grace period, of a contact up to the last tier. `Save` is one
validation: the answer of the gateway, or its silence, becomes a status, a
decision and a save of every column. `confirmed` is the age of the last time the
registry called the licence valid; it decides nothing.

### Notifier, TicketDesk, TicketBridge and MirrorContract

`disp[c]` is a dispatch (duplicate check, rules, cooldown, one log row and one
task per channel, then the marks), `log[l]` a `NotificationLog` row with its
Celery task and the copies that were delivered, `window` and `cooling` the keys in
the cache. `ticket`, `snap[m]` are the rows, `agent[a]` a request with the
instance it has read, `check[c]` a run of `check_sla_deadlines` with the list and
the time it has read. The operations of `tickets/services.py` are one action each
(`assign_ticket` to `add_reply`); those that mark a service level achieved look
first (`Look`) and save in a second step.

`TicketBridge` follows one message from the commit of its request to the
operator: `GatewayAccepts` or `GatewayFails`, then the direct post, which may fail
at any step (`PostFails`), `FindTenant`, `InsertTenant`, `AppendReply`,
`ReadNumber`, `Insert`. Uniqueness of slugs and numbers is that of the tables
(`SlugFree`, `NumberFree`); a collision rolls the ingest back (`Collide`).
`MirrorContract` is what that amounts to: a channel for messages, each of which is
posted once and then arrives, is handed to the mother gateway, is lost, or is refused,
the last only if nobody owed it. A message is on its way as long as there is a post of
it (`OnWay`).

### Recurrence, ContentDelivery and ScheduleRunner

`Recurrence` has the arithmetic of windows: `RunningAt` for the present instant,
`CheckOverlap` over the occurrences that lie ahead. `content[c]` is a content row
(download status, flag, attempts), `sender[k]` a retry or a device's report with
the instance it has read, `told` the commands a screen has not answered.
`run[p]` is a run of `execute_schedules`, an execute request or an activation, with
the schedules it read; it goes through screens one by one, looks up conflicts
(`CheckConflicts`), opens the activation, sends what the template needs, and
commits. `Results` counts how often one attempt calls `mark_failed()`.

### Layouts

`template` is the row (list and `updated_at`), `widget[i]` the row of id `i`,
`page[p]` an editor, `put[h]` a save with the list it works on and the widgets to
do, `player` what the player has. An id of 0 is one that the browser made. A save
is `SaveRow`, for an update `RefreshFromDb`, `SyncWidget` for each widget,
`EndSync`, `Answer`. `look` stands for whatever can be edited about a widget;
contents belong to the row. `troubled` records losses, deaths and overlaps, for
the properties only.

### Backups

`record[b]` is a row, `maker[b]` the worker that makes it with its instance,
`files[n]` the backups whose bytes are in the file of name `n`, and those that
have written it to the end, so that "verifies" can be told from "is a whole
backup". Names are a kind and a second. Unlinking leaves a writer with a file that
has no name (`linked`). `cleaner[c]` goes through the rows it read.

### Installation

`env` and `tmp` are files, `settings[w]` the database a worker connects to,
`base[d]` what is in a database, `job[w]` a request of the wizard and how far it
is. A handler that has a file open keeps it under whatever name a rename gives it
(`Renamed`). A killed worker comes back with the settings of `.env`.

### What is abstracted

Message signatures, names, payloads, wording; telemetry columns of a screen; the
three older heartbeat endpoints; the rendering of templates; dumps and archives as
bytes. Clocks are counters or ages, compared exactly as the code compares
(`is_expired` is strict, `clean()` is not; `expires_at__lt` is strict).

## 3. Plan

Done, in this order: `CommandDispatch`, the product's main path, and `Pairing`, each
with its contract; `ScreenConnections`; `LicenceRegistry` and `Licence`; `Notifier` and
`TicketDesk`; `TicketBridge` with its contract; `Recurrence`, `ContentDelivery` and
`ScheduleRunner`; `Installation`; `Backups`; `Layouts`. What would add most next:

1. `CommandDispatch` composed with the consumers of `ScreenConnections` in place of
   `SocketConnect` and `Heartbeat`, to say for which devices a pushed command
   arrives. The product of the two is too large for one run as they stand.
2. The endpoints for single layers and widgets, which write rows and not the list.
3. An abstract specification of a download per screen, which the global status of
   a content item does not implement, to say what it does implement.

## 4. What the runs show

| run | instance | distinct states | checked |
|---|---|---|---|
| `command_races` | 2 requests of execute, retry and edit, a legacy poll and a WebSocket over 1 command with an expiry; or 2 overlapping polls of 2 commands with 1 loss | 1 672 548 (symmetry) | `DoneHasEvidence`, `TakenOncePerQueueing`, `FrozenOnceExpired`, `KeepsContract` |
| `pairing_races` | 2 codes, 2 polls, 2 binds, 1 token operation, 1 death or lost answer, codes that end at once | 2 714 022 (symmetry) | `KeepsContract`, `NoLateClaim` |
| `connections_overlap` | 2 connections, limit 1, 1 death, 1 failure, 1 heartbeat, 1 revocation or edit, expiring entries, fairness | 966 990 | `TypeOK`, `RegisteredIsInGroup`, `OnlineHasConsumer`, `SilentGoesOffline`, `NeverLockedOut` |
| `licence_races` | 2 workers of a site and 1 other caller, 2 activations, 1 order, 2 installations | 1 868 714 (symmetry) | `OneInstallation`, `AllowedOnRecentYes`, `SilenceNeverReadOnly` |
| `tickets_service` | 2 agents and 2 callers, 4 log rows; or 2 tickets and 3 posts with 4 messages or with the mother gateway | 1 166 032 (symmetry) | `OneNoticePerBreach`, `CooldownEarned`, `SentMeansDelivered`, `BreachStands`, `InvalidMoveIsStale`; `MirrorIsFaithful`, `RepliesFollow`, `MirrorsKeepContract` |
| `jobs` | 2 schedules, 2 screens, 2 runners, 2 senders; or 2 backups and 2 clean-ups; or 2 editors, 2 saves at a time, 2 widgets | 2 709 065 (symmetry) | `WinnerIsShown`, `ServedOrExcused`, `DownloadedIsConfirmed`; `CompletedVerifies`, `LeftoversAreFailures`; `SavedHasRows`, `OneRowPerElement` |
| `installation_wizard` | 2 workers, 2 databases, 1 fault, fairness | 1 882 029 | `EnvIsWhole`, `InstalledIsUsable`, `InstalledIsProvisioned`, `InstallationCompletes` |
| `live` | 1 command and a poll loop; or 2 codes, 1 poll and 1 bind at a time, 2 losses or deaths, a plan of 1; or an editor and a player; fairness | 271 384 | `PendingIsTaken`, `ExecutingSettles`; `BoundIsActivated`, `StoredIdentityWorks`, `NotStranded`, `WithinPlan`; `PlayerCatchesUp` |
| `command_x_concurrent` | 2 execute requests | violated | `NoConcurrentExecution` |
| `schedules_x_due` | 2 one-time schedules | violated | `DueIsShown` |
| `backups_x_failure` | 1 compressed backup on PostgreSQL | violated | `FailureHasCause` |
| `layouts_x_emptied` | 1 editor, 1 widget that is deleted | violated | `ShownIsWhatWasDrawn` |

Runs that join parts which share no state (`command_races`, `tickets_service`,
`jobs`, `live`) take one part per behaviour, in `part`; the others rest. Every
property is about one part, and the number of states is the sum.

### Properties that hold

*Commands.* `TakenOncePerQueueing`: whatever is lost or overlaps, one `/iot/` poll
loop takes a command once for each time it was put in the queue; marking before
answering gives this, at the price that a lost answer loses the command.
Overlapping polls may each take it once. `DoneHasEvidence`: no order of stale saves
makes a success up. `FrozenOnceExpired`: since `save()` refuses expired rows, once
`expire_at` has come the status never changes again, not even to `failed`, unless
an edit moves the expiry. `src/app/tests/test_models.py:283-290` describes an
expired command that is saved; the code refuses it. `KeepsContract`: whatever is
saved over whatever, and in which order, all that shows of a command is its history as
the contract allows it; an execution that fails, say, never puts its command back in
the queue. `PendingIsTaken`,
`ExecutingSettles`: a command without expiry is taken, and comes to an outcome when
no message is lost.

*Pairing.* `KeepsContract`: one screen per code, and tokens only for bound screens.
`NoLateClaim`: the second `is_valid()`, under the lock, is what stops a bind that
looked its code up in time and came late. `StoredIdentityWorks`, `NotStranded`,
`WithinPlan`, `BoundIsActivated` hold while one poll and one bind run at a time.
With two polls the second token invalidates the first and the TV may store the
first; two binds of two codes may pass the plan by one. The code promises neither
in so many words.

*Connections.* `RegisteredIsInGroup`: `connect()` joins the group before it
registers and `disconnect()` unregisters before it leaves; this is what makes the
registry safe to believe when it says yes. `OnlineHasConsumer`: without heartbeats,
`is_online` needs a consumer that set it and has not ended, or an edit that wrote
back what had changed. `SilentGoesOffline`: the races of a heartbeat or an edit with
a revocation or with `check_heartbeats` are repaired by the next run of the latter.
It depends on `is_heartbeat_stale` treating a screen that never sent a heartbeat as
stale. `NeverLockedOut`: lost updates and deaths leave the count too high; the
expiry of the entry after an hour repairs it.

*Licences.* `OneInstallation`: no unique constraint keeps a second row of a purchase
and domain out, only the lock of the purchase does. `AllowedOnRecentYes`: a request
is let through only when the registry has said yes within the grace period plus the
lifetime of the cache, whatever overlaps. `SilenceNeverReadOnly`: the tiers
`readonly` and `admin_only` of `settings.py:232-235` never answer a request, since
the licence is refused long before.

*Tickets.* `OneNoticePerBreach`: saving the snapshot before the dispatch, and the
deduplication, keep two checks from telling a breach twice. `BreachStands`: a breach
turns into something else only by restarted clocks or by a request that had looked
before. `InvalidMoveIsStale`: a move outside the table of transitions only comes of
an outdated instance; two agents can make one, though `test_tickets.py:149` has an
invalid transition raise. `CooldownEarned`, `SentMeansDelivered`: the marks and the
log do not claim what did not happen. `MirrorIsFaithful`: a mirror never repeats,
reorders the first of, or invents messages, the gateway's late answer included, as
what goes to the mother gateway is kept elsewhere. `RepliesFollow`: a reply to a
mirrored ticket arrives unless its own post fails. `MirrorsKeepContract`: mirrors only
grow, a ticket stays in the tenant it came to though later posts may find another one,
nothing arrives after its post has ended, and the installation has one tenant, as the
comment in `ensure_registry_bridge_tenant` wants, as long as no two of its posts are
handled at a time (`OneTenantUnlessOverlapped`, which is proved from the invariant).

*Schedules.* `WinnerIsShown`: among schedules that repeat alike, a run leaves on the
screen one that is due and that none of higher priority ever overlaps; the order of the
run and its look-up of conflicts agree. `DownloadedIsConfirmed`: no order of saves makes
a file count as downloaded that no screen has reported. `ServedOrExcused`: an activation
that found its screen online has asked it to fetch the file, or the file was reported,
or attempts were counted as failed.

*Backups.* `CompletedVerifies`, `LeftoversAreFailures`: hold through overlapping
clean-ups, deletions of rows, failures and deaths, on every engine, but for backups
of one kind that begin in the same second. The default plan has such a pair: the
daily database backup and the monthly full one, both at 02:00
(`settings.py:765-770`), and a full backup is a database dump under the same name.

*Layouts.* `SavedHasRows`: once saves have ended, every widget of the list has its
row, with the same look, though an answer was lost and ids of the browser were sent
again. `OneRowPerElement`: and one row only, unless an answer was lost, saves
overlapped or were cut off, or the page had just made the template. `PlayerCatchesUp`:
the player comes to show what was saved, unless it fetched between the two writes
of the list.

*Installation.* `EnvIsWhole`: while no two requests write, `.env` never loses what
it had. `InstalledIsUsable`, `InstalledIsProvisioned`: what the lock means.
`InstallationCompletes`: an installation that is tried again and again succeeds, if
requests come one at a time.

### Disagreements between the code and what it says

1. `execute()` locks the row "to prevent concurrent execution" and looks at no
   status under the lock (`commands/models.py:350`; `command_x_concurrent`).
2. `is_conflicting()` compares whole windows, so a schedule that is due loses to
   one that is not, and the screen shows neither, though `execute_schedules` means
   to "Execute schedules that are due to run" (`schedules_x_due`).
3. Every compressed database backup of PostgreSQL and MySQL fails: `import shutil`
   in the branch for SQLite makes the name local to the function, and the copy
   raises. The module offers "Database backups (SQLite, PostgreSQL, MySQL)" and the
   tests cover SQLite only (`backups_x_failure`). `FailureHasCause` holds with
   `Engines = {"sqlite"}`.
4. When the last widget of a layout was deleted and saved, the screen shows every
   widget that was ever saved: the sync skips an empty list, rows are never deleted,
   and the player takes an empty list for none (`layouts_x_emptied`). The editor's
   comment has the screen receive "exactly what user sees in the editor".

### Further observations

They have no run of their own; the models contain them where the part is modelled.

- *Commands, pairing, connections.* A `sync_content` without WebSocket is marked
  done (`commands/models.py:566`). `execute()` and `mark_failed()` each count an
  attempt (211); `reset_status()` keeps `completed_at` (256). Two overlapping status
  polls issue two tokens and the later one wins (`signage/views.py:868`). A stale
  `expired` overwrites `paired` (`serializers.py:685`), and that TV is never
  activated. A TV whose token was revoked cannot pair again while its URL names the
  old screen (`WebPlayer.vue:191`). A late disconnect removes the registration of
  the connection that replaced it (`consumers.py:141`). The WebSocket
  acknowledgement, status and heartbeat handlers wrap asynchronous methods in
  `database_sync_to_async` twice and raise before they write. The channel layer is
  the memory of one of four processes unless `CHANNEL_LAYERS_BACKEND` is `redis`
  (`settings.py:524`). An edit can bring back `is_online`, an older heartbeat and a
  revoked token.
- *Licences.* A refused licence gets grace at the next outage within 72 hours of its
  last success. A failed decision is cached for 900 seconds too. A stale save of all
  columns may overwrite the token of an activation. A failed or timed-out activation
  wipes the token and stores the purchase code, whose older path of validation
  ignores a suspension; an activation clears a suspension.
- *Tickets.* `check_sla_deadlines` is not in `CELERY_BEAT_SCHEDULE`
  (`settings.py:624-633`), though `tickets/tasks.py:19` has it run every few minutes.
  A breach whose worker dies between save and dispatch is never told; deduplication
  is marked although every rule failed; a log stays `pending` when `.delay` raises.
  Pushes to the operator are not repeated. A direct post that times out may have been
  committed. Two overlapping ingests of a site can make two tenants, where
  `ensure_registry_bridge_tenant` says "One Tenant per registry installation".
- *Schedules and content.* The occurrences of a recurring schedule are counted from its
  first, 1000 at most: a daily one that is older conflicts with nothing any more and is
  still due (`recurrence.py:379`). A one-time schedule that already runs is invisible to
  the conflicts of a recurring one; the schedule below does not resume when an override
  ends; the execute endpoint does not pass `force` on (`views.py:1907`); `retry_count`
  is never reset and one failing attempt counts two or three; `reset_download_status` is
  never called, so an upload of another file leaves the status; a window that crosses
  midnight is cut there; a daily schedule is due before its first date; the priority,
  seconds since 1970, exceeds its column in 2038.
- *Layouts.* The ETag is template id, `updated_at` and version. The save of the ids
  (`update_fields=['config_json']`) does not change `updated_at`, and neither do
  widget, layer or content edits: a player that has fetched in between keeps a list
  without contents until the next save. A page that has created a template goes on
  with its own ids, although the comment at `TemplateEditor.vue:1992` has it reload;
  the next save makes a second row of every widget. Edits made while a save is under
  way are lost at the reload.
- *Backups.* A "full" backup contains no media. A killed worker leaves
  `in_progress`, a failed backup its files, a deleted row its file. A stale save
  inserts a deleted row again. Neither task is in the beat schedule.
- *Installation.* All requests share one `.env.tmp`: two that overlap can leave
  `.env` empty for a while, or fail by turns for ever. A request that has passed the
  check of the lock goes on after the lock is set and may wipe the licence token.
  Settings are switched in one worker only; the others go on with the old database
  until they are restarted, and with `--preload` (`entrypoint.sh:83`) even then.

### Bounds, and why they are enough

Two of whatever races: two handlers, polls, binds, connections, agents, checks,
runs, clean-ups, editors. They suffice for every lost update and stale save, as each
is a read of one actor, a write of another and a write of the first. The second part
of `command_races` has two commands so that a poll may fail between its first and
its second mark; the bridge has three posts so that a reply overtakes a ticket while
another thread's post makes the tenant; `Layouts` has two widgets so that a save can
stop between them. Clocks have the instants before, at and after each deadline. One
loss separates the player's repetition from its first post; two in `live` let the
activation be lost twice. Constants named `Max...` and the sets of budgets
(`Instances`, `Traffic`, `Several`, `SomeTroubles`; a behaviour has one of them)
bound what the outside world does, and faults, and nothing that the code does. A day
has 4 ticks and a week 2 days, so that windows nest, touch, cross midnight and start
on another day; `Horizon` covers two weeks. The safety of layouts is checked with two
pages and saves and without the player; what the player comes to show with one.
Symmetry is used between actors of one kind only, and in no run with a liveness
property. Deadlock is not checked: when the outside world has used its bounds, all
requests may be over.

### Fairness

Only what the code runs by itself is fair, and weakly so unless it says otherwise.
Commands: a handler that has begun goes on, and the player's timers poll for ever
(its HTTP client gives up after 10 seconds, so a loop cannot hang). Pairing: the
page's timers and a started handler; users, clock and cleanup owe nothing.
Connections: a living consumer finishes `connect()` and `disconnect()`, an accepted
heartbeat or edit is saved, time passes and `check_heartbeats` is run again and
again, as its docstring demands ("should be run periodically (e.g., via cron)"; the
repository ships no schedule); devices owe nothing, and `NeverLockedOut` names as its
premise that they keep connecting. Layouts: a save that was sent is worked on, and
the player asks every minute (`player.js:400`); users owe nothing, and a save may die.
Installation: a handler goes on, and the operator tries again, strongly fair as
requests of others may come between; the premise of `InstallationCompletes` is that
from some time on requests come one at a time, since two that overlap can fail each
other for ever. `live` states the fairness of each part over the joined variables. No
fairness makes the network deliver: the liveness properties exclude losses or name
them in their conclusion.

## 5. What is proved

For every number of commands, workers, polls, sessions, TVs, connections, agents, rules,
tickets, schedules, windows, screens, widgets, editors, backups, databases, and every
limit and bound, from the assumptions named in the modules (they give the constants
their types; `Licence` needs `CacheTTL <= Warn < ReadOnly`, which the settings keep;
sets of sessions and tickets are finite). Each proof has one inductive invariant, one
lemma per action, and a temporal theorem at the end.

- `CommandDispatch_proofs`. `TypeCorrect`: `TypeOK` is inductive. The others
  rest on `StatusStep`, which says in which ways a step may change a row.
  `DoneOnEvidence`: `DoneHasEvidence` alone is not inductive, since an edit may write
  back a `done` it has read and a handler may be about to write one; `DoneInv` adds
  both. `TakenOnce`: `TakenInv` counts a command that is pending, or in a poll's
  query result, as a delivery to come (`Credit`). `FrozenWhenExpired`: `ExpiryInv`
  says that every instance yet to be saved has the expiry of its row, unless an edit
  moved it. `CommandsRefine`: every step is a step of the contract or a stutter. It
  needs `Ready`, which is all of these and `TraceInv`: the log of a command shows that
  it was taken when its row, or an instance yet to be saved over it, says so
  (`TakenGood`), when an execution has passed its claim (`WorkersTook`), and when it is
  in the hands of a poll loop (`PollersTook`). Most stutters are of saves that
  `save()` refuses. `TakenBeforeOutcome` is what the contract gives for that.
- `Pairing_proofs`. `IInv` is `TypeOK` with `Links` (what polls, binds and pages
  refer to exists; without it a handler writes outside the rows), `Claims` (a session
  that a bind holds is pending and has one holder) and `RowsAgree` (screens and
  status agree as far as they do). From it `TypeCorrect`, `ClaimedInTime` and
  `PairingRefines`: every step is a step of the contract or a stutter; and from the
  contract `OneScreenPerCode` and `TokensForBoundScreens`. What two overlapping requests
  can break is proved for behaviours in which they do not overlap, stated as a
  hypothesis. `PlanIsKept`: the tenant has room for the screen of the bind that is in
  its transaction (`PlanInv`), if there is one such bind at a time
  (`OneClaimAtATime`); `PlanOvershoot`, without it: the screens and the binds
  that may still add one together exceed the plan by less than the number of binds.
  `IdentitiesWork` and `NeverStranded`: the answer on its way to a
  page, the one it holds and the one it stored carry the token that no later poll
  replaces (`IdentityInv`), if no two polls of one session overlap (`PollsApart`) and,
  for the second, the dashboard leaves the tokens alone (`budget.ops = 0`).
- `ScreenConnections_proofs`. `IInv` is `TypeOK`, `RegistryInv` (a registered channel
  has joined and its consumer has not unregistered) and `MarkInv`. From it
  `TypeCorrect`, `RegistryIsSound`, `OnlineIsAccounted`.
- `Licence_proofs`. `IInv` is `RegistryInv` (types; one handler at a time holds the
  row of the purchase and its lookup is still true; one installation) and `ClientInv`
  (the row, each job by its step, and the cache are no younger than the registry's
  last yes allows). `TypeCorrect`, `OneComesOfMany`, `RecentYes`, `NeverReadOnly`.
- `TicketDesk_proofs`. `IInv` is `TypeOK` with the invariants of dispatches, logs,
  checks and agents, `CooldownEarned` and `Counted`: the log entries of a breach, plus
  one that a dispatch is about to make, plus one if the snapshot is still open or in
  the list of a check, are at most one more than the restarts of the clocks. Without
  the last two terms a step of a check breaks it. `TypeCorrect`, `CooldownIsEarned`,
  `SentIsDelivered`, `BreachIsToldOnce`, `BreachesStand`, `MovesAreValid`.
- `TicketBridge_proofs`. `IInv` has what each post on its way may assume about mirror
  and tenants (`PostsGood`), that no two posts carry one message (`Distinct`), and,
  while no two posts were handled at a time, that the one at the operator finds
  everything as it left it (`AloneGood`). `TypeCorrect`, `MirrorsAreFaithful`,
  `RepliesGetThere`, `OneTenantAlone`. `MirrorsRefine`: every step of a post is a step of
  the contract or a stutter; besides `IInv` this needs `TenantsKnown`, that a post which
  has found a tenant has one that exists. From the contract follows `MirrorsAreSettled`:
  what was mirrored keeps its place and tenant, and what has ended does not come back.
- `Jobs_proofs`, in three parts that share no state.
  *Schedules.* `IInv` is `TypeOK`, `DownloadedIsConfirmed`, `SendersGood` (what a request
  is about to save claims no more than was confirmed) and `RunsGood` (an activation about
  to commit has asked its screen, or failed, or had nothing to ask). `TypeCorrect`,
  `DownloadsAreConfirmed`, `ActivationServes`. For `WinnersAreShown`, `LeadInv` says of a
  run that nothing has disturbed that it has read what holds, and that a screen on which
  a schedule that wins the look-up of conflicts has had its turn shows one that wins.
  That those that win are those that none of higher priority overlaps is arithmetic:
  two occurrences that overlap, shifted by the least number of periods that puts both
  after the present, are within the range that is looked at. The hypothesis `AllInSight`
  is that this range has room for a window and a period (365 days in the code) and that
  the 1000 occurrences that are counted reach its end; the instance of `jobs` is within it.
  *Layouts.* The invariant is `LayoutTypeOK` with `IdsAgree` (an id in the list of the
  template, a page or a save is that of a row of the same element, without which a save
  writes over another widget's row), `SavedInv` (one save at a time; what a sync has done
  has rows, which nothing later changes) and `NewInv` (an element without an id in a list
  that may be saved has no row, and is in one such list). `LayoutTypeCorrect`,
  `IdsNeverMix`, `SavedWidgetsHaveRows`, `RowsAreUnique`.
  *Backups.* `SoundInv` is `BackupTypeOK` with `PathsInv` (which names a maker has opened,
  by its step), `RowsInv` (a completed row is the one its maker saved), `FilesInv` (who has
  bytes in a file answers for it), `CleanersInv` (a clean-up saves a row as expired only
  when its file is gone) and `WholeInv` (a name that is not shared is of one backup,
  which is whole at each step of its maker). `BackupsVerify`, `NothingLeftOver`, and
  `FailuresOnSqlite`: with `engine = "sqlite"`, `FailureHasCause` holds, so that the
  counterexample of `backups_x_failure` is one of the other databases alone.
- `Installation_proofs`. `IInv` is `TypeOK`, `JobsGood` (what a step may take as done
  in its database), `FilesGood` (a file that is not whole is being written, or was
  spoiled by a fault), `WritersGood` (without a clash the one writer finds its own
  file), `AloneGood` and the two invariants. `TypeCorrect`, `EnvStaysWhole`,
  `LockMeansUsable`, `LockMeansProvisioned`.

Only model-checked are the liveness properties: `PendingIsTaken`, `ExecutingSettles`,
`BoundIsActivated`, `PlayerCatchesUp`, `SilentGoesOffline`, `NeverLockedOut` and
`InstallationCompletes` (liveness under fairness and `ENABLED` are out of the prover's
reach). The type invariants are proved and no run repeats them, but for that of the
connections, which bounds their count. No module declares a `RECURSIVE` operator, and no proof needs induction over
data.

## 6. Not modelled, within the modelled components

- Commands, pairing, connections: deletion of commands, screens and sessions; the
  bulk endpoints but for the save of a bulk update; `--delete-old` of the cleanup;
  the retry button after a failed generate and time-outs of a page that is gone; rate
  limits; notifications that follow a state change; `get_executable_commands` and
  `execute_pending_commands`, whose class hides the model it wants to use, so that it
  never runs a command.
- Licences: the heartbeat's stale `suspicious` mark, the domain rules, the maximal
  age of heartbeats at the registry (off by default), the mode without a gateway
  address, verification with the market place.
- Tickets: routing of new tickets, auto-close, attachments, reports; what the
  operator's agents do with a mirrored ticket; the installation's token and the count
  behind the ingest's rate limit, which to the site is a post that fails.
- Schedules and content: monthly windows, `next_run()`, `--force`, the flag
  `is_currently_running`, uploading, direct download, the retry for all screens.
- Layouts: the endpoints for single layers and widgets, duplication, links of
  contents and QR codes; a content item belongs to one widget, so that the last sync
  that names it moves it.
- Backups: edits of rows over the API, the audit log, an unsupported engine.
- Installation: the status and database tests, seeding, the quoting of `.env` lines,
  requests that overlap inside one worker.
- Bulk operations, for the record: a request of more than 100 items always exceeds
  the quota of 100 items a minute although `validate_item_ids` allows 1000; an item
  whose operation reports failure keeps what it had saved before.
