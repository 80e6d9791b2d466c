# Genki uptime monitoring: TLA+ models and proofs

Genki is a Go server with an embedded React client. It checks monitors (HTTP,
TCP, DNS, …) on a schedule, keeps their status, logs and incidents in
PostgreSQL, announces outages and recoveries over chat channels, and serves an
API, a dashboard and public status pages. Paths below are relative to the
repository's root.

This directory holds models of it in TLA+, the TLC configurations that check
them, and proofs for TLAPS. Every definition is translated from the code;
`PROJECT.json` gives, for each, the lines it stands for.

## 1. Inventory

| Component | State | Operations | Correct when |
|---|---|---|---|
| Scheduler, `internal/scheduler/scheduler.go` | the cron job, ticks in progress, their contexts and checks; the rows of `monitors`, `monitor_logs`, `incidents` | `Start`, `Stop`, `runChecks`, `checkMonitor`, `createIncident`, `resolveIncident` | a monitor is checked by one tick at a time; incidents and notifications follow the status; lasting outages and recoveries are announced; ticks do not pile up behind targets that are slow |
| Server process, `cmd/server/main.go` | – | start, graceful stop, exit | a restart picks up from the database |
| Heartbeats, `handlers/heartbeat.go` | `heartbeats`, `monitors.status` | `Push`, `List` | a ping counts and its absence is noticed |
| Incidents, `handlers/incident.go` | `incidents` | `Update`, `List`, `Get` | manual overrides live with the automatic ones |
| Monitor administration, `handlers/monitor.go` | `monitors` | `Create`, `Update`, `BulkUpdate`, `Delete`, favorites, visibility, `TestConnection` | a deleted monitor is left alone; edits take effect |
| Reset and settings, `handlers/appsettings.go` | all tables, `app_settings` | `ResetMonitoringData`, `ResetAllData`, `Get`, `Update` | a reset that succeeded leaves nothing |
| Application log, `internal/applog/applog.go` | ring buffer, subscribers | `Write`, `Snapshot`, `Subscribe`, `Unsubscribe` | the newest lines in order; the logger never blocks |
| WebSocket hub, `handlers/websocket.go` | connected clients | `tailLogs`, `Handle`, `broadcast` | every client sees the lines in order |
| Notifications, `internal/notifier`, `handlers/notification.go` | `notification_channels`, sends in flight | `Notify`, `Upsert`, `Delete`, `SetEnabled` | one channel per type; enabled channels get each event |
| Checkers, `internal/checker` | – | eight `Check` functions | the verdict follows from the target's answer |
| Accounts and keys, `handlers/auth.go`, `profile.go`, `apikey.go`, `middleware/jwt.go` | `users`, `api_keys`; tokens, which the server does not keep | register, log in, change and reset passwords, create and revoke keys | a credential names the account it was issued to |
| Backup, `handlers/backup.go` | all monitoring tables | `Export`, `Import` | an import brings everything the file holds, once |
| Groups and labels, `handlers/grouplabel.go` | `monitors.group_name`, `labels` | rename, delete | renaming takes a label from no monitor |
| Statistics, `handlers/uptime_series.go`, `stats.go` | – (queries) | – | buckets and averages are those of the logs |
| Public status, `handlers/public.go`, `PublicStatus.tsx`, `GroupPublicStatus.tsx` | the visitor's last answer | `GetStatus`, `GetGroupStatus`, links between the pages | a link leads to the monitors it promises |
| Client: query cache, routes, sessions, `App.tsx`, `lib/api.ts` | query cache of a tab, `localStorage` of a browser | fetch, invalidate, first-run guard, 401 interceptor | signing out ends the session in every tab |
| Client: Monitors page, `Monitors.tsx`, `useMonitors.ts` | list, filters, selection, open form | row controls, bulk edit, create, edit, test a connection | acts on the monitors the user picked, shows what was written, sends what the server accepts |
| Client: settings, `Settings.tsx`, `Login.tsx`, `Setup.tsx`, `ForgotPassword.tsx`, `components/settings` | forms, requests in flight | save profile and password, keys, groups, backup, reset | a form that is saving will hear an answer |
| Client: Notifications page, `Notifications.tsx`, `useShowURLSetting.ts` | fields of each card, optimistic switch | save, switch, hide URLs | the switch comes to rest on the truth, typing survives |
| Client: overview, incidents, heartbeats, log view | rendered answers | – | – |

How they interact. The scheduler and the HTTP handlers share nothing in memory:
they meet in the database, one autocommitted statement at a time. Only the
backup import uses a transaction. The scheduler calls the dispatcher
synchronously; the sends it starts run in goroutines nobody waits for. Every
`log.Printf` of the process goes through the ring buffer's `Write`, which hands
the line to the WebSocket goroutine over a channel. The client talks to the
handlers over HTTP only. Its pages read a query cache, which polls, and their
writes invalidate the entries they touch; the tabs of a browser share one token.

What is hard. A tick starts every 10 s whether or not earlier ones ended, so
ticks overlap; each has 30 s to live; a check is up to six statements with the
target's answers, timeouts and 5 s pauses between them, and each statement may
fail alone; transitions are judged against a status read at the start of the
tick; requests write the same rows between any two statements; the process may
stop anywhere. In the client, what the user clicks on is a copy: the cached list
may be older than the table, a form or a card older than the list, and requests
overlap, get lost, are answered after their page is gone or after another user
has signed in.

The hazards, each at its line, are listed in `PROJECT.json` with the properties
that cover them, or the reason why none does yet.

## 2. Modules

| Module | What it is |
|---|---|
| `Scheduler` | the scheduler, its rows and the server process: one action per statement of `checkMonitor` |
| `Outage` | abstract: the lifecycle of an outage (opened, announced, closed, announced) |
| `SchedulerInv` | the hypotheses of the theorems, the inductive invariants, the refinement mapping to `Outage` |
| `Scheduler_proofs` | theorems about `Scheduler` and `Monitoring` |
| `Monitoring` | `Scheduler` together with the API requests that write its tables |
| `BoundedLog` | abstract: a log that keeps its newest lines |
| `AppLog` | the ring buffer and its fan-out |
| `AppLog_proofs` | theorems about `AppLog` |
| `Mailbox` | abstract: a mailbox for one event per channel |
| `Channels` | the notification channels, the dispatcher and its sends |
| `Channels_proofs` | theorems about `Channels` |
| `Checkers` | the verdict of each checker as a function of settings, time and target |
| `Checkers_proofs` | theorems about `Checkers` |
| `QueryCache` | one entry of the client's query cache (TanStack Query) |
| `MonitorsPage` | the Monitors page and the Groups & Labels settings over that cache, with their handlers and another client |
| `MonitorsPage_proofs` | theorems about `MonitorsPage` |
| `MonitorForm` | the create and edit form, the handlers that validate it, other consoles |
| `Backup` | export, import and the tab that asks for them, over `MonitorForm` and the scheduler's writes |
| `Backup_proofs` | theorems about `MonitorForm` and `Backup` |
| `Console` | accounts, tokens and keys; the pages that create, use and change an account, in several tabs |
| `Console_proofs` | theorems about `Console` |
| `Publishing` | the switch that hides URLs, the card of a channel, and a visitor of the public pages |
| `Publishing_proofs` | theorems about `Publishing` |
| `MCScheduler`, `MCLifecycle`, `MCClaim`, `MCMonitoring`, `MCAppLog`, `MCChannels`, `MCCheckers`, `MCMonitorsPage`, `MCBackup`, `MCConsole`, `MCPublishing` | values of the constants for TLC |

`MCLifecycle` and `MCClaim` also ASSUME the hypotheses of the theorems, so that
the runs which use them show that the hypotheses can be met.

### Scheduler

| Model | Code |
|---|---|
| `row[m]` | the row of `monitors`: there, `active`, `status`, and the age of `last_checked_at` |
| `open[m]` | unresolved rows of `incidents`: 0, 1, or 2 for "several" |
| `logged[m]` | status of the newest row of `monitor_logs` |
| `alert[m]` | the last event given to the channels |
| `check[t][m]` | the goroutine of tick `t` that checks `m`: where it is, the status the SELECT read (`snap`), the attempt, the time in the present step (`clock`), what is left of the tick's context (`left`), the last result |
| `cron`, `stopping` | the cron job's timer and whether it was stopped |
| `RunChecks` | `runChecks`: SELECT of the due monitors (`Due`), then one goroutine each, at most `Workers` at a time |
| `Claim`, `Attempt`, `Retry`, `GiveUp`, `InsertLog`, `UpdateMonitor`, `CreateIncident`, `ResolveIncident`, `Notify` | the statements of `checkMonitor` in their order; each may fail, and none stops the check |
| `Advance` | a unit of time, once nothing is due at this moment |
| `Crash`, `Stop`, `Restart` | the process ends at any point, or by SIGTERM after the ticks in progress; a new one starts |

Two branches of `checkMonitor` are not in the model. No checker returns an
error (each turns it into a `down` result), so the early return of lines 138–142
is unreachable. The query for the incident's start (lines 235–245) only feeds
the text of the message. `active` changes nowhere in the API; only an import
inserts inactive monitors.

A unit of time stands for 5 s: the cron period is 2, a context 6, a pause 1.
Time is relative (ages and remaining times, capped where the code no longer
tells them apart), so the state space is finite although behaviours are not.
A statement takes up to `DbDelay`, a checker up to its timeout (`VerdictInTime`
of `Checkers` is what that rests on; for a UDP monitor `Timeout` includes the two
seconds its checker adds). Two calls outlive their context: a Redis client reads
under timeouts of its own, and nothing ends a PostgreSQL handshake but the server.
A target whose `Answer` holds "stall" may keep a call, its check and with it its
tick (`wg.Wait`) for as long as it likes. That a check announces its result is one
step here; `Channels` has the sends.

### Monitoring

Adds the requests that write the scheduler's tables while it runs:
`HeartbeatHandler.Push` in its two statements, `IncidentHandler.Update`
(resolve, reopen), `MonitorHandler.Delete` with the foreign keys' effects (logs
and heartbeats go, incidents stay without a monitor), and
`ResetMonitoringData`, one TRUNCATE at a time, any of which may fail. `Edit`
bounds the number of requests. One ping per monitor is in flight at a time (a
bound).

### AppLog

`Write` is split where the code releases the mutex: storing the line and copying
the set of subscribers is one step, each non-blocking send is another. The
standard logger holds a mutex around `Write`, so two Writes never overlap.
`Unsubscribe` is left out: its only caller ranges over a channel that nobody
closes. A line is its number; levels and empty lines are left out.

### Channels

| Model | Code |
|---|---|
| `channel[c]` | the row of `notification_channels` of type `c`, which is UNIQUE: there, enabled, its config readable |
| `saving[r]` | a request between the UPDATE of `Upsert` that found no row and its INSERT |
| `loaded` | the rows `Notify` has read |
| `send[e][c]` | the goroutine that sends event `e`: spawned, sending, accepted by the receiver, ended, lost with the process; and how long it has been running |
| `inbox[c]` | what the receiver accepted, in the order it did |
| `off[c]` | how long the channel has been disabled or deleted |
| `UpsertUpdate`, `UpsertInsert`, `DeleteChannel`, `SetEnabled` | the requests, one action per statement |
| `LoadChannels`, `Dispatch` | the SELECT and the loop of `Notify` |
| `BeginSend`, `Accept`, `EndSend` | a goroutine's `Send`, the receiver's side of it, its return |
| `Exit`, `Pass` | the process ends; a unit of time |

Events are the transitions of one monitor, at least `Gap` apart (its interval).
A send runs under a context of 15 s with an HTTP client of 10 s: the client's
timeout is what ends it. A receiver is taken not to accept a request whose client
has given it up; a proxy that queues requests for longer could. The four `Send`
functions differ in the text they send only.

To the receivers all of this is a `Mailbox` (`MailboxPerChannel`): an event is
posted into the mailboxes of channels that are on, all of them empty by then, and
is taken or lost. The mailbox of `c` holds the newest event while its row is loaded
or its send can still be accepted (`UnderWay`).

### Checkers

Each `Check` is a function from an attempt (the monitor's settings, what is left
of its context, what the target does and when) to a verdict and the time it
took. `Await` is a network call under a context; the calls of one checker share
it. Answers that come exactly at the deadline count as late. A certificate is
there or not, trusted or not, and has hours left; the TLS library refuses it
before the code's own test of its expiry is reached. DNS records have a type and
a value; one lookup serves A, AAAA and unknown types, and an MX answer is shown
with its preference, so that an expected value without it never matches.

`FrameEnds` stands for `bytesReader.Read`, which ends with an error that is not
`io.EOF`; that net/http then breaks the request off is how the library is
modelled.

### QueryCache

An entry has its data, a mark for "invalidated", and the fetch under way: asked,
then answered with what the server holds at that moment, then delivered. The
operators are those of TanStack Query under the options of `App.tsx`: a fetch
under way is joined; an invalidation marks the entry and, if somebody observes
it, cancels the fetch and starts another, unless it is the first load; a delivery
clears the mark whichever came first; a failed fetch leaves everything. `at` is
the version of the server's data an answer was computed from.

### MonitorsPage

| Model | Code |
|---|---|
| `db`, `nextId` | the rows of `monitors` and the sequence of their ids |
| `cache[k]` | the queries `monitors`, `monitor-groups`, and those of the two settings lists |
| `page` | the component state of the mounted route: selection, filters, view, open form, bulk form; or the rename row and the delete dialog of each section |
| `calls` | requests in flight: sent, answered ("ok") or lost ("err"), whether their component is still mounted and their `mutate` is the latest |
| `Find` … `ApplyBulk`, `StartRename` … `ConfirmDelete`, `Navigate` | one action per control of the two pages |
| `Handle`, `Refuse`, `Settle` | the handler's statement; a refusal or a lost request; `onSuccess` and the `mutate` callbacks |
| `OtherWrites` | another console, or the reset of the monitoring data |

The other client creates, edits and deletes monitors and resets them. Three parts
are for the properties only: `births` and `born` tell monitors apart that had the
same id, `ver` and `at` count the changes of each answer, `must` is the version
the page has been told of, `early` the one it was told of while a list was being
loaded for the first time. `Param` is what `c.Param` hands a handler for a name the
page put into the path: the name, or its escapes. `interval` stands for the other
numbers of a monitor as well. What the form sends is in `MonitorForm`.

### MonitorForm and Backup

`form` is the open form: a copy of the row, except for the connection string,
which the API never returns; `saving` and `test` are its two requests. The
handlers are `Create`, `Update` (which validates nothing) and `TestConnection`.
Numbers are in halves, since the boxes take fractions and the server refuses
them. It also refuses what is wider than its column (`Fits`: `Long` names,
`MaxColumn`; `MaxInt` is the server's own int) and, without a key (`HasKey`), a
connection string (`Encrypts`); the form looks at none of this. `http` stands for
the types that need a URL.

`Backup` adds the history (`hist`: how often a log line or incident of the file is
in the tables), the backup file (`disk`), an export in its three SELECTs, and
imports: one transaction, one monitor of the file at a time, at read committed, so
that it sees what others commit meanwhile. `ImportMonitor` takes the lookup, the
INSERT and the history of one monitor together: of what others can do between
these statements only a deletion makes a difference, and it fails the next INSERT
(`FailImport`); what an import inserts is invisible until `CommitImport`, so
that duplicates by two imports or by a check are there. `FormStep` is any step
of `MonitorForm`, `Check` a write of the scheduler. `applied` (for the properties)
is the file imported last, while nobody else has written since.

### Console

| Model | Code |
|---|---|
| `users`, `keys`, `next` | `users`, `api_keys` and their sequences, which TRUNCATE leaves as they are |
| `browser[t]`, `stored[b]` | the browser a tab belongs to; the token in its `localStorage` |
| `tabs[t]` | route, first-run check, what each form of the profile shows and the timers that will reset it, dialogs |
| `calls`, `polls` | requests of the pages, with the token they were sent with; the periodic query of a tab |
| `Register`, `ChangePassword`, `ResetAllData` | the handlers in their statements (count and insert; compare and overwrite; one TRUNCATE after the other) |
| `Deliver`, `ArrivePoll` | the answer reaches the tab; a 401 takes whatever token is stored by then and loads the sign-in page |
| `Expire` | the token's 72 hours are over |

A token is a user's id; `born`, which no code reads, says whose it was.

### Publishing

Three ways to hold what the server holds. The switch shows its own click before
the server has it (`ToggleShowURL`: fetches cancelled, the old value kept; `Settled`:
put back on an error, then invalidated). The card copies the row into its fields
when the row's id changes (`Synced`) and saves them whole; `Upsert` is in its two
statements. The visitor reads monitors, then the rest, and follows links whose
slug the browser computes and sends (`Param`: escaped signs arrive escaped). A name
is its letter case, what separates its words (a hyphen, a space, or two), and
whether it has a sign a path reserves. `at` marks an answer that a click overtook while
nobody observed the query; it is what `SwitchTellsTruth` leaves out.

## 3. What the runs show

Runs that pass:

| Run | Bounds | Shows |
|---|---|---|
| `lifecycle` | 1 monitor, 2 ticks, timeout 5 s, 1 retry, interval 30 s, a target that is up, down or hangs, 1 graceful restart | `IncidentsFollowStatus`, `AlertsAlternate`, `StatusFollowsLog`; the refinement `OutageLifecycle`; the liveness properties `OutageAnnounced`, `RecoveryAnnounced` |
| `claim` | 2 monitors, 2 workers, 2 ticks, 1 crash | `SingleFlight`, `NeverCutShort`, `LastCheckedMonotone` |
| `overlap` | interval 10 s, attempts that answer, hang for their 15 s, or outlive their context for ever; 2 retries, 4 ticks | `TicksBounded`: apart from ticks held by a call that never ends, three at most are in progress, a bound that is reached; here checks meet the end of their context |
| `edits` | 1 monitor that can also be degraded, any 2 requests, 1 fault of any kind (a failed statement, a crash, a graceful restart) | `ResetLeavesNothing`, `DeletedGoesQuiet`; `StatusRecovers`: the status reaches and keeps what the target answers |
| `applog` | ring of 3, 7 lines, 2 subscribers with channels of 2 | `RingIsBoundedLog`, `ChannelsInOrder`, `WritesEnd` |
| `channels` | 2 channels, one that accepts within 5 s and one that hangs, 1 saving request, 2 events 10 s apart, failing loads, exits | `ArriveInOrder`, `QuietWhenOff`, `NotDelayed`, `EnabledChannelHears`; the refinement `MailboxPerChannel` |
| `checkers` | every type of monitor; answers after 0 to 5 s, three budgets, certificates around both thresholds, every set of four DNS records, every kind of database driver, 2 Redis commands | `VerdictInTime`, with the excess of the UDP, Redis and PostgreSQL checkers; `OnlyCertificatesDegrade`, `WarnedInTime`, `UpHasEvidence`, `PingFallsBack` |
| `page` | 1 monitor at the start and 1 created, 1 group, 2 labels, one of which travels escaped; 3 clicks or foreign writes, each with a request that is handled, refused or lost; any polls and failed fetches | `PicksKeepIdentity`, `OwnWritesVisible`, `RenameKeepsLabels` |
| `form` | 1 database monitor with a stored connection string, a backup of it and of one other monitor, 2 fields changed, fractions, a number and a name wider than their columns, a key, 2 imports, 2 forms, exports or foreign writes | `AcceptedByServer`, `DatabaseHasDSN`, `StoredDSNKept`, `ImportComplete`, `RetryAddsNothing` |
| `console` | 2 tabs in one browser or in two, a new instance or one signed in, 2 accounts, 2 passwords, 3 clicks, lost polls or tokens that expire | `CredentialsNameTheirOwner`, `SavingIsUnderWay`; the liveness property `SignOutReachesEveryTab` |
| `publishing` | 2 monitors, names "Web API", "web  api" and "Web API: EU", 2 texts, 2 rows, 3 clicks, foreign edits or losses | `SwitchTellsTruth`, `TypingSurvives`, `GroupLinkReaches` |

Why these bounds are enough. Monitors interact only through the workers of a tick,
so one monitor shows everything about incidents and statuses and two show the
queue. An interval of 30 s or more lets at most two ticks be busy with one
monitor; `overlap`, where every tick finds it due, has four: the three that 30 s
of context leave room for and one that a stalled call may hold. One fault and two requests reach every order of a
fault, what it interrupts and what comes after. In `edits` statements take no time
(with `DbDelay` 1 and a target that is never degraded it passes too, in five
minutes); in the other runs of the scheduler they may. Two events are enough for
one send to overtake another, and two channels for one to wait for the other. The
clocks of `checkers` lie on both sides of every deadline of a checker. The ring of
3 wraps twice within 7 lines. In `form` no box is left blank (the form refuses it, the server takes it for
a default) and no port is typed: those are left to the proofs.

In the four runs of the client a bound on clicks is what keeps them finite;
answers, polls and deliveries are not counted. Two requests are enough to overlap and
a third to meet what they leave behind: with three the timer of a first save can let
a second be overtaken by a third, which is what `SavingIsUnderWay` is about. Every
interleaving of their handlers, losses and fetches is explored. The safety properties of all four are proved for
any bound (section 4). Longer random simulations came first; one of them showed the
case `SwitchTellsTruth` leaves out.

Each property has a mutant in `PROJECT.json`: a plausible error in a definition that
makes TLC find the property violated under the same configuration.

One run finds a disagreement between the code and what the repository says:

| Run | Finding |
|---|---|
| `defaults` | default timeout (30 s) and retries (1): a target that hangs uses up the 30 s context in its first attempt, the check is dropped between attempts, and the outage is never logged or announced (`CHANGELOG.md:36`) |

Other differences, seen while modelling:

- *Queue.* A monitor that waits for a worker is not claimed yet; the next tick
  selects it again and both announce the outage (`scheduler.go:90`), which the
  comment at line 106 excludes. With two monitors and one worker TLC finds
  `AlertsAlternate` violated.
- *Degraded.* Down, degraded, up is not a recovery (`scheduler.go:219`): the
  incident stays open, though `README.md:30` has incidents resolved automatically.
- *Heartbeats.* A ping sets a down monitor to up (`heartbeat.go:95`): the incident
  stays open and no recovery is announced.
- *gRPC.* The body of the gRPC request ends in an error other than `io.EOF`
  (`checker.go:646`); net/http breaks the request off, and a gRPC monitor
  (`CHANGELOG.md:118`) is always down.
- *Database targets that never answer.* lib/pq gives only the dial its context and no
  `connect_timeout` is set: a PostgreSQL server that accepts a connection and never
  answers keeps the check (`db.go:120`) and its tick (`scheduler.go:98`) for ever,
  every tick that selects the monitor again is kept too, and the outage is never
  announced. A Redis client reads under the monitor's timeout, not what is left of the
  context (`db.go:156`). The comment at `db.go:20` promises to "fail quickly without
  hanging the scheduler goroutine pool".
- *Group pages.* `README.md:29` promises one per group. "Web API" and "web-api"
  share one; the page of a name with two spaces in a row is not found, since the
  browser turns them into one hyphen and the database into two; nor is that of a name
  with one of `: & + , = @ $ ;`, whose slug arrives still escaped
  (`usePublicStatus.ts:61`, `public.go:122`), or with a `/`, which is no route.
- *Groups and labels* with such names cannot be renamed or deleted: the handlers look
  for the escaped name, change nothing and answer 200 (`grouplabel.go:73`, `:99`,
  `:120`, `:154`), unless a name happens to be written like the escapes, which is then
  changed instead. A write of the Monitors page does not refetch the lists of the
  settings, which show it once their data is 30 s old.
- *A write during the first load* of a list: the refetch joins the load
  (`useMonitors.ts:55`), whose older answer hides the write until the next one.
- *No `DB_ENCRYPTION_KEY`.* `.env.example:15` offers an empty key as "plaintext
  storage"; the server then refuses to create, change or test a database monitor
  with 500 (`monitor.go:212`, `:276`, `:633`). Numbers beyond INT and names beyond 255
  letters are a 500 as well; the form looks at neither.
- *Registration* ignores an error of the COUNT that keeps a second administrator out
  (`auth.go:158`).
- *After a full reset* the client goes to `/register` (`Settings.tsx:1039`), which
  is not a route.
- *A wrong current password* is answered with 401 (`profile.go:147`), which the
  client takes for the end of the session (`api.ts:23`).
- *A channel's switch* clicked before the list of channels has arrived saves the
  empty fields over the stored ones (`Notifications.tsx:247`).
- *API keys.* Enter in the name box generates a key although one is being
  generated, and closing the dialog forgets a key under way (`Settings.tsx:374`).
- *Forms.* A save that succeeds closes whatever form is open by then
  (`Monitors.tsx:1608`), and a bulk form applies to whatever is selected by then.
- *Imports* of the same file at the same time insert its monitors twice
  (`backup.go:329`); one after the other adds nothing. With two monitors of the same
  name and URL the lookup takes either, and a second import may add to the other.
- *The switch for URLs* can show an old value until the next fetch when its click
  settles while another page is open and a fetch, already answered, is under way.
- *Signing out* leaves the query cache; the next user of the tab sees it until
  the first fetch.
- *Log view.* A tab that is opened again shows the old snapshot and new lines
  with a gap between them (`useAppLogs.ts:36`).

The claim (`scheduler.go:108`) keeps a monitor from other ticks for one interval,
not until its check ends, as the comment at line 102 has it: an interval shorter
than a check gives two checks at once, which is why `ClaimProtects` needs its
hypothesis. Heartbeats are never read, though `docs/database.md:35` says that
missing ones trigger an incident. Only the HTTP checker sets `SSLExpiryDate`
(`checker.go:147`), though `docs/database.md:49` says it is written after each SSL
check. A host that drops packets to port 80 uses up the context before a ping
monitor tries port 443 (`checker.go:219`). An AAAA monitor is up for a host with A
records only (`checker.go:270`).

Fairness. `Advance \/ Tick` is weakly fair: time goes on and the cron job fires.
Each `CheckMonitor(t, m)` is weakly fair: the Go runtime runs every runnable
goroutine; not, though, one in a call that may outlive its context (`Runnable`). A
stopped server is restarted (the README runs it under `restart:
unless-stopped`). In `Monitoring`, a request that began is carried to its end. In
`AppLog`, only the writer's own sends are fair; nobody need receive. In `Channels`
the goroutines and time are fair, and a receiver with an `AnswerTime` below the
limit accepts by then; requests, failed statements and exits are not fair. In
`Console` the first-run check of a tab, its polls and their refusals are fair:
TanStack Query repeats what is observed while the tab is in front. Other requests,
clicks, losses and expiry are not. Faults,
requests and what the target answers are never fair. The liveness properties take
the target's lasting behaviour as their hypothesis (`AttemptsEnd`).

## 4. What is proved

For every number of monitors, ticks and workers, every interval, timeout and
retry count, every period and length of context, and every bound on faults:

| Theorem | Statement | Hypothesis |
|---|---|---|
| `TypeCorrect` | `Spec => []TypeOK` | – |
| `ClaimProtects` | `Spec => []SingleFlight` | `ClaimHypothesis`: a worker for every monitor, no failed statement, a claim lands before the next tick, no interval shorter than a context. Crashes are allowed |
| `NeverBackwards` | `Spec => LastCheckedMonotone` | `ClaimHypothesis` |
| `BudgetSuffices` | `Spec => []NeverCutShort` | `BudgetHypothesis`: a worker for every monitor, and claim + attempts + pauses + statements take less than a context, in which every attempt ends: no target stalls a call. Every fault is allowed |
| `IncidentsFollow`, `AlertsAlternating`, `StatusIsLogged` | `Spec => []IncidentsFollowStatus`, `[]AlertsAlternate`, `[]StatusFollowsLog` | `LifecycleHypothesis`: both of the above, no crash, a checker that answers up or down |
| `ImplementsLifecycle` | `Spec => Lifecycle!Spec`, the safety part of the refinement | `LifecycleHypothesis` |
| `NoPileUp` | `Spec => []TicksBounded`: the ticks in progress that no stalled call holds are no more than begin within a context | –. Every fault is allowed |

For the same constants, with every request of `Monitoring` between any two
statements, about any monitor and any number of times:

| Theorem | Statement | Hypothesis |
|---|---|---|
| `ClaimProtectsAmongRequests` | `MonitoringSpec => []SingleFlight` | `ClaimHypothesis` |
| `BudgetSufficesAmongRequests` | `MonitoringSpec => []NeverCutShort` | `BudgetHypothesis` |
| `NoPileUpAmongRequests` | `MonitoringSpec => []TicksBounded` | – |
| `AlertsAlternateAmongRequests` | `MonitoringSpec => []AlertsAlternate` | `LifecycleHypothesis`, and no heartbeats: a ping writes the status itself, unannounced |
| `LeftAloneFollows` | `MonitoringSpec => OthersUndisturbed`: a monitor no request is about keeps incidents, notifications, log and status that agree | `LifecycleHypothesis` |
| `DeletionIsComplete` | `MonitoringSpec => []DeletedLeavesNothing`: no late statement gives a deleted monitor an incident, a log or a heartbeat | – |
| `DeletionWindsDown` | `MonitoringSpec => DeletedWindsDown`: a deleted monitor is never checked anew, and what checks it lives no longer than a context, unless a call in its tick is stalled | – |
| `ResetIsFinal` | `MonitoringSpec => []ResetLeavesNothing` | – |

For every set of channels and requests, every length of context, client timeout
and answer time, under `EventsApart` (the events of a monitor are no closer than
a send lives: true for intervals of 10 s and more, the period of the cron job):

| Theorem | Statement |
|---|---|
| `InOrder` | `ChannelSpec => []ArriveInOrder` |
| `SilentWhenOff` | `ChannelSpec => []QuietWhenOff` |
| `Independent` | `ChannelSpec => []NotDelayed` |
| `ImplementsMailbox` | `ChannelSpec => MailboxPerChannel`: the whole of the abstract specification |
| `ChannelTypes` | `ChannelSpec => []ChannelTypeOK` |

For every set of attempts:

| Theorem | Statement |
|---|---|
| `EndsInTime` | `CheckerSpec => []VerdictInTime`, with the excess of three checkers (`Overrun`) |
| `DegradedByCertificate` | `CheckerSpec => []OnlyCertificatesDegrade` |
| `WarnsInTime` | `CheckerSpec => []WarnedInTime` |
| `UpIsEarned` | `CheckerSpec => []UpHasEvidence` |
| `FallsBack` | `CheckerSpec => []PingFallsBack` |

For every capacity of the ring and the channels, and every set of subscribers:

| Theorem | Statement |
|---|---|
| `LogTypeCorrect` | `LogSpec => []LogTypeOK` |
| `RingRefinesLog` | `LogSpec => RingIsBoundedLog` |
| `SubscribersSeeOrder` | `LogSpec => []ChannelsInOrder` |

For every set of tabs, browsers, accounts and passwords:

| Theorem | Statement |
|---|---|
| `Credentials` | `Spec => []CredentialsNameTheirOwner` of `Console` |
| `Saves` | `Spec => []SavingIsUnderWay` of `Console` |

For every set of monitors, group names and texts:

| Theorem | Statement |
|---|---|
| `SwitchIsTrue` | `Spec => []SwitchTellsTruth` of `Publishing` |
| `TypingIsKept` | `Spec => TypingSurvives` |
| `LinksReach` | `Spec => []GroupLinkReaches`, for names without two spaces in a row or a reserved sign |

For every set of groups, labels, forms and filters, on a phone or not, and every
table at the start:

| Theorem | Statement |
|---|---|
| `PicksAreKept` | `Spec => []PicksKeepIdentity` of `MonitorsPage` |
| `LabelsAreKept` | `Spec => RenameKeepsLabels`, for names that reach the handler unchanged |
| `OwnWrites` | `Spec => []OwnWritesVisible`, for lists that are loaded |

For every set of monitors, texts, numbers and history, and every backup file:

| Theorem | Statement |
|---|---|
| `RefusalsExcused` | `Spec => []AcceptedByServer` of `Backup`, with the steps of `MonitorForm`, with or without a key |
| `DatabasesConnected` | `Spec => []DatabaseHasDSN` |
| `SilentSaveKeepsDSN` | `Spec => StoredDSNKept` |
| `ImportsComplete` | `Spec => []ImportComplete` |
| `RetriesAddNothing` | `Spec => RetryAddsNothing` |
| `ImportsAddOnce` | `Spec => ImportAddsOnce`: an undisturbed import changes no monitor that was there and adds no monitor or item twice, whatever the file repeats |

The last four tables hold for every bound on clicks, requests and rows.

The hypotheses of the first three tables are not ASSUMEd of the constants, because
the code accepts monitors that break each of them; the run `defaults` and the
list that follows it show what happens then.

How the proofs go. `SingleFlight` is not inductive: it says nothing of how long a
claimed monitor stays claimed. `ClaimInv` adds that a queued check belongs to the
newest tick (`clock = cron`) and that, after the claim, the age of the row plus
what is left of the context never exceeds a context; a monitor that is due is
then older than any live check of it. `AgeInv` adds that no more time has passed
since the last attempt returned than since the claim. `BudgetInv` says for each place in a check
how much of the context it can have used. `StageInv` says, for each place in the
only check of a monitor, what its row, incidents, newest log line and last
notification are; the three lifecycle properties and each step of the refinement
follow from it, with `ClaimProtects` and `BudgetSuffices` supplying that there is
only one check and that its statements are executed. It is a conjunction over the
monitors, and `LeftAloneFollows` carries the conjunct of one monitor through the
steps of all others. `SlotInv` says that the checks of one tick share its context
and that the contexts of two ticks that live are a period apart. A tick whose context
has expired ends before time passes, unless a call in it is stalled (`GoingIsAlive`);
the others map to different multiples of the period within a context, and the
pigeonhole does the rest. Requests break `StageInv` (a resolved incident under an outage, a row that is
gone); `ToldInv` is what they leave: the last announcement is what the status says
between checks and what the tick has read during one, and the two statuses a
transition compares are the row's own. `NeverBackwards` has no counterpart among
requests, because a ping moves `last_checked_at` too. `Swept` says that once a reset
is done every row is gone, resolved incidents included, so that a late check, which
writes nothing about a monitor without a row, finds nothing to reopen. `RingRefinesLog` shows that
the snapshot of a `Write` is `Append`, or `Append` of the tail once the ring is
full, by arithmetic modulo `Cap`. `ChannelInv` ties the clock of a live send to
the time since its event and to the time its channel has been off, so that a send
of an earlier event is out of time when the next one starts. For the same reason
only sends of the newest event can still be accepted, which is why one place per
mailbox is enough in `ImplementsMailbox`. A verdict is a
function of the attempt; its properties are proved checker by checker from
`AwaitInTime`, what a call under a context may return.

In the client, `CredInv` and `PickInv` say that every id a credential, the
selection, a form, a list or a request holds has been given by the sequence before: as the
sequence never goes back, a new row cannot take such an id, and a row that is
still there is the one that was meant. `SaveInv` says that the newest request of a
form that is saving belongs to the page on screen. `SwitchInv` says that, when no
click is under way, an answer still to be delivered and an entry without a mark
hold the truth; it rests on `Settled` marking the entry after every click, which
cancels the fetches that could bring an older value back. `FreshInv` does the
same with versions: a request has changed nothing its page shows that its
success will not have fetched again (`EffectInvalidated`), and no fetch in
flight is older than a write the page was told of, but for the first load, which
`early` keeps apart until the fetch after it. `VisitorInv` carries the
monitors a link promises through the statements of `GetGroupStatus`. `FormInv` says
that the monitor of an open form or a request, once it has a connection string,
keeps one until it is deleted, whatever other consoles do, and that no import holds
its id back: a payload without a string is then one the server can complete.
`BackupInv` adds that, in what an undisturbed transaction sees, every entry it has
done is there with its history (`Progress`), and that it has inserted nothing when
the file was there before (`Idle`). `Careful` says of the same transaction
that what it has inserted was missing outside and is there once within.

Only model-checked: the liveness properties and the fairness part of
`OutageLifecycle` (TLAPS has no support here for ENABLED), `DeletedGoesQuiet`,
`StatusRecovers`, `EnabledChannelHears`, `WritesEnd` and `SignOutReachesEveryTab`.
Every safety property of the runs is proved. Proved, and in no run: `TypeOK`,
`LogTypeOK`, `ChannelTypeOK`, `DeletedLeavesNothing`, `DeletedWindsDown`,
`OthersUndisturbed` and `ImportAddsOnce`.

## 5. Not modelled, and the plan

Not modelled for good, because it is library code or text, or reads without
keeping anything: message texts and formats, the uptime percentage on monitor
rows, migrations, configuration, static files, the version check, AES-GCM, the
set of WebSocket clients, the aggregates of `stats.go`, and the pages that only
render what the API answers (overview, incidents, heartbeats, API documentation).

Not modelled yet: the log view, the General tab of the settings (one upsert per
key), the test buttons and previews of the Notifications page, suggestions while
typing groups and labels, folded sections. Of the log view the code promises
neither order nor completeness, so that there is no property to check before
that is decided.

What would come next:

1. Proofs: what the incidents of a monitor still promise when an operator resolves
   and reopens them; the type invariants of the modules of the client; a refinement
   of the requests of a page to an abstract read and write.
2. `UptimeSeries`: the buckets of `uptime_series.go` against a reference.
3. `LogView` over `AppLog`: which lines the view misses or repeats.
