# A TLA+ model of ping

ping is a self-hosted monitor for cron jobs (heartbeats) and HTTP endpoints. One
Go binary runs as an API server, as workers, or both; all durable state is in
Postgres, and every process may run in several replicas. This directory models
the part of it that decides when a monitor is up, late or down, who is told, what
is kept and shown of it, and who may ask. TLC checks it on small instances, and
TLAPS proves the central facts for every instance. Paths below are relative to `src/backend/`.

## The system

| Part | State | Operations | What is hard | What makes it correct |
| --- | --- | --- | --- | --- |
| Ingest (`server/checkin.go`, `store/checkin.go`) | `monitors` row, `checkins`, `events`, `alerts` | success, start and fail pings, one transaction each, row locked with `FOR UPDATE` | races with the scheduler, with other pings and with the API; the clock is read before the lock | state, timeline and outbox agree; one alert per transition |
| Scheduler (`worker/scheduler`, `store/scheduler.go`) | the same | a tick claims due rows (`SKIP LOCKED`), marks them late or down, commits | replicas, crashes between claim and commit, page limit, pauses during a tick | no missed outage, no double transition, paused rows left alone |
| Management API (`server/monitor.go`, `server/events.go`, `store/monitor.go`, `store/events.go`) | the same | create, PATCH, delete, pause, resume, mute, unmute | PATCH and resume read first and write later | stored schedules validate; a resumed monitor is armed |
| Schedules (`schedule/`) | none | `Validate`, `NextOccurrence` | boundaries, time zones | late only after the occurrence |
| Alerter (`worker/alerter`, `store/alerter.go`) | `alerts`, `alert_failed` events | queue reminders, claim, send, mark, back off, fail, suppress | the claim commits before the send: crashes, lost acknowledgements and replicas in between | at most one delivery, bounded attempts, visible failures, spaced reminders |
| Prober (`worker/prober`, `store/prober.go`) | `monitors` row, `probe_results`, timeline and outbox | claim due rows, probe, record | the result is judged by the row as the claim saw it, seconds before | confirmed downs, alternating transitions, one warning per certificate |
| Rollup (`worker/rollup`, `store/rollup.go`) | `daily_stats`; deletes old rows | roll up yesterday, prune | missed days, outages across midnight, pruning | a day's row has the counts and the downtime of that day; nothing recent is pruned |
| Lists (`server/events.go`, `server/monitor.go`, `store/events.go`) | none; reads `events`, `checkins`, `probe_results`, `monitors` | one page after another, newest first | rows commit out of order of their ids, are pruned and change between two pages | no row twice, none that was there throughout skipped, the walk ends |
| Accounts and API keys (`store/user.go`, `store/apikey.go`, `server/apikey.go`, `server/auth_middleware.go`) | `users`, `api_keys` | register, authenticate, create, revoke, use a key | the lookup, the touch and the limiter are separate steps | a revoked key is refused |
| Sessions (`store/session.go`, `server/auth.go`) | `refresh_tokens` | login, rotate, logout | rotations of one token at once, rotation racing a revocation, requests that die half way | a family never forks, and a revoked one stays revoked |
| Rate limiter (`store/ratelimit.go`) | a Redis counter per key | `Allow` | `INCR` without `EXPIRE` | a window ends |

The workers never call each other: the scheduler, ingest and the prober write
the outbox in the transaction of the transition, and the alerter reads it. The
parts meet in the rows of `monitors`, `events` and `alerts`. The rollup reads the
rows all of them leave and deletes the old ones; the lists read them page by page
meanwhile. Sign-in, sessions and API keys stand before all of the API and share
nothing with the workers.

## Modules

* `Heartbeat` - ingest, scheduler and management API on heartbeat monitors.
  `mon` is the `monitors` table, `log` the `events` of each monitor with the
  outbox (`alerts[j]` is the event an alert row names), `checkins` the table of
  that name, `lock` the row locks. A locking transaction is two actions, one that
  takes the lock and keeps the row it read (`PingLocks`, `Claim`) and one that
  writes everything and commits (`StartCommit`, `ApplySuccess`, `ApplyFail`,
  `EvaluateDueMonitors`); `RequestAborts` and `SchedulerAborts` are its rollback,
  which is also what a crash or a dropped connection amounts to. `ResumeRead` and
  `UpdateRead` are the plain reads that `ResumeCommit` and `UpdateCommit` build
  on later. `DeleteMonitor` and `PauseMonitor` are single statements that wait
  for the lock.
* `HeartbeatProofs` - the theorems about it.
* `Timeline` - the abstract specification: what a monitor promises its owner,
  without rows, locks, deadlines or probes. An outage begins and ends in one
  indivisible step, each end of it is notified once and in order, and only a
  resume ends one in silence. `Heartbeat` and `Prober` instantiate it as `Promise`
  (`PhaseOf` reads the phase from the `monitors` row, `NoticesIn` the notices from
  the outbox) and state `ImplementsTimeline`.
* `TimelineProofs` - that `Heartbeat` implements it.
* `AlerterProofs`, `ProberProofs`, `AuthProofs`, `FeedProofs` - the theorems about
  those modules.
* `Alerter` - the outbox and the alerter's tick: `EnqueueReads`/`EnqueueCommits`
  (the reminder statement and its snapshot), `Claim`, then one `Send` and one
  `Mark` per job, or `SuppressAlert` or `FailUnsent`. `inbox` counts what the
  mail server accepted for each alert row, `failures` the `alert_failed` events.
  Transitions and deletions of monitors come from the environment (`Transition`,
  `DeleteMonitor`, whose `Cascade` takes the rows along); what `Heartbeat` shows
  about transitions is one outbox row each.
* `Pipeline` - `Heartbeat` and `Alerter` in one system: they share the monitors,
  the clock and the outbox. A transition of `Heartbeat` puts its row into the
  outbox in the same step (`Enqueue`), a deletion takes the rows along, mute and
  unmute write their events, and the alerter's steps are those of `Alerter`,
  instantiated with the table as it is.
* `Prober` - http monitors: `ClaimDueProbes`, `RecordProbeResult`, `ProbeLost`,
  and the API operations and pings that meet them, PATCH of threshold and interval
  and the deletion included. `log` is the timeline with the probe results in
  commit order, `outbox` the alert rows, written in the same transaction (`Write`).
* `Rollup` - the rollup worker's tick: `StartTick` (the day and the three
  queries), one `UpsertDailyStat` per monitor, `RollupDone` or `RollupFails`, then
  `PruneRaw` for each DELETE of raw rows. The DELETE of events is two steps,
  `SelectEvents` (the subquery, on the statement's snapshot) and `DeleteEvents` (the
  rows it chose and, by the cascade, their alerts as they are by then): a reminder
  that commits in between only locks its event `FOR KEY SHARE` and does not stop it.
  What the rest of the system writes is its environment: raw rows, transitions,
  resumes, reminders, deletions, and alerts resolved at any time. `daily` is
  `daily_stats`, `pending` the pending alerts; `history` is what really happened and
  `torn` the monitors whose transitions were pruned out of order, which no code reads. `ResolvedAt`, `Outages` and `Overlap`
  are the SQL of `RollupDowntimeSeconds`; the reference it is compared with counts
  the instants the monitor was down.
* `RollupProofs` - the theorems about its control: pruning and completeness.
* `StatsProofs` - the theorems about its numbers.
* `Feed` - the five paged lists and a client that walks through one of them while
  transactions take ids and commit (`Insert`, `Commit`, `Rollback`), old rows are
  pruned (`Prune`), rows begin or cease to pass the filter (`Change`) and the
  monitor is deleted. `walk` is what the client has; `steady`, which no code reads,
  the rows that were there and passed the filter from its first page on.
* `RateLimit` - the fixed window of `Allow`: the counter of a key and whether it
  has a TTL; `INCR` and `EXPIRE` are separate steps.
* `Auth` - accounts, refresh tokens and API keys on top of it, with the four callers of
  `Allow`: register, login, `ingest` (a ping is counted here and recorded in
  `Heartbeat`) and the calls with an API key, which have a counter for each key
  (`Budget`); clients have one address. No handler opens a
  transaction, so every SQL statement and every Redis command is a step, and
  `RequestDies` ends a request between any two. A family of tokens is named by its
  first one. `closed`, a history variable, has the families revoked while no
  rotation was half done.
* `MCHeartbeat`, `MCPipeline`, `MCAlerter`, `MCProber`, `MCRollup`, `MCFeed`,
  `MCAuth` - the instances.

Abstractions. Times are small numbers; a cron expression is the spacing of its
instants (time zones and daylight saving are the cron library's). SQL NULL is
`Null` for times and 0 for the numeric schedule columns, which are positive when
set. A PATCH carries the schedule fields and `auto_resume`; names and texts are
left out, and so are the meta columns of events. Email is its outcome: accepted, retryable, permanent, or
accepted with the acknowledgement lost, which the code classifies as either of
the two failures. A probe is its outcome and the certificate it saw. Certificates
are numbered in the order of their expiry. In `Rollup` a day has a few instants, a
raw row is its table and whether it failed, percentiles are left out, a row is
visible at its `created_at`, and a tick reads a day's rows on the day it took from the
clock. In `Auth` a token is its id (a
client may present any token that was ever issued, an unknown one ends the request
at once), passwords and addresses are right or wrong, and access tokens are left
out: they are not stored. In `Feed` a filter is the set of ids that pass it, and a
page is read in one statement, in one step with the lookup of its monitor (a deletion
between the two would give an empty page instead of a 404). In `Pipeline` an outbox row is dated with the commit
of its transition instead of the start of the transaction, which makes it due later
than it is, never sooner.

Undefined order is kept: which of several rows with the same deadline a claim
takes, which rows another statement has locked at that moment, and when a
transaction waiting for a lock goes on are all choices.

## Runs

All of them name their bounds in the `.cfg`: `MaxTime` stops the clock, `MaxOps`,
`MaxFaults`, `MaxChanges`, `MaxAlerts` and `MaxProbes` end the supply of requests,
faults, changes of the target, outbox rows and probe results, `MaxRows` the ids of a
list. Where that supply
ends, behaviours stop, so deadlock is not checked there (the alerter and the
rollup always have a next tick, and their runs check it).

| Run | Instance | Shows |
| --- | --- | --- |
| `heartbeat_safety` | 1 monitor, 2 requests in flight, 2 replicas, 4 requests, 3 time units, period 1, grace 1, PATCH of period, kind and `auto_resume`, and an empty one | `TypeOK`, `NoRepeatedTransition`, `TimelineMatchesState`, `OneAlertPerTransition`, `ArmedWhileWatched`, `DecisionsAreCurrent`, `PausedIsLeftAlone`, `ImplementsTimeline` |
| `heartbeat_live` | 2 monitors, 1 request at a time, 2 replicas, page limit 1 | `SilentMonitorGoesDown`, `LateOnlyAfterOccurrence` |
| `heartbeat_schedule` | a PATCH that changes the kind | violates `StoredScheduleValidates` |
| `pipeline` | 1 monitor, 1 request at a time, 1 scheduler, 1 alerter, 1 crash or failed statement, 4 time units, page limit 1 in both workers | `OutageIsReported` |
| `alerter_faults` | 1 replica, with and without SMTP, 2 faults of any kind, 3 rows, 2 attempts, an outage of two cadences, mutes and a deletion | `TypeOK`, `DuplicatesNeedFaults`, `AttemptBudget`, `OutcomeIsVisible`, `RemindersSpaced`, `ResolvedIsFinal` |
| `alerter_replicas` | 2 replicas, no fault | violates `AtMostOnce` |
| `prober_safety` | 1 monitor, a threshold of 1 and none (the default of 2), 2 certificates, lost probes, pauses, PATCH requests and a deletion at any time, resumes and pings between probes | `TypeOK`, `NoRepeatedTransition`, `TimelineMatchesState`, `OneWarningPerCertificate`, `ConfirmedDown`, `ImplementsTimeline`, `BrokenTargetGoesDown` |
| `prober_inflight` | resumes and pings while a probe is in flight | violates `TimelineMatchesState` |
| `rollup_days` | 2 monitors, 1 replica, 4 days of 2 instants, retention 2, batches of 2, failed probe results as raw rows, 1 fault, 3 operations | `TypeOK`, `StatsExact`, `RolledUpIsComplete`, `RetentionKept`, `TransitionAlertsKept` |
| `rollup_resume` | an outage ended by a resume | violates `StatsExact` |
| `auth` | 2 requests in flight, 4 requests of any kind, 1 address, 1 API key, a window of 2 logins or 1 other request, 2 faults | `TypeOK`, `OneLiveToken`, `SessionNotLost`, `RevokedForGood`, `RevokedKeyRefused`, `WindowHasEnd`, `WindowsEnd` |
| `feeds` | each of the 5 lists, pages of 1 and of 2 rows, 3 rows, 2 instants | `TypeOK`, `NewestFirst`, `NothingSkipped`, `WalkEnds` |

Why the bounds are enough. A race of `Heartbeat` is between two deciders of one
row, so one row, two requests and two replicas have all of them; four requests
are an outage, a pause, a resume and a second outage, and three time units take a
monitor through late to down. What needs several rows (the page limit, starvation)
is checked with two rows and a limit of one. Two attempts are the fewest with a
retry and a last attempt; two faults are the smallest number that hits an alert twice. A threshold
of two is the smallest that absorbs a failure, and four probes go down, up and
half way down again. A retention of two days is the shortest that keeps the start
of an outage that crosses midnight until the day is rolled up, four days are those
after which something is pruned, and two monitors are what an upsert that fails
half way needs. Batches of two are full and not full within three operations, which
are an outage and a reminder, or an outage and a raw row; check-ins and probe results
differ in the table only, so one kind of raw row is enough. Four requests of `auth` are a sign-in and three requests about its
token, of which two at a time race, or a window that opens, fills and refuses.
Three rows with pages of one and two are a page in the middle of a walk and a last
page that is full or not. `pipeline` has one monitor, because what starves a row of
another monitor is checked in `heartbeat_live`; its rows still compete for a batch
of one, the down and the up of one outage and the next down. A row that is not due
before the clock stops counts as settled there. Requests and replicas are symmetric in `heartbeat_safety`,
monitors in `rollup_days`; the liveness runs use no symmetry.

Fairness. `worker.Run` loops until shutdown and logs a failed tick, so a replica
ticks for ever, and a claim that stays possible again and again is made (strong
fairness, because another replica's lock can make it impossible in between); ticks
do not all fail. A request in flight ends, by commit or rollback, because the server
and the database have timeouts. Time passes. Nothing is assumed about clients. For
the alerter in `Pipeline` weak fairness of the tick is enough, for one replica and
finitely many faults. In `Prober` each probe ends (its timeout) and a monitor that
is claimed again and again is recorded at some time. In `Auth` a request in flight
ends and Redis drops a key whose TTL is over; in `Feed` the client asks on while it
has a cursor, and nothing is assumed about the writers.

Every property has a mutant (`PROJECT.json`): the definition of one operation is
replaced by a plausible bug in it, and TLC finds the property violated.

## What the violated properties say

* `heartbeat_schedule`: `UpdateMonitor` uses `COALESCE` for each column, so a
  PATCH from period to cron keeps `period_s`, and a PATCH of a cron monitor that sets
  `period_s` and `cron_expr` stores both. The handler validated a merged
  schedule without it. The stored one does not validate, every later success ping
  is rolled back and answered 200, and the monitor goes down.
* `alerter_replicas`: the claim leaves no trace in the row, so a second replica
  sends what the first is sending. The same holds for one replica after a crash
  between `Send` and `MarkAlertSent`, where `store/alerter.go:49-51` says the alert
  is dropped "rather than risking a duplicate". `DuplicatesNeedFaults` is what does
  hold: with one replica, every message beyond the first is paid for by a fault.
* `prober_inflight`: a result overwrites the state with a value computed from the
  row at the claim, so what commits during the probe is undone without an event. In
  TLC's trace it is a failure ping: the column says up again, the timeline has an open
  outage, and the down alert is queued without a recovery to follow. A resume during
  the failing probe of a down monitor is the reverse: down again, and no event or
  alert says so.
* `rollup_resume`: a resume makes a down monitor up without an "up" event, and the
  downtime query waits for one. The outage is counted to the end of the day and as
  a whole day on every later one, until its "down" is pruned.

Seen while modelling, by changing a constant of a run: with two requests in flight
`LateOnlyAfterOccurrence` fails (a ping reads the clock before it waits for the
lock, so an older one can commit last and move the deadline back); with two probers
`NoRepeatedTransition` fails (both claim the row before either records); with two
alerters `RemindersSpaced` fails (both read the same snapshot); with `MayReturn`,
a target that serves two expiring certificates in turn, `OneWarningPerCertificate`
fails (only the last warned expiry is kept); with a PATCH that lengthens the period
`LateOnlyAfterOccurrence` fails (`next_deadline` is not re-armed). A resume keeps
`fail_streak`, so the failures `ConfirmedDown` counts may lie before it. A mute set
after the claim does not stop the sends of that batch. The DELETE of old
events has no order (`db/queries/events.sql:43-51`) and spares events with a pending
alert: with more old events than a batch holds (5000), or an alert that is pending for
the whole retention, it can take an "up" and leave its "down", and if a rollup follows
before the "down" is gone it stores a day of downtime that was none. Without its
exception for `torn` monitors `StatsExact` fails on that. A reminder that commits
during the DELETE loses its alert by the cascade, although the comment of the query
says that "pruning can never silently drop an alert the alerter hasn't dispatched yet"
(`db/queries/events.sql:38-39`): `TransitionAlertsKept` without its restriction to the
alerts of transitions fails on that. A day on which
no tick succeeds is never rolled up, although its rows stay for the whole retention
(`db/queries/checkins.sql:27-28` says that `daily_stats` "has already captured this
data by the time it's pruned"). An outage longer than the retention loses its "down"
and with it its downtime, which `StatsExact` excepts, and its reminders: the query
joins the latest "down" (`db/queries/alerts.sql:96-102`).

Seen while modelling, in the code: a row whose `http_config` does not decode is
never re-armed and keeps its place at the head of the prober's claim; as many of
them as the page limit (500) keep every other monitor from being probed.
`fail_threshold` is stored as it comes, and one that is not positive counts as 2. The statement that queues reminders inserts
none at all when one of the selected monitors is deleted before its commit; the next
tick repeats it. A rotation that is past its `UPDATE` inserts a valid successor even
if the family is revoked before the `INSERT` (`RevokedForGood` excepts it), and two
refreshes of one token at the same moment revoke the family, which the comment in
`RotateRefreshToken` wants. If the `INSERT` fails after the `UPDATE` the session is
lost (`SessionNotLost` is about behaviours without faults), and a logout answers
success although its revocation failed. A key whose `EXPIRE` was lost refuses for
ever once it is over its limit. `DeleteExpiredRefreshTokens` has no caller. The
monitors are listed by `(created_at, id)`, the other lists by `id` alone.

## Proofs

TLAPS proves every safety property of the passing runs, for every value of the
constants: any number of monitors, requests, replicas, tokens and rows, any
schedules, cadences, thresholds, retention and page sizes, any bounds. The named
assumption of each module (`ConstantsAssumption`) only says that the constants have
their types and that identities are distinct. Where the code keeps a property only
under a condition, the theorem assumes that condition by name. Each of them is needed:
TLC finds every property with an entry in the last column violated on an instance that
does not meet it (a second alerter; a second prober, or a resume or ping during a
probe; a returning certificate; and those of the sections above).

| Theorem | Property | Assumes |
| --- | --- | --- |
| **`HeartbeatProofs`** `TypeCorrect` | `TypeOK` | |
| `DecisionsCurrent` | `DecisionsAreCurrent` | |
| `PausedLeftAlone` | `PausedIsLeftAlone` | |
| `AlwaysArmed` | `ArmedWhileWatched` | |
| `TransitionsAlternate` | `NoRepeatedTransition` | |
| `TimelineTellsState` | `TimelineMatchesState` | |
| `OutboxExact` | `OneAlertPerTransition` | |
| `SchedulesStayValid` | `StoredScheduleValidates` | `KindsKept`: no PATCH sets the kind, or both the period and the expression |
| `LateIsLate` | `LateOnlyAfterOccurrence` | `SchedulesFixed`: no PATCH sets a schedule field; `OneRequest`: requests come one after another |
| **`TimelineProofs`** `HeartbeatKeepsPromise` | `ImplementsTimeline` | |
| **`AlerterProofs`** `TypeCorrect` | `TypeOK` | |
| `ResolvedStays` | `ResolvedIsFinal` | `OneReplica` |
| `BudgetKept` | `AttemptBudget` | `OneReplica` |
| `OutcomesTold` | `OutcomeIsVisible` | `OneReplica` |
| `DuplicatesPaidFor` | `DuplicatesNeedFaults` | `OneReplica` |
| `RemindersApart` | `RemindersSpaced` | `OneReplica` |
| **`ProberProofs`** `TypeCorrect` | `TypeOK` | |
| `TransitionsAlternate` | `NoRepeatedTransition` | `Undisturbed`: one replica, no resume or ping during a probe |
| `TimelineTellsState` | `TimelineMatchesState` | `Undisturbed` |
| `ThresholdHolds` | `ConfirmedDown` | `Undisturbed` |
| `ProberKeepsPromise` | `ImplementsTimeline` | `Undisturbed` |
| `WarnedOnce` | `OneWarningPerCertificate` | `OneProber`, `~MayReturn`: no certificate comes back |
| **`RollupProofs`** `TransitionAlertsSurvive` | `TransitionAlertsKept` | |
| `RetentionHonoured` | `RetentionKept` | |
| `DaysAreComplete` | `RolledUpIsComplete` | |
| **`StatsProofs`** `RollupTypeCorrect` | `TypeOK` | |
| `StatsTellTruth` | `StatsExact` | `~ResumeEndsOutage`: no owner resumes a monitor that is down |
| **`AuthProofs`** `TypeCorrect` | `TypeOK` | |
| `FamilyNeverForks` | `OneLiveToken` | |
| `SessionsKept` | `SessionNotLost` | |
| `RevocationHolds` | `RevokedForGood` | |
| `RevocationSeen` | `RevokedKeyRefused` | |
| `WindowsClose` | `WindowHasEnd` | |
| **`FeedProofs`** `TypeCorrect` | `TypeOK` | |
| `PagesInOrder` | `NewestFirst` | |
| `WalkIsComplete` | `NothingSkipped` | |

`HeartbeatProofs`. The argument rests on `DecisionsAreCurrent`: whoever writes a row
holds its lock or finds it free, so the copy a ping or a tick decides on equals the
stored row until it commits. It is inductive together with `TypeOK`. Given it, a tick
only touches unpaused rows (`PausedLeftAlone`), and each write sets the state and the
deadline together (`AlwaysArmed`). The two facts about the timeline are not inductive
alone: that a new "down" is allowed follows from the state column being something
else, and that the column agrees with the timeline follows from the transition having
been judged by the current row. `TimelineInv` carries both. The lemmas `AppendBefore`,
`AppendOpen` and `AppendPaired` say what one more event does to open outages.
`OutboxExact` needs that each alert names an existing event and that the alerts of an
event form a singleton or nothing. `SchedulesStayValid` is about PATCH requests that
are validated against one row and stored over another: what was validated fits every
valid schedule of that kind (`ValidatedFits`, `FitsAnyRow`), and under `KindsKept` the
kind does not change in between; a patch in flight carries `Fits` in the invariant. Both
requests `KindsKept` excludes store a schedule that does not validate. `LateIsLate` needs that an armed deadline covers
every successful check-in so far (`PromiseInv`), that check-ins lie in the past and a
ping in flight is the latest of its monitor (`PastInv`), and that
`NextOccurrence` grows with its argument. A resume in flight carries the same promise
about the deadline it is going to write. With two requests, an older ping may commit
last.

`TimelineProofs`. The lemma `Moves` says what any step may do with one monitor: leave
its phase alone with at most an event that is no transition, be created, go down or
come up with the transition's event and outbox row, be resumed, or be deleted. That a
tick or a ping that writes "down" finds the phase "ok" is `DecisionsAreCurrent` again.
Each outbox row must name an event that exists (`NamesEvents`), or a later event would
change what an earlier row says.

`AlerterProofs`. The claim leaves no mark, so everything about outcomes rests on
`ClaimsCurrent`: what the one replica holds is still pending, with the attempts it was
claimed with, until it is marked (`ClaimInv`). With a second replica it is false, and
so are the theorems. `OutcomesVisible` adds that a job being marked as sent has been
accepted. `DeliveriesCounted` is the strengthening of `DuplicatesNeedFaults`: an alert
that may still be sent has at most as many messages as there were faults, one that was
just acknowledged or is resolved at most one more. `ReminderInv` adds what the snapshot of a
reminder statement still says when it commits (`SnapshotHolds`).

`ProberProofs`. `Fresh` says that what a probe in flight will be judged by is what is
stored: state, streak and warned certificate cannot change under it, pauses, PATCH
requests and deletions are harmless. From it follow `TimelineInv`, as in Heartbeat, and
`StreakInv`: `fail_streak` failures in a row stand at the end of the log, so that a
down that reaches the threshold is confirmed. `WarningInv` says that the last warning
of a monitor is the one its row remembers and that certificates are warned about in
the order of their expiry.

`RollupProofs`. `RetentionInv` says that the day a tick prunes by is never in the
future, and that a batch selected for deletion is older than its cutoff (`BatchOld`).
`AlertInv` says that no event of such a batch has a pending alert of a transition: the
subquery saw none (`SelectTakes`), and the alert of a transition is added with its
event, today, while the batch is of the past (`BatchIsPast`). A reminder is added to an
old event, which is why the theorem leaves it out. For `DaysAreComplete`, `OutageInv`
says that every instant of downtime belongs to an outage whose "down" is stored, with
no "up" before the end of it, or that began before the retention; `CompleteInv` that
what the last day of a replica owes is stored and what the day under way owes is stored
or to be stored. Neither needs the events to be complete or in order, so the theorem
holds for any batch limit.

`StatsProofs`. The downtime of a day is a sum over a set, computed by a fold. Its
value is reached without an induction rule over operators: the recursive function
exists (`SumExists`) and is what the fold computes (`SumUnfolds`), and induction is a
least counterexample in a set of naturals (`LeastOf`, `AllNaturals`). `SumOfSizes` says
that a sum of the sizes of disjoint sets is the size of their union. The sets are the
instants each outage takes of the day; that they are disjoint and together the true
downtime (`OutagesPartition`) follows from `TurnsInv`: stored downs and ups take turns,
the latest of them is the monitor's state, and an outage lasts from its "down" to its
"up". Pruning keeps that for a monitor that is not `torn`, of which nothing goes before
an earlier transition (`PruneInOrder`); a resume that ends an outage breaks it. `ExactInv` then says that what is stored is exact and so is
what a replica has computed and not stored yet, since the past does not change
(`PastIsFrozen`).

`AuthProofs`. `TypeInv` has the references between tokens, families and requests.
`SessionInv` is three facts about a family that are only inductive together: at most
one token or half-done rotation is its end (`NoFork`), without faults and revocations
there is one (`NotLost`), and a closed family has none (`StaysClosed`); the conditional
UPDATE of the rotation is what preserves each. `LateInv` says that a call that came
after the revocation of its key is not past the lookup of it.

`FeedProofs`. `OrderInv` says that the pages read so far are in order and that no row
on them is older than the cursor; `NothingPassedOver` that every steady row is returned
already or older than the cursor.

Only model-checked: the liveness properties (`SilentMonitorGoesDown`,
`BrokenTargetGoesDown`, `OutageIsReported`, `WindowsEnd`, `WalkEnds`: fairness and
ENABLED are out of the prover's reach), and with `OutageIsReported` the composition
`Pipeline`, which states nothing else.

## Not modelled

The cryptography of passwords, JWT and API keys and the list of keys, HTTP plumbing,
configuration, the health check and the workers' heartbeat in Redis (one timestamp
each), templates and the SMTP dialogue, the SSRF guard and the response assertions
of a probe, the latency series and the daily statistics endpoint (sums of stored
rows), the frontend and the soak tools; `PROJECT.json` gives the reason for each.
The pruning of events is part of `Rollup` and not of `Alerter`, where events last: what
it spares and what it does not is shown in `Rollup`. PATCH requests are part of `Heartbeat` and
`Prober`, not of `Pipeline`.

## Plan

1. Safety of the composition: that `Pipeline` refines `Heartbeat` and keeps one row
   per transition in the shared outbox.
2. A weaker condition for `LateIsLate`: pings that do not overtake each other instead
   of `OneRequest`.
