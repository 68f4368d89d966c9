------------------------------- MODULE Rollup --------------------------------
(***************************************************************************)
(* The rollup worker (worker/rollup, store/rollup.go, daily_stats.sql):    *)
(* a tick folds yesterday's raw rows and transitions into daily_stats,     *)
(* unless this process has done so already, and then prunes raw rows past  *)
(* the retention, table by table and batch by batch.  No transaction spans *)
(* two statements.                                                         *)
(*                                                                         *)
(* An instant is the smallest time told apart; downtime is counted in      *)
(* instants.  A tick reads a day's rows on the day it took from the clock, *)
(* and a row is visible at its created_at.  Latency percentiles are left   *)
(* out.                                                                    *)
(***************************************************************************)
EXTENDS Integers, FiniteSets, FiniteSetsExt

CONSTANTS
    Monitors,           \* monitors
    Workers,            \* replicas of the worker
    DayLength,          \* instants of a UTC day
    Retention,          \* RETENTION_DAYS
    BatchLimit,         \* pruneBatchLimit
    RowKinds,           \* the raw rows that are written: <<table, failed>>
    ResumeEndsOutage,   \* whether owners resume monitors that are down
    MaxFaults,          \* bound: crashes and failed statements
    MaxOps,             \* bound: rows written by the rest of the system
    MaxTime             \* bound: the last instant

ASSUME ConstantsAssumption ==
    /\ DayLength \in Nat \ {0} /\ Retention \in Nat \ {0} /\ BatchLimit \in Nat \ {0}
    /\ RowKinds \subseteq {"checkins", "probe_results"} \X BOOLEAN
    /\ ResumeEndsOutage \in BOOLEAN
    /\ MaxFaults \in Nat /\ MaxOps \in Nat /\ MaxTime \in Nat

VARIABLES
    clock,      \* the wall clock
    mon,        \* the columns of each monitor that matter here
    events,     \* the events of each monitor that are not pruned
    raw,        \* its rows of checkins and probe_results that are not pruned
    pending,    \* the pending alerts, each with the instant of its event
    daily,      \* daily_stats
    worker,     \* what each replica is doing
    history,    \* what really happened: all raw rows, all instants of downtime
    torn,       \* history: monitors whose transitions were not pruned in order
    faults, ops \* for MaxFaults and MaxOps

vars == <<clock, mon, events, raw, pending, daily, worker, history, torn, faults, ops>>

Day(t) == t \div DayLength
DayStart(d) == d * DayLength
Days == 0 .. Day(MaxTime)

Event == [type: {"down", "up", "resume"}, at: Nat]
Raw == [table: {"checkins", "probe_results"}, failed: BOOLEAN, at: Nat]
DailyStat == [checkins: Nat, failures: Nat, downtime: Nat]
Alert == [monitor: Monitors, at: Nat, reminder: BOOLEAN]
NoStat == [checkins |-> -1]
NoStats == [m \in Monitors |-> NoStat]

(* last is lastRolledDate: the zero time is Never, and the day before the  *)
(* first one is -1.  batch is what the DELETE under way has selected.      *)
Never == -2
Idle(last) == [pc |-> "idle", last |-> last, today |-> 0, todo |-> NoStats,
               batch |-> {}]
Tables == <<"checkins", "probe_results", "events">>

TypeOK ==
    /\ clock \in 0 .. MaxTime
    /\ mon \in [Monitors -> [stored: BOOLEAN, down: BOOLEAN]]
    /\ events \in [Monitors -> SUBSET Event]
    /\ raw \in [Monitors -> SUBSET Raw]
    /\ pending \subseteq Alert
    /\ daily \in [Monitors -> [Days -> DailyStat \cup {NoStat}]]
    /\ worker \in [Workers -> [pc: {"idle", "upsert", "delete"} \cup {Tables[i] : i \in 1 .. 3},
                               last: {Never, -1} \cup Days, today: Days,
                               todo: [Monitors -> DailyStat \cup {NoStat}],
                               batch: SUBSET (Monitors \X Event)]]
    /\ history \in [Monitors -> [raw: SUBSET Raw, down: SUBSET Nat]]
    /\ torn \subseteq Monitors
    /\ faults \in Nat /\ ops \in Nat

Init ==
    /\ clock = 0
    /\ mon = [m \in Monitors |-> [stored |-> TRUE, down |-> FALSE]]
    /\ events = [m \in Monitors |-> {}]
    /\ raw = [m \in Monitors |-> {}]
    /\ pending = {}
    /\ daily = [m \in Monitors |-> [d \in Days |-> NoStat]]
    /\ worker = [w \in Workers |-> Idle(Never)]
    /\ history = [m \in Monitors |-> [raw |-> {}, down |-> {}]]
    /\ torn = {}
    /\ faults = 0 /\ ops = 0

----------------------------------------------------------------------------
(* The rest of the system: pings, probes, transitions, alerts, time.       *)

Operation(m) ==
    /\ mon[m].stored /\ ops < MaxOps /\ ops' = ops + 1
    /\ UNCHANGED <<clock, daily, worker, torn, faults>>

(* A ping or a probe result is recorded.                                   *)
InsertRaw(m, kind) ==
    LET row == [table |-> kind[1], failed |-> kind[2], at |-> clock] IN
    /\ Operation(m)
    /\ raw' = [raw EXCEPT ![m] = @ \cup {row}]
    /\ history' = [history EXCEPT ![m].raw = @ \cup {row}]
    /\ UNCHANGED <<mon, events, pending>>

(* created_at orders the events of a monitor: one per instant.             *)
Write(m, type) ==
    /\ \A e \in events[m] : e.at # clock
    /\ events' = [events EXCEPT ![m] = @ \cup {[type |-> type, at |-> clock]}]

(* recordTransition: the event and its pending alert, in one transaction.  *)
Transition(m) ==
    /\ Operation(m)
    /\ Write(m, IF mon[m].down THEN "up" ELSE "down")
    /\ mon' = [mon EXCEPT ![m].down = ~@]
    /\ pending' = pending \cup {[monitor |-> m, at |-> clock, reminder |-> FALSE]}
    /\ UNCHANGED <<raw, history>>

(* A resume makes the monitor up and writes no "up".                       *)
ResumeMonitor(m) ==
    /\ Operation(m)
    /\ mon[m].down => ResumeEndsOutage
    /\ Write(m, "resume")
    /\ mon' = [mon EXCEPT ![m].down = FALSE]
    /\ UNCHANGED <<raw, pending, history>>

(* EnqueueDownReminders: the alert names the latest "down".                *)
Remind(m) ==
    /\ Operation(m)
    /\ mon[m].down
    /\ \E e \in events[m] :
         /\ e.type = "down" /\ \A f \in events[m] : f.type = "down" => f.at =< e.at
         /\ pending' = pending \cup {[monitor |-> m, at |-> e.at, reminder |-> TRUE]}
    /\ UNCHANGED <<mon, events, raw, history>>

(* The alerter sends, suppresses or fails an alert, whenever it gets to it. *)
ResolveAlert(a) ==
    /\ pending' = pending \ {a}
    /\ UNCHANGED <<clock, mon, events, raw, daily, worker, history, torn, faults, ops>>

(* ON DELETE CASCADE.                                                      *)
DeleteMonitor(m) ==
    /\ mon[m].stored /\ ops < MaxOps /\ ops' = ops + 1
    /\ mon' = [mon EXCEPT ![m] = [stored |-> FALSE, down |-> FALSE]]
    /\ events' = [events EXCEPT ![m] = {}]
    /\ raw' = [raw EXCEPT ![m] = {}]
    /\ pending' = {a \in pending : a.monitor # m}
    /\ daily' = [daily EXCEPT ![m] = [d \in Days |-> NoStat]]
    /\ UNCHANGED <<clock, worker, history, torn, faults>>

Tick ==
    /\ clock < MaxTime
    /\ clock' = clock + 1
    /\ history' = [m \in Monitors |->
         IF mon[m].down THEN [history[m] EXCEPT !.down = @ \cup {clock}] ELSE history[m]]
    /\ UNCHANGED <<mon, events, raw, pending, daily, worker, torn, faults, ops>>

----------------------------------------------------------------------------
(* What a day's rows say.                                                  *)

OfDay(rows, d) == {r \in rows : Day(r.at) = d}

(* RollupCheckinCounts and RollupProbeStats, merged: the probes of a day   *)
(* replace its pings.                                                      *)
Counted(rows, d) ==
    LET probes == {r \in OfDay(rows, d) : r.table = "probe_results"} IN
    IF probes # {} THEN probes ELSE OfDay(rows, d)

Failures(rows) == {r \in rows : r.failed}

(* The end of the outage that event e began, as seen at the end of a day:  *)
(* the next "down" or "up" (LEAD), if it is an "up".                       *)
ResolvedAt(m, e, end) ==
    LET later == {f \in events[m] : f.type # "resume" /\ f.at > e.at /\ f.at < end}
        next  == {f \in later : f.type = "up" /\ \A g \in later : f.at =< g.at}
    IN IF next = {} THEN end ELSE (CHOOSE f \in next : TRUE).at

(* Mutant: outages that ended before the day are not filtered out.         *)
OutagesUnfiltered(m, d) == {e \in events[m] : e.type = "down" /\ e.at < DayStart(d + 1)}

(* The "down" events whose outage overlaps a day.                          *)
Outages(m, d) ==
    {e \in events[m] : /\ e.type = "down" /\ e.at < DayStart(d + 1)
                       /\ ResolvedAt(m, e, DayStart(d + 1)) > DayStart(d)}

(* Mutant: the outage is not clamped to the start of the day.              *)
OverlapUnclamped(m, e, d) == ResolvedAt(m, e, DayStart(d + 1)) - e.at

Overlap(m, e, d) == ResolvedAt(m, e, DayStart(d + 1)) - Max({e.at, DayStart(d)})

(* The row RollupDay upserts for a monitor, if it upserts one.             *)
RolledUp(m, d) ==
    IF OfDay(raw[m], d) = {} /\ Outages(m, d) = {} THEN NoStat
    ELSE [checkins |-> Cardinality(Counted(raw[m], d)),
          failures |-> Cardinality(Failures(Counted(raw[m], d))),
          downtime |-> MapThenSumSet(LAMBDA e : Overlap(m, e, d), Outages(m, d))]

----------------------------------------------------------------------------
(* One tick of a replica.                                                  *)

Fault == faults < MaxFaults /\ faults' = faults + 1

(* tick: yesterday is rolled up, unless lastRolledDate says it is.  The    *)
(* three queries are one step: the rows of a past day do not change.       *)
StartTick(w) ==
    LET today == Day(clock) IN
    /\ worker[w].pc = "idle"
    /\ IF worker[w].last = today - 1
       THEN worker' = [worker EXCEPT ![w].pc = "checkins", ![w].today = today]
       ELSE worker' = [worker EXCEPT ![w].pc = "upsert", ![w].today = today,
              ![w].todo = [m \in Monitors |-> RolledUp(m, today - 1)]]
    /\ UNCHANGED <<clock, mon, events, raw, pending, daily, history, torn, faults, ops>>

(* UpsertDailyStat, for one monitor after the other in any order.          *)
UpsertDailyStat(w, m) ==
    /\ worker[w].pc = "upsert" /\ worker[w].todo[m] # NoStat /\ mon[m].stored
    /\ daily' = [daily EXCEPT ![m][worker[w].today - 1] = worker[w].todo[m]]
    /\ worker' = [worker EXCEPT ![w].todo[m] = NoStat]
    /\ UNCHANGED <<clock, mon, events, raw, pending, history, torn, faults, ops>>

RollupDone(w) ==
    /\ worker[w].pc = "upsert" /\ worker[w].todo = NoStats
    /\ worker' = [worker EXCEPT ![w].pc = "checkins", ![w].last = worker[w].today - 1]
    /\ UNCHANGED <<clock, mon, events, raw, pending, daily, history, torn, faults, ops>>

(* A statement of RollupDay fails, or the row of a monitor deleted in the  *)
(* meantime violates its foreign key.                                      *)
UpsertFails(w) ==
    /\ worker[w].pc = "upsert"
    /\ \/ Fault
       \/ faults' = faults /\ \E m \in Monitors : worker[w].todo[m] # NoStat /\ ~mon[m].stored

(* Mutant: the day counts as rolled up although RollupDay failed.          *)
RollupFailsSilently(w) ==
    /\ UpsertFails(w)
    /\ worker' = [worker EXCEPT ![w].pc = "checkins", ![w].todo = NoStats,
                                ![w].last = worker[w].today - 1]
    /\ UNCHANGED <<clock, mon, events, raw, pending, daily, history, torn, ops>>

(* The error is logged and the tick goes on with the pruning.              *)
RollupFails(w) ==
    /\ UpsertFails(w)
    /\ worker' = [worker EXCEPT ![w].pc = "checkins", ![w].todo = NoStats]
    /\ UNCHANGED <<clock, mon, events, raw, pending, daily, history, torn, ops>>

(* Mutant: one day of the retention is pruned too.                         *)
CutoffLate(today) == DayStart(today - Retention + 1)

Cutoff(today) == DayStart(today - Retention)

(* drainBatches: one DELETE takes any BatchLimit rows of what is old, or   *)
(* all of it if that is less.                                              *)
Batches(old) == kSubset(Min({BatchLimit, Cardinality(old)}), old)

OldRaw(table, cutoff) ==
    UNION {{<<m, r>> : r \in {q \in raw[m] : q.table = table /\ q.at < cutoff}} : m \in Monitors}

(* A DELETE of raw rows is one step: what is old stays old, and nothing    *)
(* refers to it.  A batch that is not full is the table's last.            *)
PruneRaw(w) ==
    \E i \in 1 .. 2 :
      /\ worker[w].pc = Tables[i]
      /\ \E batch \in Batches(OldRaw(Tables[i], Cutoff(worker[w].today))) :
           /\ raw' = [m \in Monitors |-> {r \in raw[m] : <<m, r>> \notin batch}]
           /\ worker' = [worker EXCEPT ![w].pc =
                IF Cardinality(batch) = BatchLimit THEN @ ELSE Tables[i + 1]]
      /\ UNCHANGED <<clock, mon, events, pending, daily, history, torn, faults, ops>>

(* Mutant: events with a pending alert are not spared.                     *)
OldEventsAll(m, cutoff) == {e \in events[m] : e.at < cutoff}

OldEvents(m, cutoff) ==
    {e \in events[m] : e.at < cutoff /\ \A a \in pending : a.monitor # m \/ a.at # e.at}

(* DeleteOldEventsBatch, the subquery: events and alerts as the snapshot   *)
(* of the statement has them ...                                           *)
SelectEvents(w) ==
    LET old == UNION {{<<m, e>> : e \in OldEvents(m, Cutoff(worker[w].today))} : m \in Monitors} IN
    /\ worker[w].pc = "events"
    /\ \E batch \in Batches(old) :
         worker' = [worker EXCEPT ![w].pc = "delete", ![w].batch = batch]
    /\ UNCHANGED <<clock, mon, events, raw, pending, daily, history, torn, faults, ops>>

Left(m, batch) == {e \in events[m] : <<m, e>> \notin batch}

(* A transition goes and an earlier one stays.                             *)
OutOfOrder(m, batch) ==
    \E e \in Left(m, batch), f \in events[m] \ Left(m, batch) :
      e.type # "resume" /\ f.type # "resume" /\ e.at < f.at

(* ... and the deletion.  An alert inserted since the snapshot does not    *)
(* stop it: its insert locks the event FOR KEY SHARE, which is no new      *)
(* version of the row that would be checked again, and ON DELETE CASCADE   *)
(* takes the alert along.                                                  *)
DeleteEvents(w) ==
    LET batch == worker[w].batch
        found == {x \in batch : x[2] \in events[x[1]]}
    IN
    /\ worker[w].pc = "delete"
    /\ events' = [m \in Monitors |-> Left(m, batch)]
    /\ pending' = {a \in pending : \A x \in found : a.monitor # x[1] \/ a.at # x[2].at}
    /\ torn' = torn \cup {m \in Monitors : OutOfOrder(m, batch)}
    /\ worker' = [worker EXCEPT ![w] =
         IF Cardinality(found) = BatchLimit THEN [@ EXCEPT !.pc = "events", !.batch = {}]
         ELSE Idle(@.last)]
    /\ UNCHANGED <<clock, mon, raw, daily, history, faults, ops>>

(* A failed DELETE ends the tick.                                          *)
PruneFails(w) ==
    /\ worker[w].pc \notin {"idle", "upsert"} /\ Fault
    /\ worker' = [worker EXCEPT ![w] = Idle(@.last)]
    /\ UNCHANGED <<clock, mon, events, raw, pending, daily, history, torn, ops>>

(* The process ends, in a tick or between two, and starts again.           *)
Restart(w) ==
    /\ Fault
    /\ worker' = [worker EXCEPT ![w] = Idle(Never)]
    /\ UNCHANGED <<clock, mon, events, raw, pending, daily, history, torn, ops>>

Next ==
    \/ Tick
    \/ \E a \in pending : ResolveAlert(a)
    \/ \E m \in Monitors :
         \/ \E kind \in RowKinds : InsertRaw(m, kind)
         \/ Transition(m) \/ ResumeMonitor(m) \/ Remind(m) \/ DeleteMonitor(m)
    \/ \E w \in Workers :
         \/ StartTick(w) \/ RollupDone(w) \/ RollupFails(w)
         \/ \E m \in Monitors : UpsertDailyStat(w, m)
         \/ PruneRaw(w) \/ SelectEvents(w) \/ DeleteEvents(w) \/ PruneFails(w) \/ Restart(w)

Spec == Init /\ [][Next]_vars

----------------------------------------------------------------------------
(* Properties.                                                             *)

Downtime(m, d) == Cardinality({t \in history[m].down : Day(t) = d})

(* On day d + 1 the monitor's outage had begun before the retention and    *)
(* went on into day d: its "down" may be pruned.                           *)
BeyondRetention(m, d) ==
    DayStart(d + 1 - Retention) - 1 .. DayStart(d) - 1 \subseteq history[m].down

(* daily_stats tells the truth: a stored row has the day's counts and its  *)
(* downtime, over outages across midnight, repeated rollups after restarts *)
(* and pruning in between.  Excepted are the downtime of an outage longer  *)
(* than the retention, and of a monitor of which a DELETE took a           *)
(* transition and left an earlier one.                                     *)
StatsExact ==
    \A m \in Monitors, d \in Days :
      LET stat == daily[m][d]
          rows == Counted(history[m].raw, d)
      IN stat # NoStat =>
           /\ stat.checkins = Cardinality(rows)
           /\ stat.failures = Cardinality(Failures(rows))
           /\ m \notin torn /\ ~BeyondRetention(m, d) => stat.downtime = Downtime(m, d)

(* lastRolledDate does not lie, or the day would be skipped for good: once *)
(* it is set, every monitor with pings, probes or downtime that day has    *)
(* its row, although upserts fail half way and monitors are deleted.       *)
RolledUpIsComplete ==
    \A w \in Workers, m \in Monitors :
      LET d == worker[w].last IN
      /\ d >= 0 /\ mon[m].stored
      /\ \/ OfDay(history[m].raw, d) # {}
         \/ Downtime(m, d) > 0 /\ ~BeyondRetention(m, d)
      => daily[m][d] # NoStat

(* No step removes a row or event of the last Retention days from a stored *)
(* monitor.                                                                *)
RetentionKept ==
    [][\A m \in Monitors : mon'[m].stored =>
         \A r \in (raw[m] \ raw'[m]) \cup (events[m] \ events'[m]) :
           Day(r.at) + Retention < Day(clock)]_vars

(* However late the alerter is and however stale the snapshot of a DELETE, *)
(* pruning takes no event whose transition is still to be notified: nobody *)
(* adds such an alert to an event that is old already (a reminder, which   *)
(* is added to one, can be lost).                                          *)
TransitionAlertsKept ==
    [][\A m \in Monitors : mon'[m].stored =>
         \A e \in events[m] \ events'[m] :
           [monitor |-> m, at |-> e.at, reminder |-> FALSE] \notin pending]_vars
==============================================================================
