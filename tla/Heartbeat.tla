------------------------------ MODULE Heartbeat ------------------------------
(***************************************************************************)
(* Heartbeat monitors: the monitors row, its timeline (events) and its     *)
(* outbox (alerts), as the ingest path (store/checkin.go), the scheduler   *)
(* worker (store/scheduler.go) and the management API (store/events.go,    *)
(* store/monitor.go, server/monitor.go) change them.                       *)
(*                                                                         *)
(* A transaction that locks rows is two steps, one that takes the row      *)
(* locks and keeps the rows it read, and one that writes and commits, so   *)
(* that transactions of different processes interleave as Postgres lets    *)
(* them under READ COMMITTED.  A single-statement transaction is one step  *)
(* that waits for the row lock.  A rolled-back transaction (an error, a    *)
(* crash, a dropped connection) is one step that only releases its locks.  *)
(***************************************************************************)
EXTENDS Integers, Sequences, FiniteSets

CONSTANTS
    Monitors,       \* identities of monitor rows, never reused
    Requests,       \* HTTP requests that can be in flight at the same time
    Schedulers,     \* scheduler replicas
    Free,           \* the lock value of an unlocked row
    Configs,        \* schedules a monitor can be created with
    Patches,        \* PATCH bodies a client can send
    ClaimLimit,     \* page_limit of ClaimDueMonitors
    MaxTime,        \* bound: the clock stops here
    MaxOps          \* bound: API and ping requests issued in a behaviour

Null == -1                                     \* SQL NULL of a time column
Time == Nat \cup {Null}
State == {"new", "up", "late", "down"}
Kind == {"success", "start", "fail"}
EventType == {"late", "down", "up", "pause", "resume", "mute", "unmute", "config_change"}

(* The schedule columns.  0 is SQL NULL for the numeric ones; cron is the  *)
(* spacing of the instants the expression denotes.                         *)
Schedule == [kind: {"period", "cron"}, period: Nat, cron: Nat, grace: Nat]
Patch == [kind: {"", "period", "cron"}, period: Time, cron: Nat, grace: Time,
          autoResume: {{}, {TRUE}, {FALSE}}]   \* "", Null, 0 and {}: absent

Row == [state: State, last: Time, deadline: Time, streak: Nat,
        paused: BOOLEAN, autoResume: BOOLEAN, schedule: Schedule]

Log == [events: Seq(EventType), alerts: Seq(Nat)]
Checkin == [kind: Kind, at: Nat]

(* What a request goroutine holds between two of its steps.                *)
Idle == [pc |-> "idle"]
Job == {Idle}
  \cup [pc: {"ping"}, m: Monitors, kind: Kind, now: Nat]
  \cup [pc: {"locked"}, m: Monitors, kind: Kind, now: Nat, row: Row]
  \cup [pc: {"resume"}, m: Monitors, deadline: Nat]
  \cup [pc: {"patch"}, m: Monitors, patch: Patch]

(* Validate of schedule/errors.go over the columns modelled here: the      *)
(* column the kind does not use must be empty.                             *)
Validate(s) ==
    /\ s.grace > 0
    /\ \/ s.kind = "period" /\ s.cron = 0 /\ s.period > 0
       \/ s.kind = "cron" /\ s.period = 0 /\ s.cron > 0

ASSUME ConstantsAssumption ==
    /\ Free \notin Requests \cup Schedulers
    /\ Requests \cap Schedulers = {}
    /\ Configs # {} /\ Configs \subseteq {s \in Schedule : Validate(s)}
    /\ Patches \subseteq Patch
    /\ ClaimLimit \in Nat \ {0}
    /\ MaxTime \in Nat
    /\ MaxOps \in Nat

VARIABLES
    clock,      \* the wall clock every process reads
    status,     \* whether a monitor is not yet created, stored, or deleted
    mon,        \* the monitors table
    log,        \* the events and alerts of each monitor, by insertion order
    checkins,   \* the checkins of each monitor
    lock,       \* which transaction holds each row's lock
    req,        \* the requests in flight
    claim,      \* the rows each scheduler replica has claimed
    ops         \* requests issued so far

vars == <<clock, status, mon, log, checkins, lock, req, claim, ops>>

(* A scheduler's batch maps each monitor to the row it claimed, if any.    *)
Unclaimed == [state |-> "unclaimed"]
NoRows == [m \in Monitors |-> Unclaimed]

TypeOK ==
    /\ clock \in Nat
    /\ status \in [Monitors -> {"unborn", "stored", "deleted"}]
    /\ mon \in [Monitors -> Row]
    /\ log \in [Monitors -> Log]
    /\ checkins \in [Monitors -> SUBSET Checkin]
    /\ lock \in [Monitors -> {Free} \cup Requests \cup Schedulers]
    /\ req \in [Requests -> Job]
    /\ claim \in [Schedulers -> [Monitors -> Row \cup {Unclaimed}]]
    /\ ops \in Nat

NewRow(s, autoResume) ==
    [state |-> "new", last |-> Null, deadline |-> Null, streak |-> 0,
     paused |-> FALSE, autoResume |-> autoResume, schedule |-> s]

(* Stands for the absent row of a monitor that is not stored.              *)
Blank == NewRow(CHOOSE s \in Configs : TRUE, TRUE)

EmptyLog == [events |-> <<>>, alerts |-> <<>>]

Init ==
    /\ clock = 0
    /\ status = [m \in Monitors |-> "unborn"]
    /\ mon = [m \in Monitors |-> Blank]
    /\ log = [m \in Monitors |-> EmptyLog]
    /\ checkins = [m \in Monitors |-> {}]
    /\ lock = [m \in Monitors |-> Free]
    /\ req = [r \in Requests |-> Idle]
    /\ claim = [s \in Schedulers |-> NoRows]
    /\ ops = 0

----------------------------------------------------------------------------
(* Helpers of the store.                                                   *)

Stored(m) == status[m] = "stored"

(* Mutant: the ping reads its row without FOR UPDATE.                      *)
UnlockedAlways(m) == TRUE

(* A statement that writes or locks a row waits for the lock's holder.     *)
Unlocked(m) == lock[m] = Free

RecordEvent(l, type) == [l EXCEPT !.events = Append(@, type)]

(* Mutant: the outbox row names the event before the one just inserted.    *)
RecordTransitionOffByOne(l, type) ==
    [events |-> Append(l.events, type), alerts |-> Append(l.alerts, Len(l.events))]

(* recordTransition: the event and its pending outbox row.                 *)
RecordTransition(l, type) ==
    [events |-> Append(l.events, type),
     alerts |-> Append(l.alerts, Len(l.events) + 1)]

(* The next instant a valid schedule expects a check-in, after from.       *)
NextOccurrence(s, from) ==
    IF s.kind = "period" THEN from + s.period
                         ELSE ((from \div s.cron) + 1) * s.cron

Coalesce(new, none, old) == IF new = none THEN old ELSE new

(* The merged schedule the PATCH handler validates: setting one of period  *)
(* and cron empties the other.                                             *)
MergeScheduleConfig(s, p) ==
    [kind   |-> Coalesce(p.kind, "", s.kind),
     period |-> IF p.cron # 0 THEN 0 ELSE Coalesce(p.period, Null, s.period),
     cron   |-> IF p.cron # 0 THEN p.cron
                ELSE IF p.period # Null THEN 0 ELSE s.cron,
     grace  |-> Coalesce(p.grace, Null, s.grace)]

(* The columns the UPDATE stores: COALESCE never empties one.              *)
StoreSchedule(s, p) ==
    [kind   |-> Coalesce(p.kind, "", s.kind),
     period |-> Coalesce(p.period, Null, s.period),
     cron   |-> Coalesce(p.cron, 0, s.cron),
     grace  |-> Coalesce(p.grace, Null, s.grace)]

ScheduleFieldsSet(p) == p.kind # "" \/ p.period # Null \/ p.cron # 0 \/ p.grace # Null

Issue == ops < MaxOps /\ ops' = ops + 1
Finish(r) == req' = [req EXCEPT ![r] = Idle]
Release(m) == lock' = [lock EXCEPT ![m] = Free]

----------------------------------------------------------------------------
(* The management API.                                                     *)

(* validateCreate has accepted the schedule: Configs holds valid ones.     *)
CreateMonitor(m, s, autoResume) ==
    /\ status[m] = "unborn"
    /\ status' = [status EXCEPT ![m] = "stored"]
    /\ mon' = [mon EXCEPT ![m] = NewRow(s, autoResume)]
    /\ UNCHANGED <<clock, log, checkins, lock, req, claim, ops>>

(* DELETE waits for the row lock; events, alerts and checkins cascade.     *)
DeleteMonitor(m) ==
    /\ Issue /\ Stored(m) /\ Unlocked(m)
    /\ status' = [status EXCEPT ![m] = "deleted"]
    /\ mon' = [mon EXCEPT ![m] = Blank]
    /\ log' = [log EXCEPT ![m] = EmptyLog]
    /\ checkins' = [checkins EXCEPT ![m] = {}]
    /\ UNCHANGED <<clock, lock, req, claim>>

(* Mutant: paused as a state instead of a flag.                            *)
PauseAsState(m) ==
    /\ Issue /\ Stored(m) /\ Unlocked(m)
    /\ mon' = [mon EXCEPT ![m].paused = TRUE, ![m].state = "paused"]
    /\ log' = [log EXCEPT ![m] = RecordEvent(@, "pause")]
    /\ UNCHANGED <<clock, status, checkins, lock, req, claim>>

PauseMonitor(m) ==
    /\ Issue /\ Stored(m) /\ Unlocked(m)
    /\ mon' = [mon EXCEPT ![m].paused = TRUE]
    /\ log' = [log EXCEPT ![m] = RecordEvent(@, "pause")]
    /\ UNCHANGED <<clock, status, checkins, lock, req, claim>>

(* ResumeMonitor, first half: a plain read of the row and the deadline     *)
(* computed from it; a schedule that does not validate ends the request.   *)
ResumeRead(r, m) ==
    /\ Issue /\ req[r] = Idle /\ Stored(m)
    /\ Validate(mon[m].schedule)
    /\ req' = [req EXCEPT ![r] =
         [pc |-> "resume", m |-> m,
          deadline |-> NextOccurrence(mon[m].schedule, clock)]]
    /\ UNCHANGED <<clock, status, mon, log, checkins, lock, claim>>

(* The columns ResumeMonitor writes: fail_streak stays as it is.           *)
ResumeRow(row, deadline) ==
    [row EXCEPT !.paused = FALSE, !.state = "up", !.deadline = deadline]

(* Mutant: the resume writes no event.                                     *)
ResumeSilently(r) ==
    LET m == req[r].m IN
    /\ req[r].pc = "resume" /\ Stored(m) /\ Unlocked(m)
    /\ mon' = [mon EXCEPT ![m] = ResumeRow(@, req[r].deadline)]
    /\ Finish(r)
    /\ UNCHANGED <<clock, status, log, checkins, lock, claim, ops>>

(* Second half: the UPDATE and the event.  No up event and no alert even   *)
(* when the monitor was down.                                              *)
ResumeCommit(r) ==
    LET m == req[r].m IN
    /\ req[r].pc = "resume" /\ Stored(m) /\ Unlocked(m)
    /\ mon' = [mon EXCEPT ![m] = ResumeRow(@, req[r].deadline)]
    /\ log' = [log EXCEPT ![m] = RecordEvent(@, "resume")]
    /\ Finish(r)
    /\ UNCHANGED <<clock, status, checkins, lock, claim, ops>>

(* PATCH, first half: the handler reads the monitor and validates the      *)
(* merged schedule against what it read, if the body has any field of it.  *)
UpdateRead(r, m, p) ==
    /\ Issue /\ req[r] = Idle /\ Stored(m)
    /\ ScheduleFieldsSet(p) => Validate(MergeScheduleConfig(mon[m].schedule, p))
    /\ req' = [req EXCEPT ![r] = [pc |-> "patch", m |-> m, patch |-> p]]
    /\ UNCHANGED <<clock, status, mon, log, checkins, lock, claim>>

(* The columns UpdateMonitor writes: the deadline is not re-armed.         *)
UpdateRow(row, p) ==
    [row EXCEPT !.schedule = StoreSchedule(@, p),
                !.autoResume = IF p.autoResume = {} THEN @ ELSE TRUE \in p.autoResume]

(* changedFieldsMeta: whether the body carried any field.                  *)
ChangedFields(p) == ScheduleFieldsSet(p) \/ p.autoResume # {}

(* Second half: UpdateMonitor, with no event for an empty body.            *)
UpdateCommit(r) ==
    LET m == req[r].m
        p == req[r].patch IN
    /\ req[r].pc = "patch" /\ Stored(m) /\ Unlocked(m)
    /\ mon' = [mon EXCEPT ![m] = UpdateRow(@, p)]
    /\ log' = IF ChangedFields(p)
              THEN [log EXCEPT ![m] = RecordEvent(@, "config_change")] ELSE log
    /\ Finish(r)
    /\ UNCHANGED <<clock, status, checkins, lock, claim, ops>>

----------------------------------------------------------------------------
(* Ingest.                                                                 *)

(* ingest reads the clock before RecordCheckin opens its transaction.      *)
PingArrives(r, m, k) ==
    /\ Issue /\ req[r] = Idle
    /\ req' = [req EXCEPT ![r] = [pc |-> "ping", m |-> m, kind |-> k, now |-> clock]]
    /\ UNCHANGED <<clock, status, mon, log, checkins, lock, claim>>

(* GetMonitorBySlugForUpdate.                                              *)
PingLocks(r) ==
    LET j == req[r] IN
    /\ j.pc = "ping" /\ Stored(j.m) /\ Unlocked(j.m)
    /\ lock' = [lock EXCEPT ![j.m] = r]
    /\ req' = [req EXCEPT ![r] =
         [pc |-> "locked", m |-> j.m, kind |-> j.kind, now |-> j.now, row |-> mon[j.m]]]
    /\ UNCHANGED <<clock, status, mon, log, checkins, claim, ops>>

(* Mutant: COALESCE keeps the old deadline where a fail clears it.         *)
UpdateOnCheckinCoalesce(row, state, now, deadline, streak) ==
    [row EXCEPT !.state = state, !.last = now,
                !.deadline = Coalesce(deadline, Null, @),
                !.streak = streak, !.paused = @ /\ ~row.autoResume]

(* The columns UpdateMonitorOnCheckin writes.                              *)
UpdateOnCheckin(row, state, now, deadline, streak) ==
    [row EXCEPT !.state = state, !.last = now, !.deadline = deadline,
                !.streak = streak, !.paused = @ /\ ~row.autoResume]

InsertCheckin(j) ==
    checkins' = [checkins EXCEPT ![j.m] = @ \cup {[kind |-> j.kind, at |-> j.now]}]

StartCommit(r) ==
    LET j == req[r] IN
    /\ j.pc = "locked" /\ j.kind = "start"
    /\ InsertCheckin(j) /\ Finish(r) /\ Release(j.m)
    /\ UNCHANGED <<clock, status, mon, log, claim, ops>>

ApplySuccess(r) ==
    LET j == req[r] IN
    /\ j.pc = "locked" /\ j.kind = "success" /\ Validate(j.row.schedule)
    /\ mon' = [mon EXCEPT ![j.m] =
         UpdateOnCheckin(@, "up", j.now, NextOccurrence(j.row.schedule, j.now), 0)]
    /\ log' = IF j.row.state = "down"
              THEN [log EXCEPT ![j.m] = RecordTransition(@, "up")] ELSE log
    /\ InsertCheckin(j) /\ Finish(r) /\ Release(j.m)
    /\ UNCHANGED <<clock, status, claim, ops>>

ApplyFail(r) ==
    LET j == req[r] IN
    /\ j.pc = "locked" /\ j.kind = "fail"
    /\ mon' = [mon EXCEPT ![j.m] =
         UpdateOnCheckin(@, "down", j.now, Null, j.row.streak + 1)]
    /\ log' = IF j.row.state # "down"
              THEN [log EXCEPT ![j.m] = RecordTransition(@, "down")] ELSE log
    /\ InsertCheckin(j) /\ Finish(r) /\ Release(j.m)
    /\ UNCHANGED <<clock, status, claim, ops>>

(* A request ends without effect: its row is gone, its stored schedule     *)
(* does not validate (ingest answers 200 all the same), the client hung    *)
(* up or the server died.  Postgres rolls back and drops the locks.        *)
RequestAborts(r) ==
    /\ req[r] # Idle
    /\ Finish(r)
    /\ lock' = [m \in Monitors |-> IF lock[m] = r THEN Free ELSE lock[m]]
    /\ UNCHANGED <<clock, status, mon, log, checkins, claim, ops>>

----------------------------------------------------------------------------
(* The scheduler worker.                                                   *)

(* Mutants of the claim's predicate: paused rows are claimed too, the      *)
(* comparison with the clock is not strict, late rows are left out.        *)
DueThoughPaused(m) ==
    /\ Stored(m) /\ mon[m].deadline # Null /\ mon[m].deadline < clock
    /\ mon[m].state \in {"up", "late"}

DueAtDeadline(m) ==
    /\ Stored(m) /\ mon[m].deadline # Null /\ mon[m].deadline =< clock
    /\ mon[m].state \in {"up", "late"} /\ ~mon[m].paused

DueUpOnly(m) ==
    /\ Stored(m) /\ mon[m].deadline # Null /\ mon[m].deadline < clock
    /\ mon[m].state = "up" /\ ~mon[m].paused

Due(m) ==
    /\ Stored(m)
    /\ mon[m].deadline # Null /\ mon[m].deadline < clock
    /\ mon[m].state \in {"up", "late"}
    /\ ~mon[m].paused

(* ClaimDueMonitors: the ClaimLimit oldest due rows, FOR UPDATE SKIP       *)
(* LOCKED.                                                                 *)
Claim(s) ==
    LET due == {m \in Monitors : Due(m) /\ Unlocked(m)} IN
    /\ claim[s] = NoRows
    /\ \E rows \in SUBSET due :
         /\ rows # {}
         /\ \/ rows = due /\ Cardinality(rows) =< ClaimLimit
            \/ Cardinality(rows) = ClaimLimit
         /\ \A m \in rows, n \in due \ rows : mon[m].deadline =< mon[n].deadline
         /\ lock' = [m \in Monitors |-> IF m \in rows THEN s ELSE lock[m]]
         /\ claim' = [claim EXCEPT ![s] =
              [m \in Monitors |-> IF m \in rows THEN mon[m] ELSE Unclaimed]]
    /\ UNCHANGED <<clock, status, mon, log, checkins, req, ops>>

(* evaluateOne on the row the claim returned: MarkMonitorLate or           *)
(* MarkMonitorDown on the stored row.                                      *)
EvaluateRow(seen, row) ==
    IF seen.state = "up"
    THEN [row EXCEPT !.state = "late", !.deadline = seen.deadline + seen.schedule.grace]
    ELSE [row EXCEPT !.state = "down", !.deadline = Null, !.streak = @ + 1]

EvaluateLog(seen, l) ==
    IF seen.state = "up" THEN RecordEvent(l, "late") ELSE RecordTransition(l, "down")

(* The tick commits every claimed row's transition at once.                *)
EvaluateDueMonitors(s) ==
    LET rows == {m \in Monitors : claim[s][m] # Unclaimed} IN
    /\ claim[s] # NoRows
    /\ mon' = [m \in Monitors |->
         IF m \in rows THEN EvaluateRow(claim[s][m], mon[m]) ELSE mon[m]]
    /\ log' = [m \in Monitors |->
         IF m \in rows THEN EvaluateLog(claim[s][m], log[m]) ELSE log[m]]
    /\ lock' = [m \in Monitors |-> IF lock[m] = s THEN Free ELSE lock[m]]
    /\ claim' = [claim EXCEPT ![s] = NoRows]
    /\ UNCHANGED <<clock, status, checkins, req, ops>>

(* The worker dies, or a statement fails, before the commit.               *)
SchedulerAborts(s) ==
    /\ claim[s] # NoRows
    /\ lock' = [m \in Monitors |-> IF lock[m] = s THEN Free ELSE lock[m]]
    /\ claim' = [claim EXCEPT ![s] = NoRows]
    /\ UNCHANGED <<clock, status, mon, log, checkins, req, ops>>

Tick ==
    /\ clock < MaxTime
    /\ clock' = clock + 1
    /\ UNCHANGED <<status, mon, log, checkins, lock, req, claim, ops>>

----------------------------------------------------------------------------

RequestStep(r) ==
    \/ PingLocks(r) \/ StartCommit(r) \/ ApplySuccess(r) \/ ApplyFail(r)
    \/ ResumeCommit(r) \/ UpdateCommit(r) \/ RequestAborts(r)

Next ==
    \/ Tick
    \/ \E m \in Monitors :
         \/ \E s \in Configs, a \in BOOLEAN : CreateMonitor(m, s, a)
         \/ DeleteMonitor(m) \/ PauseMonitor(m)
    \/ \E r \in Requests, m \in Monitors :
         \/ ResumeRead(r, m)
         \/ \E k \in Kind : PingArrives(r, m, k)
         \/ \E p \in Patches : UpdateRead(r, m, p)
    \/ \E r \in Requests : RequestStep(r)
    \/ \E s \in Schedulers : Claim(s) \/ EvaluateDueMonitors(s) \/ SchedulerAborts(s)

Spec == Init /\ [][Next]_vars

(* Time passes, a request in flight ends, each replica keeps ticking       *)
(* (worker.Run loops until shutdown) and does not fail in every one of its *)
(* ticks.                                                                  *)
Fairness ==
    /\ WF_vars(Tick)
    /\ \A r \in Requests : WF_vars(RequestStep(r))
    /\ \A s \in Schedulers : SF_vars(Claim(s)) /\ SF_vars(EvaluateDueMonitors(s))

FairSpec == Spec /\ Fairness

----------------------------------------------------------------------------
(* Properties.                                                             *)

Closes == {"up", "resume"}

(* The outage recorded by the i-th event is still open just before the     *)
(* j-th.                                                                   *)
OpenBefore(e, i, j) ==
    i < j /\ e[i] = "down" /\ \A k \in i + 1 .. j - 1 : e[k] \notin Closes

HasOpenOutage(e) == \E i \in 1 .. Len(e) : OpenBefore(e, i, Len(e) + 1)

WellPaired(e) ==
    \A j \in 1 .. Len(e) :
      /\ e[j] = "down" => \A i \in 1 .. Len(e) : ~OpenBefore(e, i, j)
      /\ e[j] = "up" => \E i \in 1 .. Len(e) : OpenBefore(e, i, j)

(* No monitor shows two transitions of the same type with nothing in       *)
(* between: recordTransition writes a second "down" only after the outage  *)
(* was closed by an "up" or by a resume, and an "up" only for an outage    *)
(* that is open, whatever pings, ticks and API calls interleave.           *)
NoRepeatedTransition == \A m \in Monitors : WellPaired(log[m].events)

(* The state column and the timeline agree: a stored monitor is down       *)
(* exactly when its timeline has an outage nothing has closed, so a        *)
(* transition is neither lost nor recorded without having happened.        *)
TimelineMatchesState ==
    \A m \in Monitors :
      Stored(m) => (mon[m].state = "down" <=> HasOpenOutage(log[m].events))

(* What FOR UPDATE buys: the row a ping or a tick has read and decides on  *)
(* is still the stored row when it commits, each row has one decider at a  *)
(* time, and a row in a tick's batch is one the scheduler may act on.      *)
DecisionsAreCurrent ==
    /\ \A r \in Requests : req[r].pc = "locked" =>
         /\ lock[req[r].m] = r /\ Stored(req[r].m)
         /\ req[r].row = mon[req[r].m]
    /\ \A s \in Schedulers, m \in Monitors : claim[s][m] # Unclaimed =>
         /\ lock[m] = s /\ Stored(m)
         /\ claim[s][m] = mon[m]
         /\ mon[m].state \in {"up", "late"} /\ ~mon[m].paused

(* The outbox holds exactly one row for every up and down event and none   *)
(* for any other event, after any mix of commits, rollbacks and crashes.   *)
OneAlertPerTransition ==
    \A m \in Monitors : \A i \in 1 .. Len(log[m].events) :
      LET rows == {j \in DOMAIN log[m].alerts : log[m].alerts[j] = i} IN
      Cardinality(rows) = IF log[m].events[i] \in {"up", "down"} THEN 1 ELSE 0

(* A stored monitor is armed exactly while the scheduler has a threshold   *)
(* to act on: an up or late row always has a deadline, so it cannot be     *)
(* stuck, and a new or down row has none, so it is never claimed.          *)
ArmedWhileWatched ==
    \A m \in Monitors : Stored(m) =>
      (mon[m].state \in {"up", "late"} <=> mon[m].deadline # Null)

(* The scheduler never moves a paused monitor, even one paused while a     *)
(* tick was under way: a paused row changes state only through a check-in  *)
(* or a resume, and never to late.                                         *)
PausedIsLeftAlone ==
    [][\A m \in Monitors :
         Stored(m) /\ mon[m].paused /\ mon'[m].state # mon[m].state =>
           lock[m] \notin Schedulers /\ mon'[m].state # "late"]_vars

(* A monitor is late only once the occurrence that follows every recorded  *)
(* successful check-in has passed (schedule.NextOccurrence).               *)
LateOnlyAfterOccurrence ==
    \A m \in Monitors : Stored(m) /\ mon[m].state = "late" =>
      \A c \in checkins[m] :
        c.kind = "success" => NextOccurrence(mon[m].schedule, c.at) < clock

(* Every stored schedule validates, so that nextDeadlineFor succeeds for   *)
(* the next ping of the monitor.                                           *)
StoredScheduleValidates ==
    \A m \in Monitors : Stored(m) => Validate(mon[m].schedule)

(* All requests have been issued and have ended, and the monitor is        *)
(* watched with both its thresholds inside the clock's bound.              *)
Silent(m) ==
    /\ Stored(m) /\ ~mon[m].paused
    /\ ops = MaxOps /\ \A r \in Requests : req[r] = Idle
    /\ \/ mon[m].state = "up" /\ mon[m].deadline + mon[m].schedule.grace < MaxTime
       \/ mon[m].state = "late" /\ mon[m].deadline < MaxTime

(* A watched monitor that falls silent is eventually recorded down: no     *)
(* missed outage, through crashed ticks, full batches and other replicas.  *)
SilentMonitorGoesDown ==
    \A m \in Monitors : Silent(m) ~> Stored(m) /\ mon[m].state = "down"

(* The monitor as its owner sees it: its outage by the state column, its   *)
(* notices by the event each of its outbox rows refers to.                 *)
PhaseOf(m) ==
    IF status[m] = "unborn" THEN "absent"
    ELSE IF status[m] = "deleted" THEN "gone"
    ELSE IF mon[m].state = "down" THEN "out" ELSE "ok"

NoticesIn(l) == [j \in DOMAIN l.alerts |-> l.events[l.alerts[j]]]

Promise == INSTANCE Timeline WITH
    phase <- [m \in Monitors |-> PhaseOf(m)],
    notices <- [m \in Monitors |-> NoticesIn(log[m])]

(* Pings, ticks and API calls together implement Timeline: whatever they   *)
(* interleave with, the change of the state column and the outbox row that *)
(* tells the owner of it are one step, in order and exactly once, and only *)
(* a resume ends an outage without a row.                                  *)
ImplementsTimeline == Promise!Spec
==============================================================================
