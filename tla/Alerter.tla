------------------------------- MODULE Alerter -------------------------------
(***************************************************************************)
(* The outbox and the alerter worker (worker/alerter, store/alerter.go,    *)
(* db/queries/alerts.sql): a replica's tick queues reminders, claims due   *)
(* pending rows in a transaction that commits at once, then sends them one *)
(* by one and marks each row afterwards.  Rows come from the transitions   *)
(* of monitors, which are this module's environment.                       *)
(***************************************************************************)
EXTENDS Integers, Sequences, FiniteSets

CONSTANTS
    Monitors,           \* monitors whose rows the outbox holds
    Workers,            \* alerter replicas
    Channels,           \* whether SMTP may be configured: a set of BOOLEANs
    MaxAttempts,        \* maxAttempts of worker/alerter
    Backoff,            \* Backoff[n]: delay after the failure of attempt n + 1
    ClaimLimit,         \* claimLimit of worker/alerter
    Cadence,            \* reminder_every_s of each monitor, 0 disables
    FaultKinds,         \* which of "crash", "db" and "ack" can happen
    MaxFaults,          \* bound: faults in a behaviour
    MaxTime,            \* bound: the clock stops here
    MaxAlerts           \* bound: outbox rows inserted in a behaviour

ASSUME ConstantsAssumption ==
    /\ IsFiniteSet(Monitors)
    /\ Channels \subseteq BOOLEAN
    /\ MaxAttempts \in Nat \ {0}
    /\ Backoff \in [0 .. MaxAttempts -> Nat \ {0}]
    /\ ClaimLimit \in Nat \ {0}
    /\ Cadence \in [Monitors -> Nat]
    /\ FaultKinds \subseteq {"crash", "db", "ack"}
    /\ MaxFaults \in Nat /\ MaxTime \in Nat /\ MaxAlerts \in Nat

VARIABLES
    channel,    \* FALSE when SMTP is not configured (ch is nil)
    clock,      \* the wall clock
    mon,        \* the columns of each monitor the alerter reads
    alerts,     \* the alerts table, by id
    failures,   \* for each alert id, the alert_failed events written for it
    inbox,      \* for each alert id, the messages the mail server accepted
    worker,     \* what each replica is doing
    faults      \* faults so far

vars == <<channel, clock, mon, alerts, failures, inbox, worker, faults>>

MonitorRow == [exists: BOOLEAN, down: BOOLEAN, muted: BOOLEAN]

(* "gone" is a row that went with its monitor (ON DELETE CASCADE).         *)
AlertRow == [monitor: Monitors, reminder: BOOLEAN, created: Nat,
             status: {"pending", "sent", "failed", "gone"}, attempts: Nat,
             next: Nat, sentAt: BOOLEAN]

(* The columns of a claimed row that dispatch uses (AlertJob).             *)
Job == [id: Nat, muted: BOOLEAN, attempts: Nat, next: Nat]
Result == {"accepted", "retryable", "permanent"}

Idle == [pc |-> "idle"]
WorkerState == {Idle, [pc |-> "claim"]}
  \cup [pc: {"enqueue"}, remind: SUBSET Monitors, at: Nat]
  \cup [pc: {"dispatch"}, jobs: SUBSET Job]
  \cup [pc: {"mark"}, jobs: SUBSET Job, job: Job, result: Result]

TypeOK ==
    /\ channel \in Channels
    /\ clock \in Nat
    /\ mon \in [Monitors -> MonitorRow]
    /\ alerts \in Seq(AlertRow)
    /\ failures \in [1 .. MaxAlerts -> Nat]
    /\ inbox \in [1 .. MaxAlerts -> Nat]
    /\ worker \in [Workers -> WorkerState]
    /\ faults \in Nat

(* An empty outbox and replicas that have just started.                    *)
StartUp ==
    /\ channel \in Channels
    /\ alerts = <<>>
    /\ failures = [a \in 1 .. MaxAlerts |-> 0]
    /\ inbox = [a \in 1 .. MaxAlerts |-> 0]
    /\ worker = [w \in Workers |-> Idle]
    /\ faults = 0

Init ==
    /\ clock = 0
    /\ mon = [m \in Monitors |-> [exists |-> TRUE, down |-> FALSE, muted |-> FALSE]]
    /\ StartUp

----------------------------------------------------------------------------
(* The environment: transitions enqueue a row, owners mute, unmute and     *)
(* delete.  (A resume, which ends an outage without a row, is in Pipeline.) *)

(* created_at and next_attempt_at default to now(), which in Postgres is   *)
(* the start of the transaction.                                           *)
InsertAlert(m, reminder, at) ==
    [monitor |-> m, reminder |-> reminder, created |-> at, status |-> "pending",
     attempts |-> 0, next |-> at, sentAt |-> FALSE]

(* recordTransition of a down or an up: the state and the outbox row.      *)
Transition(m) ==
    /\ Len(alerts) < MaxAlerts /\ mon[m].exists
    /\ mon' = [mon EXCEPT ![m].down = ~@]
    /\ alerts' = Append(alerts, InsertAlert(m, FALSE, clock))
    /\ UNCHANGED <<channel, clock, failures, inbox, worker, faults>>

MuteMonitor(m) ==
    /\ mon[m].exists /\ ~mon[m].muted
    /\ mon' = [mon EXCEPT ![m].muted = TRUE]
    /\ UNCHANGED <<channel, clock, alerts, failures, inbox, worker, faults>>

UnmuteMonitor(m) ==
    /\ mon[m].muted
    /\ mon' = [mon EXCEPT ![m].muted = FALSE]
    /\ UNCHANGED <<channel, clock, alerts, failures, inbox, worker, faults>>

(* What the deletion of a monitor leaves of the table: nothing is left of  *)
(* a row but that its id is taken.                                         *)
Cascade(m) == [a \in DOMAIN alerts |->
    IF alerts[a].monitor = m
    THEN [InsertAlert(m, FALSE, 0) EXCEPT !.status = "gone"] ELSE alerts[a]]

DeleteMonitor(m) ==
    /\ mon[m].exists
    /\ mon' = [mon EXCEPT ![m] = [exists |-> FALSE, down |-> FALSE, muted |-> FALSE]]
    /\ alerts' = Cascade(m)
    /\ failures' = [a \in 1 .. MaxAlerts |->
         IF a \in DOMAIN alerts /\ alerts[a].monitor = m THEN 0 ELSE failures[a]]
    /\ UNCHANGED <<channel, clock, inbox, worker, faults>>

Tick ==
    /\ clock < MaxTime
    /\ clock' = clock + 1
    /\ UNCHANGED <<channel, mon, alerts, failures, inbox, worker, faults>>

Fault(kind) == kind \in FaultKinds /\ faults < MaxFaults /\ faults' = faults + 1

----------------------------------------------------------------------------
(* One tick of a replica.                                                  *)

(* Mutant: only alerts still pending hold the next reminder back.          *)
ReminderDueUnlessPending(m) ==
    /\ mon[m].down /\ ~mon[m].muted /\ Cadence[m] > 0
    /\ \A a \in DOMAIN alerts :
         alerts[a].monitor = m /\ alerts[a].status = "pending" =>
           alerts[a].created =< clock - Cadence[m]

(* The rows EnqueueDownReminders selects: down, not muted, with a cadence, *)
(* and no alert of the monitor created within the cadence.  The JOIN with  *)
(* the latest "down" always finds one here: Transition writes it with the  *)
(* state.  Its pruning, after the retention, is in Rollup.                 *)
ReminderDue(m) ==
    /\ mon[m].down /\ ~mon[m].muted /\ Cadence[m] > 0
    /\ \A a \in DOMAIN alerts :
         alerts[a].monitor = m => alerts[a].created =< clock - Cadence[m]

(* The statement reads its snapshot (and is done if it selects nothing)... *)
EnqueueReads(w) ==
    LET due == {m \in Monitors : ReminderDue(m)} IN
    /\ worker[w] = Idle
    /\ worker' = [worker EXCEPT ![w] =
         IF due = {} THEN [pc |-> "claim"] ELSE [pc |-> "enqueue", remind |-> due, at |-> clock]]
    /\ UNCHANGED <<channel, clock, mon, alerts, failures, inbox, faults>>

(* ... and inserts a row for each monitor it selected there: none if one   *)
(* of them has been deleted since, whose foreign key fails the statement,  *)
(* and none at the bound MaxAlerts.                                        *)
EnqueueCommits(w) ==
    /\ worker[w].pc = "enqueue"
    /\ LET n == Cardinality(worker[w].remind) IN
       IF Len(alerts) + n > MaxAlerts \/ \E m \in worker[w].remind : ~mon[m].exists
       THEN alerts' = alerts
       ELSE \E q \in [1 .. n -> worker[w].remind] :
              /\ \A m \in worker[w].remind : \E i \in 1 .. n : q[i] = m
              /\ alerts' = alerts \o [i \in 1 .. n |-> InsertAlert(q[i], TRUE, worker[w].at)]
    /\ worker' = [worker EXCEPT ![w] = [pc |-> "claim"]]
    /\ UNCHANGED <<channel, clock, mon, failures, inbox, faults>>

(* An enqueue that fails is logged and the tick goes on.                   *)
EnqueueFails(w) ==
    /\ worker[w].pc = "enqueue" /\ Fault("db")
    /\ worker' = [worker EXCEPT ![w] = [pc |-> "claim"]]
    /\ UNCHANGED <<channel, clock, mon, alerts, failures, inbox>>

(* Mutant: the claim forgets the status filter.                            *)
DueRowsAnyStatus == {a \in DOMAIN alerts : alerts[a].next < clock}

DueRows == {a \in DOMAIN alerts : alerts[a].status = "pending" /\ alerts[a].next < clock}

(* ClaimDueAlerts: the ClaimLimit oldest due rows that no other replica's  *)
(* statement has locked, with the mute flag as it is now.  The row is not  *)
(* changed and its lock is gone when the claim commits.                    *)
Claim(w) ==
    /\ worker[w].pc = "claim"
    /\ \E locked \in SUBSET DueRows :
         /\ locked # {} => \E v \in Workers \ {w} : worker[v] # Idle
         /\ \E rows \in SUBSET (DueRows \ locked) :
              /\ \/ rows = DueRows \ locked /\ Cardinality(rows) =< ClaimLimit
                 \/ Cardinality(rows) = ClaimLimit
              /\ \A a \in rows, b \in (DueRows \ locked) \ rows : alerts[a].next =< alerts[b].next
              /\ worker' = [worker EXCEPT ![w] =
                   IF rows = {} THEN Idle
                   ELSE [pc |-> "dispatch",
                         jobs |-> {[id |-> a, muted |-> mon[alerts[a].monitor].muted,
                                    attempts |-> alerts[a].attempts,
                                    next |-> alerts[a].next] : a \in rows}]]
    /\ UNCHANGED <<channel, clock, mon, alerts, failures, inbox, faults>>

(* A failed claim ends the tick.                                           *)
ClaimFails(w) ==
    /\ worker[w].pc = "claim" /\ Fault("db")
    /\ worker' = [worker EXCEPT ![w] = Idle]
    /\ UNCHANGED <<channel, clock, mon, alerts, failures, inbox>>

(* The batch is worked off in the claim's order.                           *)
Jobs(w) == IF worker[w].pc = "dispatch" THEN worker[w].jobs ELSE {}
IsNext(w, j) == j \in Jobs(w) /\ \A k \in Jobs(w) : j.next =< k.next

After(w, jobs) ==
    worker' = [worker EXCEPT ![w] =
      IF jobs = {} THEN Idle ELSE [pc |-> "dispatch", jobs |-> jobs]]

(* An UPDATE by id finds no row once the row's monitor is deleted.         *)
Update(a, row) ==
    alerts' = IF alerts[a].status = "gone" THEN alerts ELSE [alerts EXCEPT ![a] = row]

(* The attempts column counts what Send was asked to do.                   *)
Attempted(a) == [alerts[a] EXCEPT !.attempts = @ + 1]

(* Mutants: the row stays pending after delivery; the failure leaves no    *)
(* event.                                                                  *)
MarkSentStillPending(a) ==
    Update(a, [Attempted(a) EXCEPT !.sentAt = TRUE]) /\ UNCHANGED failures

FailWithoutEvent(a) ==
    Update(a, [Attempted(a) EXCEPT !.status = "failed"]) /\ UNCHANGED failures

(* Statements of store/alerter.go on the row of an id; none of them looks  *)
(* at the row's status.                                                    *)
MarkAlertSent(a) ==
    /\ Update(a, [Attempted(a) EXCEPT !.status = "sent", !.sentAt = TRUE])
    /\ UNCHANGED failures

RescheduleAlert(a, next) ==
    Update(a, [Attempted(a) EXCEPT !.next = next]) /\ UNCHANGED failures

(* The event of a deleted monitor violates its foreign key.                *)
FailAlert(a) ==
    /\ Update(a, [Attempted(a) EXCEPT !.status = "failed"])
    /\ failures' = IF alerts[a].status = "gone" THEN failures
                   ELSE [failures EXCEPT ![a] = @ + 1]

(* Mutants: a status of its own for suppressed alerts; a muted alert is    *)
(* skipped and left pending.                                               *)
SuppressedStatus(w, j) ==
    /\ IsNext(w, j) /\ j.muted
    /\ Update(j.id, [alerts[j.id] EXCEPT !.status = "suppressed"])
    /\ After(w, Jobs(w) \ {j})
    /\ UNCHANGED <<channel, clock, mon, failures, inbox, faults>>

SkipMuted(w, j) ==
    /\ IsNext(w, j) /\ j.muted
    /\ After(w, Jobs(w) \ {j})
    /\ UNCHANGED <<channel, clock, mon, alerts, failures, inbox, faults>>

(* dispatch, muted: SuppressAlert.                                         *)
SuppressAlert(w, j) ==
    /\ IsNext(w, j) /\ j.muted
    /\ Update(j.id, [alerts[j.id] EXCEPT !.status = "sent"])
    /\ After(w, Jobs(w) \ {j})
    /\ UNCHANGED <<channel, clock, mon, failures, inbox, faults>>

(* dispatch, nothing to send with: no channel, or the message could not be *)
(* rendered because ResolveDowntime failed.                                *)
FailUnsent(w, j) ==
    /\ IsNext(w, j) /\ ~j.muted
    /\ \/ ~channel /\ faults' = faults
       \/ channel /\ Fault("db")
    /\ FailAlert(j.id)
    /\ After(w, Jobs(w) \ {j})
    /\ UNCHANGED <<channel, clock, mon, inbox>>

(* Channel.Send: the mail server takes the message, refuses it for now or  *)
(* for good, or takes it and the acknowledgement is lost: retryable for a  *)
(* timeout, permanent for a closed connection (isRetryable).               *)
Send(w, j, result) ==
    /\ IsNext(w, j) /\ ~j.muted /\ channel
    /\ \/ result = "accepted" /\ inbox' = [inbox EXCEPT ![j.id] = @ + 1] /\ faults' = faults
       \/ result # "accepted" /\ UNCHANGED <<inbox, faults>>
       \/ result # "accepted" /\ Fault("ack") /\ inbox' = [inbox EXCEPT ![j.id] = @ + 1]
    /\ worker' = [worker EXCEPT ![w] =
         [pc |-> "mark", jobs |-> Jobs(w) \ {j}, job |-> j, result |-> result]]
    /\ UNCHANGED <<channel, clock, mon, alerts, failures>>

(* Mutant: one attempt too many.                                           *)
RecordOutcomeOneMore(j, result) ==
    \/ result = "accepted" /\ MarkAlertSent(j.id)
    \/ /\ result = "retryable" /\ j.attempts < MaxAttempts
       /\ RescheduleAlert(j.id, clock + Backoff[j.attempts])
    \/ /\ result = "permanent" \/ (result = "retryable" /\ j.attempts >= MaxAttempts)
       /\ FailAlert(j.id)

(* What dispatch does with the result of Send, judged by the attempts the  *)
(* claim saw.                                                              *)
RecordOutcome(j, result) ==
    \/ result = "accepted" /\ MarkAlertSent(j.id)
    \/ /\ result = "retryable" /\ j.attempts + 1 < MaxAttempts
       /\ RescheduleAlert(j.id, clock + Backoff[j.attempts])
    \/ /\ result = "permanent" \/ (result = "retryable" /\ j.attempts + 1 >= MaxAttempts)
       /\ FailAlert(j.id)

Mark(w) ==
    /\ worker[w].pc = "mark"
    /\ RecordOutcome(worker[w].job, worker[w].result)
    /\ After(w, worker[w].jobs)
    /\ UNCHANGED <<channel, clock, mon, inbox, faults>>

(* The statement that records an outcome fails (after a failed render if   *)
(* there is a channel): logged, and the batch goes on.                     *)
MarkFails(w) ==
    /\ \/ worker[w].pc = "mark" /\ After(w, worker[w].jobs)
       \/ \E j \in Jobs(w) : IsNext(w, j) /\ After(w, Jobs(w) \ {j})
    /\ Fault("db")
    /\ UNCHANGED <<channel, clock, mon, alerts, failures, inbox>>

(* The process dies, or is told to stop between two jobs.                  *)
Crash(w) ==
    /\ worker[w] # Idle /\ Fault("crash")
    /\ worker' = [worker EXCEPT ![w] = Idle]
    /\ UNCHANGED <<channel, clock, mon, alerts, failures, inbox>>

WorkerStep(w) ==
    \/ EnqueueReads(w) \/ EnqueueCommits(w) \/ Claim(w) \/ Mark(w)
    \/ \E j \in Jobs(w) :
         \/ SuppressAlert(w, j) \/ FailUnsent(w, j)
         \/ \E result \in Result : Send(w, j, result)

Next ==
    \/ Tick
    \/ \E m \in Monitors :
         \/ Transition(m) \/ DeleteMonitor(m)
         \/ MuteMonitor(m) \/ UnmuteMonitor(m)
    \/ \E w \in Workers :
         WorkerStep(w) \/ EnqueueFails(w) \/ ClaimFails(w) \/ MarkFails(w) \/ Crash(w)

Spec == Init /\ [][Next]_vars

----------------------------------------------------------------------------
(* Properties.                                                             *)

(* An alert is delivered more than once only if a fault hit its delivery:  *)
(* with one replica, each message beyond the first is paid for by a crash, *)
(* a failed UPDATE or a lost acknowledgement, so without faults delivery   *)
(* is at most once.                                                        *)
DuplicatesNeedFaults == \A a \in 1 .. MaxAlerts : inbox[a] =< 1 + faults

(* No alert is delivered twice, whatever happens to the worker that        *)
(* claimed it.                                                             *)
AtMostOnce == \A a \in 1 .. MaxAlerts : inbox[a] =< 1

(* The attempt budget holds: a row never counts more than maxAttempts      *)
(* attempts and a pending one always has an attempt left.                  *)
AttemptBudget ==
    \A a \in DOMAIN alerts :
      /\ alerts[a].attempts =< MaxAttempts
      /\ alerts[a].status = "pending" => alerts[a].attempts < MaxAttempts

(* A resolved row stays as it is: dispatch never revives, re-fails or      *)
(* re-counts an alert that is sent, suppressed or failed; it only goes     *)
(* with its monitor.                                                       *)
ResolvedIsFinal ==
    [][\A a \in DOMAIN alerts : alerts[a].status # "pending" =>
         alerts'[a] = alerts[a] \/ alerts'[a].status = "gone"]_vars

(* The timeline tells the truth about delivery: an alert has one           *)
(* alert_failed event exactly when it is failed, and a row with a sent_at  *)
(* was accepted by the mail server.                                        *)
OutcomeIsVisible ==
    \A a \in DOMAIN alerts :
      /\ failures[a] = IF alerts[a].status = "failed" THEN 1 ELSE 0
      /\ alerts[a].sentAt => alerts[a].status = "sent" /\ inbox[a] >= 1

(* Reminders of a monitor do not stack: the NOT EXISTS of the enqueue      *)
(* keeps any two of them at least one cadence apart.                       *)
RemindersSpaced ==
    \A a, b \in DOMAIN alerts :
      /\ a < b /\ alerts[a].reminder /\ alerts[b].reminder
      /\ alerts[a].monitor = alerts[b].monitor
      => alerts[b].created >= alerts[a].created + Cadence[alerts[b].monitor]
==============================================================================
