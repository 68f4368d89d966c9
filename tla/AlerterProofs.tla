---------------------------- MODULE AlerterProofs ----------------------------
(***************************************************************************)
(* Proofs about Alerter, for any monitors, cadences, backoff and claim     *)
(* limit, any faults and an outbox of any length.  The types hold for any  *)
(* number of replicas; what dispatch promises about a row holds for one    *)
(* replica, and the theorems say so (with two, TLC finds the row claimed   *)
(* twice).                                                                 *)
(***************************************************************************)
EXTENDS Alerter, FiniteSetTheorems, SequenceTheorems, TLAPS

----------------------------------------------------------------------------
(* The states of a replica and the rows of the outbox.                     *)

(* The pc of a replica tells the shape of its state.                       *)
LEMMA WorkerShape ==
    ASSUME TypeOK, NEW w \in Workers
    PROVE  /\ worker[w].pc \in {"idle", "claim", "enqueue", "dispatch", "mark"}
           /\ worker[w].pc = "enqueue" =>
                worker[w].remind \subseteq Monitors /\ worker[w].at \in Nat
           /\ worker[w].pc \in {"dispatch", "mark"} => worker[w].jobs \subseteq Job
           /\ worker[w].pc = "mark" => worker[w].job \in Job /\ worker[w].result \in Result
           /\ worker[w].pc = "idle" <=> worker[w] = Idle
BY DEF TypeOK, WorkerState, Idle

(* A record of one of these shapes is the state of a replica.              *)
LEMMA ShapesAreStates ==
    /\ Idle \in WorkerState /\ [pc |-> "claim"] \in WorkerState
    /\ \A due \in SUBSET Monitors, t \in Nat :
         [pc |-> "enqueue", remind |-> due, at |-> t] \in WorkerState
    /\ \A jobs \in SUBSET Job : [pc |-> "dispatch", jobs |-> jobs] \in WorkerState
    /\ \A jobs \in SUBSET Job, j \in Job, r \in Result :
         [pc |-> "mark", jobs |-> jobs, job |-> j, result |-> r] \in WorkerState
BY DEF WorkerState

(* One replica moves to a new state.                                       *)
LEMMA OneMoves ==
    ASSUME TypeOK, NEW w \in Workers, NEW s, worker' = [worker EXCEPT ![w] = s]
    PROVE  /\ worker'[w] = s
           /\ \A v \in Workers \ {w} : worker'[v] = worker[v]
           /\ s \in WorkerState => worker' \in [Workers -> WorkerState]
BY DEF TypeOK

(* After leaves the replica with the rest of its batch.                    *)
LEMMA AfterMoves ==
    ASSUME TypeOK, NEW w \in Workers, NEW jobs \in SUBSET Job, After(w, jobs)
    PROVE  /\ worker' \in [Workers -> WorkerState]
           /\ \/ jobs = {} /\ worker'[w].pc = "idle"
              \/ worker'[w].pc = "dispatch" /\ worker'[w].jobs = jobs
           /\ \A v \in Workers \ {w} : worker'[v] = worker[v]
<1> DEFINE s == IF jobs = {} THEN Idle ELSE [pc |-> "dispatch", jobs |-> jobs]
<1>1. worker' = [worker EXCEPT ![w] = s] /\ s \in WorkerState
  BY ShapesAreStates DEF After
<1>2. \/ jobs = {} /\ s.pc = "idle"
      \/ s.pc = "dispatch" /\ s.jobs = jobs
  BY DEF Idle
<1> HIDE DEF s
<1> QED BY <1>1, <1>2, OneMoves

(* The jobs of a replica.                                                  *)
LEMMA JobsType ==
    ASSUME TypeOK, NEW w \in Workers
    PROVE  Jobs(w) \subseteq Job
BY WorkerShape DEF Jobs

(* A row of the outbox.                                                    *)
LEMMA OutboxRow ==
    ASSUME TypeOK
    PROVE  /\ DOMAIN alerts = 1 .. Len(alerts) /\ Len(alerts) \in Nat
           /\ \A a \in DOMAIN alerts : alerts[a] \in AlertRow
           /\ alerts \in [DOMAIN alerts -> AlertRow]
BY DEF TypeOK

(* An UPDATE keeps the rows and changes at most one.                       *)
LEMMA UpdateKeeps ==
    ASSUME TypeOK, NEW a, NEW row, a \in DOMAIN alerts => row \in AlertRow,
           Update(a, row)
    PROVE  /\ alerts' \in Seq(AlertRow)
           /\ DOMAIN alerts' = DOMAIN alerts /\ Len(alerts') = Len(alerts)
           /\ \A b \in DOMAIN alerts : b # a => alerts'[b] = alerts[b]
           /\ a \in DOMAIN alerts =>
                alerts'[a] = IF alerts[a].status = "gone" THEN alerts[a] ELSE row
<1>1. CASE alerts[a].status = "gone"
  BY <1>1 DEF Update, TypeOK
<1>2. CASE alerts[a].status # "gone"
  <2>1. alerts' = [alerts EXCEPT ![a] = row]
    BY <1>2 DEF Update
  <2>2. alerts' \in [1 .. Len(alerts) -> AlertRow] /\ Len(alerts) \in Nat
    BY <2>1, OutboxRow
  <2>3. alerts' \in Seq(AlertRow) /\ Len(alerts') = Len(alerts)
    BY <2>2
  <2> QED BY <2>1, <2>3, <1>2, OutboxRow
<1> QED BY <1>1, <1>2

(* The statements on a row.                                                *)
LEMMA RowStatements ==
    ASSUME TypeOK, NEW a \in DOMAIN alerts
    PROVE  /\ [alerts[a] EXCEPT !.status = "sent"] \in AlertRow
           /\ Attempted(a) \in AlertRow
           /\ [Attempted(a) EXCEPT !.status = "sent", !.sentAt = TRUE] \in AlertRow
           /\ \A t \in Nat : [Attempted(a) EXCEPT !.next = t] \in AlertRow
           /\ [Attempted(a) EXCEPT !.status = "failed"] \in AlertRow
<1>1. alerts[a] \in AlertRow
  BY OutboxRow
<1>2. Attempted(a) \in AlertRow
  BY <1>1 DEF Attempted, AlertRow
<1> QED BY <1>1, <1>2 DEF AlertRow

(* Rows are appended at the end.                                           *)
LEMMA OutboxGrows ==
    ASSUME TypeOK, NEW n \in Nat, NEW new \in [1 .. n -> AlertRow], alerts' = alerts \o new
    PROVE  /\ alerts' \in Seq(AlertRow)
           /\ Len(alerts') = Len(alerts) + n /\ DOMAIN alerts' = 1 .. (Len(alerts) + n)
           /\ \A a \in DOMAIN alerts : alerts'[a] = alerts[a]
           /\ \A i \in 1 .. n : alerts'[Len(alerts) + i] = new[i]
<1>1. new \in Seq(AlertRow) /\ Len(new) = n
  OBVIOUS
<1>2. alerts \in Seq(AlertRow)
  BY DEF TypeOK
<1>3. alerts' \in Seq(AlertRow) /\ Len(alerts') = Len(alerts) + n
  BY <1>1, <1>2, ConcatProperties
<1>4. DOMAIN alerts' = 1 .. (Len(alerts) + n) /\ Len(alerts) \in Nat /\ DOMAIN alerts = 1 .. Len(alerts)
  BY <1>2, <1>3
<1>5. \A a \in 1 .. Len(alerts) : alerts'[a] = alerts[a]
  BY <1>1, <1>2, ConcatProperties
<1>6. \A i \in 1 .. n : alerts'[Len(alerts) + i] = new[i]
  BY <1>1, <1>2, ConcatProperties
<1> QED BY <1>3, <1>4, <1>5, <1>6

(* A transition's row is the last one.                                     *)
LEMMA OutboxGrowsByOne ==
    ASSUME TypeOK, NEW row \in AlertRow, alerts' = Append(alerts, row)
    PROVE  /\ alerts' \in Seq(AlertRow)
           /\ Len(alerts') = Len(alerts) + 1 /\ DOMAIN alerts' = 1 .. (Len(alerts) + 1)
           /\ \A a \in DOMAIN alerts : alerts'[a] = alerts[a]
           /\ alerts'[Len(alerts) + 1] = row
<1>1. alerts \in Seq(AlertRow)
  BY DEF TypeOK
<1> QED BY <1>1

(* The row an INSERT makes.                                                *)
LEMMA InsertAlertType ==
    ASSUME NEW m \in Monitors, NEW r \in BOOLEAN, NEW t \in Nat
    PROVE  InsertAlert(m, r, t) \in AlertRow
BY DEF InsertAlert, AlertRow

(* What an enqueue that inserts writes: a reminder for each monitor its    *)
(* snapshot selected, no monitor twice.                                    *)
LEMMA Reminders ==
    ASSUME TypeOK, NEW w \in Workers, EnqueueCommits(w)
    PROVE  \/ alerts' = alerts
           \/ \E n \in Nat, q \in Seq(Monitors) :
                /\ Len(alerts) + n =< MaxAlerts
                /\ q \in [1 .. n -> worker[w].remind]
                /\ \A i, k \in 1 .. n : q[i] = q[k] => i = k
                /\ alerts' = alerts \o [i \in 1 .. n |-> InsertAlert(q[i], TRUE, worker[w].at)]
<1> DEFINE S == worker[w].remind
           n == Cardinality(S)
<1>1. S \subseteq Monitors
  BY WorkerShape DEF EnqueueCommits
<1>2. IsFiniteSet(S) /\ n \in Nat
  BY <1>1, ConstantsAssumption, FS_Subset, FS_CardinalityType
<1>3. SUFFICES ASSUME alerts' # alerts
               PROVE  \E k \in Nat, q \in Seq(Monitors) :
                        /\ Len(alerts) + k =< MaxAlerts
                        /\ q \in [1 .. k -> S]
                        /\ \A i, j \in 1 .. k : q[i] = q[j] => i = j
                        /\ alerts' = alerts \o [i \in 1 .. k |-> InsertAlert(q[i], TRUE, worker[w].at)]
  OBVIOUS
<1>4. /\ ~(Len(alerts) + n > MaxAlerts)
      /\ \E q \in [1 .. n -> S] :
           /\ \A m \in S : \E i \in 1 .. n : q[i] = m
           /\ alerts' = alerts \o [i \in 1 .. n |-> InsertAlert(q[i], TRUE, worker[w].at)]
  BY <1>3 DEF EnqueueCommits
<1>5. PICK q \in [1 .. n -> S] :
        /\ \A m \in S : \E i \in 1 .. n : q[i] = m
        /\ alerts' = alerts \o [i \in 1 .. n |-> InsertAlert(q[i], TRUE, worker[w].at)]
  BY <1>4
<1> HIDE DEF S, n
<1>6. IsFiniteSet(1 .. n) /\ Cardinality(1 .. n) = n
  BY <1>2, FS_Interval
<1>7. q \in Surjection(1 .. n, S)
  BY <1>5 DEF Surjection
<1>8. Cardinality(1 .. n) = Cardinality(S)
  BY <1>6 DEF n
<1>9. q \in Injection(1 .. n, S)
  BY <1>6, <1>7, <1>8, FS_SurjSameCardinalityImpliesInj
<1>10. \A i, j \in 1 .. n : q[i] = q[j] => i = j
  BY <1>9 DEF Injection, IsInjective
<1>11. q \in Seq(Monitors)
  BY <1>1, <1>2
<1>12. Len(alerts) + n =< MaxAlerts
  BY <1>2, <1>4, ConstantsAssumption, OutboxRow
<1> DEFINE rows == [i \in 1 .. n |-> InsertAlert(q[i], TRUE, worker[w].at)]
<1>13. alerts' = alerts \o rows
  BY <1>5
<1>14. \E p \in Seq(Monitors) :
         /\ Len(alerts) + n =< MaxAlerts
         /\ p \in [1 .. n -> S]
         /\ \A i, j \in 1 .. n : p[i] = p[j] => i = j
         /\ alerts' = alerts \o [i \in 1 .. n |-> InsertAlert(p[i], TRUE, worker[w].at)]
  <2> WITNESS q \in Seq(Monitors)
  <2> HIDE DEF rows
  <2> QED BY <1>5, <1>10, <1>12, <1>13 DEF rows
<1> QED BY <1>2, <1>14, Zenon

----------------------------------------------------------------------------
(* Types, for any number of replicas.                                      *)

(* The outbox never outgrows its bound, which keeps every alert's id among *)
(* those the events and the mail server are told about.                    *)
TypeInv == TypeOK /\ Len(alerts) =< MaxAlerts

LEMMA TypeInit == Init => TypeInv
<1> SUFFICES ASSUME Init PROVE TypeInv
  OBVIOUS
<1>1. mon \in [Monitors -> MonitorRow]
  BY DEF Init, MonitorRow
<1>2. worker \in [Workers -> WorkerState]
  BY ShapesAreStates DEF Init, StartUp
<1>3. alerts \in Seq(AlertRow) /\ Len(alerts) = 0
  BY DEF Init, StartUp
<1> QED BY <1>1, <1>2, <1>3, ConstantsAssumption DEF Init, StartUp, TypeInv, TypeOK

(* The environment.                                                        *)
LEMMA TypeEnvironment ==
    ASSUME TypeInv, NEW m \in Monitors,
           Transition(m) \/ DeleteMonitor(m) \/ MuteMonitor(m) \/ UnmuteMonitor(m)
    PROVE  TypeInv'
<1> USE DEF TypeInv
<1>1. CASE Transition(m)
  <2>1. InsertAlert(m, FALSE, clock) \in AlertRow
    BY InsertAlertType DEF TypeOK
  <2>2. alerts' \in Seq(AlertRow) /\ Len(alerts') = Len(alerts) + 1
    BY <1>1, <2>1, OutboxGrowsByOne DEF Transition
  <2>3. mon' \in [Monitors -> MonitorRow]
    BY <1>1 DEF Transition, TypeOK, MonitorRow
  <2>4. Len(alerts') =< MaxAlerts
    BY <1>1, <2>2, OutboxRow, ConstantsAssumption DEF Transition
  <2> QED BY <1>1, <2>2, <2>3, <2>4 DEF Transition, TypeOK
<1>2. CASE DeleteMonitor(m)
  <2>1. mon' \in [Monitors -> MonitorRow]
    BY <1>2 DEF DeleteMonitor, TypeOK, MonitorRow
  <2>2. InsertAlert(m, FALSE, 0) \in AlertRow
    BY InsertAlertType
  <2>3. [InsertAlert(m, FALSE, 0) EXCEPT !.status = "gone"] \in AlertRow
    BY <2>2 DEF AlertRow
  <2>4. alerts' \in [1 .. Len(alerts) -> AlertRow] /\ Len(alerts) \in Nat
    BY <1>2, <2>3, OutboxRow DEF DeleteMonitor, Cascade
  <2>5. alerts' \in Seq(AlertRow) /\ Len(alerts') = Len(alerts)
    BY <2>4
  <2>6. failures' \in [1 .. MaxAlerts -> Nat]
    BY <1>2 DEF DeleteMonitor, TypeOK
  <2> QED BY <1>2, <2>1, <2>5, <2>6 DEF DeleteMonitor, TypeOK
<1>3. CASE MuteMonitor(m)
  <2>1. mon' \in [Monitors -> MonitorRow]
    BY <1>3 DEF MuteMonitor, TypeOK, MonitorRow
  <2> QED BY <1>3, <2>1 DEF MuteMonitor, TypeOK
<1>4. CASE UnmuteMonitor(m)
  <2>1. mon' \in [Monitors -> MonitorRow]
    BY <1>4 DEF UnmuteMonitor, TypeOK, MonitorRow
  <2> QED BY <1>4, <2>1 DEF UnmuteMonitor, TypeOK
<1> QED BY <1>1, <1>2, <1>3, <1>4

(* A claim: the replica ends its tick or holds the rows it read.           *)
LEMMA ClaimType ==
    ASSUME TypeOK, NEW w \in Workers, Claim(w)
    PROVE  \E rows \in SUBSET DueRows, s \in WorkerState :
             /\ worker' = [worker EXCEPT ![w] = s]
             /\ \/ s = Idle
                \/ /\ s.pc = "dispatch"
                   /\ s.jobs = {[id |-> a, muted |-> mon[alerts[a].monitor].muted,
                                 attempts |-> alerts[a].attempts,
                                 next |-> alerts[a].next] : a \in rows}
<1>1. PICK rows \in SUBSET DueRows :
        worker' = [worker EXCEPT ![w] =
                   IF rows = {} THEN Idle
                   ELSE [pc |-> "dispatch",
                         jobs |-> {[id |-> a, muted |-> mon[alerts[a].monitor].muted,
                                    attempts |-> alerts[a].attempts,
                                    next |-> alerts[a].next] : a \in rows}]]
  BY DEF Claim
<1> DEFINE jobs == {[id |-> a, muted |-> mon[alerts[a].monitor].muted,
                     attempts |-> alerts[a].attempts,
                     next |-> alerts[a].next] : a \in rows}
<1>2. jobs \in SUBSET Job
  <2> SUFFICES ASSUME NEW a \in rows
               PROVE  [id |-> a, muted |-> mon[alerts[a].monitor].muted,
                       attempts |-> alerts[a].attempts, next |-> alerts[a].next] \in Job
    OBVIOUS
  <2>1. a \in DOMAIN alerts
    BY DEF DueRows
  <2>2. alerts[a] \in AlertRow /\ a \in Nat
    BY <2>1, OutboxRow
  <2>3. mon[alerts[a].monitor].muted \in BOOLEAN
    BY <2>2 DEF TypeOK, AlertRow, MonitorRow
  <2> QED BY <2>2, <2>3 DEF AlertRow, Job
<1>3. CASE rows = {}
  BY <1>1, <1>3, ShapesAreStates
<1>4. CASE rows # {}
  <2>1. worker' = [worker EXCEPT ![w] = [pc |-> "dispatch", jobs |-> jobs]]
    BY <1>1, <1>4
  <2>2. [pc |-> "dispatch", jobs |-> jobs] \in WorkerState
    BY <1>2, ShapesAreStates
  <2> HIDE DEF jobs
  <2>3. \E s \in WorkerState : /\ worker' = [worker EXCEPT ![w] = s]
                              /\ s.pc = "dispatch" /\ s.jobs = jobs
    BY <2>1, <2>2
  <2> QED BY <2>3 DEF jobs
<1> QED BY <1>3, <1>4

(* A statement that records an outcome.                                    *)
LEMMA FailAlertType ==
    ASSUME TypeOK, NEW a, FailAlert(a)
    PROVE  /\ alerts' \in Seq(AlertRow) /\ Len(alerts') = Len(alerts)
           /\ failures' \in [1 .. MaxAlerts -> Nat]
<1>1. a \in DOMAIN alerts => [Attempted(a) EXCEPT !.status = "failed"] \in AlertRow
  BY RowStatements
<1>2. alerts' \in Seq(AlertRow) /\ Len(alerts') = Len(alerts)
  BY <1>1, UpdateKeeps DEF FailAlert
<1>3. failures' = failures \/ failures' = [failures EXCEPT ![a] = @ + 1]
  BY DEF FailAlert
<1> QED BY <1>2, <1>3 DEF TypeOK

LEMMA OutcomeType ==
    ASSUME TypeOK, NEW j \in Job, NEW r \in Result, RecordOutcome(j, r)
    PROVE  /\ alerts' \in Seq(AlertRow) /\ Len(alerts') = Len(alerts)
           /\ failures' \in [1 .. MaxAlerts -> Nat]
<1>1. CASE MarkAlertSent(j.id)
  <2>1. j.id \in DOMAIN alerts =>
          [Attempted(j.id) EXCEPT !.status = "sent", !.sentAt = TRUE] \in AlertRow
    BY RowStatements
  <2> QED BY <1>1, <2>1, UpdateKeeps DEF MarkAlertSent, TypeOK
<1>2. CASE j.attempts + 1 < MaxAttempts /\ RescheduleAlert(j.id, clock + Backoff[j.attempts])
  <2>1. clock + Backoff[j.attempts] \in Nat
    BY <1>2, ConstantsAssumption DEF TypeOK, Job
  <2>2. j.id \in DOMAIN alerts =>
          [Attempted(j.id) EXCEPT !.next = clock + Backoff[j.attempts]] \in AlertRow
    BY <2>1, RowStatements
  <2> QED BY <1>2, <2>2, UpdateKeeps DEF RescheduleAlert, TypeOK
<1>3. CASE FailAlert(j.id)
  BY <1>3, FailAlertType
<1> QED BY <1>1, <1>2, <1>3 DEF RecordOutcome

(* A replica at work.                                                      *)
LEMMA TypeWorker ==
    ASSUME TypeInv, NEW w \in Workers, WorkerStep(w)
    PROVE  TypeInv'
<1> USE DEF TypeInv
<1>1. CASE EnqueueReads(w)
  <2> DEFINE due == {m \in Monitors : ReminderDue(m)}
             s == IF due = {} THEN [pc |-> "claim"]
                  ELSE [pc |-> "enqueue", remind |-> due, at |-> clock]
  <2>1. s \in WorkerState
    <3>1. due \in SUBSET Monitors
      OBVIOUS
    <3> HIDE DEF due
    <3> QED BY <3>1, ShapesAreStates DEF TypeOK
  <2>2. worker' = [worker EXCEPT ![w] = s]
    BY <1>1 DEF EnqueueReads
  <2> HIDE DEF s
  <2>3. worker' \in [Workers -> WorkerState]
    BY <2>1, <2>2, OneMoves
  <2> QED BY <1>1, <2>3 DEF EnqueueReads, TypeOK
<1>2. CASE EnqueueCommits(w)
  <2>1. worker' \in [Workers -> WorkerState]
    BY <1>2, ShapesAreStates, OneMoves DEF EnqueueCommits
  <2>2. alerts' \in Seq(AlertRow) /\ Len(alerts') =< MaxAlerts
    <3>1. CASE alerts' = alerts
      BY <3>1 DEF TypeOK
    <3>2. CASE alerts' # alerts
      <4>1. PICK n \in Nat, q \in Seq(Monitors) :
              /\ Len(alerts) + n =< MaxAlerts
              /\ q \in [1 .. n -> worker[w].remind]
              /\ \A i, k \in 1 .. n : q[i] = q[k] => i = k
              /\ alerts' = alerts \o [i \in 1 .. n |-> InsertAlert(q[i], TRUE, worker[w].at)]
        BY <1>2, <3>2, Reminders
      <4>2. \A i \in 1 .. n : InsertAlert(q[i], TRUE, worker[w].at) \in AlertRow
        BY <1>2, <4>1, WorkerShape, InsertAlertType DEF EnqueueCommits
      <4>3. [i \in 1 .. n |-> InsertAlert(q[i], TRUE, worker[w].at)] \in [1 .. n -> AlertRow]
        BY <4>2
      <4> QED BY <4>1, <4>3, OutboxGrows
    <3> QED BY <3>1, <3>2
  <2> QED BY <1>2, <2>1, <2>2 DEF EnqueueCommits, TypeOK
<1>3. CASE Claim(w)
  <2>1. worker' \in [Workers -> WorkerState]
    BY <1>3, ClaimType, OneMoves
  <2> QED BY <1>3, <2>1 DEF Claim, TypeOK
<1>4. CASE Mark(w)
  <2>1. worker[w].jobs \in SUBSET Job /\ worker[w].job \in Job /\ worker[w].result \in Result
    BY <1>4, WorkerShape DEF Mark
  <2>2. worker' \in [Workers -> WorkerState]
    BY <1>4, <2>1, AfterMoves DEF Mark
  <2>3. /\ alerts' \in Seq(AlertRow) /\ Len(alerts') = Len(alerts)
        /\ failures' \in [1 .. MaxAlerts -> Nat]
    BY <1>4, <2>1, OutcomeType DEF Mark
  <2> QED BY <1>4, <2>2, <2>3 DEF Mark, TypeOK
<1>5. ASSUME NEW j \in Jobs(w), SuppressAlert(w, j)
      PROVE  TypeInv'
  <2>1. worker' \in [Workers -> WorkerState]
    BY <1>5, JobsType, AfterMoves DEF SuppressAlert
  <2>2. j.id \in DOMAIN alerts => [alerts[j.id] EXCEPT !.status = "sent"] \in AlertRow
    BY RowStatements
  <2>3. alerts' \in Seq(AlertRow) /\ Len(alerts') = Len(alerts)
    BY <1>5, <2>2, UpdateKeeps DEF SuppressAlert
  <2> QED BY <1>5, <2>1, <2>3 DEF SuppressAlert, TypeOK
<1>6. ASSUME NEW j \in Jobs(w), FailUnsent(w, j)
      PROVE  TypeInv'
  <2>1. worker' \in [Workers -> WorkerState]
    BY <1>6, JobsType, AfterMoves DEF FailUnsent
  <2>2. /\ alerts' \in Seq(AlertRow) /\ Len(alerts') = Len(alerts)
        /\ failures' \in [1 .. MaxAlerts -> Nat]
    BY <1>6, FailAlertType DEF FailUnsent
  <2> QED BY <1>6, <2>1, <2>2 DEF FailUnsent, Fault, TypeOK
<1>7. ASSUME NEW j \in Jobs(w), NEW r \in Result, Send(w, j, r)
      PROVE  TypeInv'
  <2>1. Jobs(w) \ {j} \in SUBSET Job /\ j \in Job
    BY JobsType
  <2>2. worker' \in [Workers -> WorkerState]
    <3>1. [pc |-> "mark", jobs |-> Jobs(w) \ {j}, job |-> j, result |-> r] \in WorkerState
      BY <2>1, ShapesAreStates
    <3> QED BY <1>7, <3>1, OneMoves DEF Send
  <2>3. inbox' \in [1 .. MaxAlerts -> Nat] /\ faults' \in Nat
    BY <1>7 DEF Send, Fault, TypeOK
  <2> QED BY <1>7, <2>2, <2>3 DEF Send, TypeOK
<1> QED BY <1>1, <1>2, <1>3, <1>4, <1>5, <1>6, <1>7 DEF WorkerStep

(* A replica interrupted.                                                  *)
LEMMA TypeInterrupted ==
    ASSUME TypeInv, NEW w \in Workers,
           EnqueueFails(w) \/ ClaimFails(w) \/ MarkFails(w) \/ Crash(w)
    PROVE  TypeInv'
<1> USE DEF TypeInv
<1>1. worker' \in [Workers -> WorkerState]
  <2>1. CASE MarkFails(w)
    <3>1. CASE worker[w].pc = "mark" /\ After(w, worker[w].jobs)
      BY <3>1, WorkerShape, AfterMoves
    <3>2. CASE \E j \in Jobs(w) : After(w, Jobs(w) \ {j})
      <4>1. PICK j \in Jobs(w) : After(w, Jobs(w) \ {j})
        BY <3>2
      <4>2. Jobs(w) \ {j} \in SUBSET Job
        BY JobsType
      <4> QED BY <4>1, <4>2, AfterMoves
    <3> QED BY <2>1, <3>1, <3>2 DEF MarkFails
  <2>2. CASE EnqueueFails(w) \/ ClaimFails(w) \/ Crash(w)
    BY <2>2, ShapesAreStates, OneMoves DEF EnqueueFails, ClaimFails, Crash
  <2> QED BY <2>1, <2>2
<1>2. UNCHANGED <<channel, clock, mon, alerts, failures, inbox>> /\ faults' = faults + 1
  BY DEF EnqueueFails, ClaimFails, MarkFails, Crash, Fault
<1> QED BY <1>1, <1>2 DEF TypeOK

LEMMA TypeStep == TypeInv /\ [Next]_vars => TypeInv'
<1> SUFFICES ASSUME TypeInv, [Next]_vars PROVE TypeInv'
  OBVIOUS
<1>1. CASE Tick
  BY <1>1 DEF Tick, TypeInv, TypeOK
<1>2. CASE UNCHANGED vars
  BY <1>2 DEF vars, TypeInv, TypeOK
<1> QED BY <1>1, <1>2, TypeEnvironment, TypeWorker, TypeInterrupted DEF Next

(* Every variable keeps its type, for any number of replicas: the outbox   *)
(* holds rows, the replicas jobs, and no step loses count.                 *)
THEOREM TypeCorrect == Spec => []TypeOK
<1>1. TypeInv => TypeOK
  BY DEF TypeInv
<1> QED BY <1>1, TypeInit, TypeStep, PTL DEF Spec

----------------------------------------------------------------------------
(* One replica.  The claim changes nothing in the rows it returns, so what *)
(* dispatch does with them rests on nobody else resolving a row between    *)
(* the claim and the UPDATE by id.                                         *)

OneReplica == \A v, w \in Workers : v = w

(* The jobs not tried yet, and with them the one being marked.             *)
Unsent(w) == IF worker[w].pc \in {"dispatch", "mark"} THEN worker[w].jobs ELSE {}
Held(w) == IF worker[w].pc = "mark" THEN Unsent(w) \cup {worker[w].job} ELSE Unsent(w)

(* The row of a job is still as the claim saw it, or gone.                 *)
Current(j) ==
    /\ j.id \in DOMAIN alerts
    /\ \/ alerts[j.id].status = "gone"
       \/ alerts[j.id].status = "pending" /\ alerts[j.id].attempts = j.attempts

(* A replica holds current jobs, no row twice.                             *)
ClaimCurrent(w) ==
    /\ \A j \in Held(w) : Current(j)
    /\ \A j, k \in Held(w) : j.id = k.id => j = k
    /\ worker[w].pc = "mark" => worker[w].job \notin worker[w].jobs

ClaimsCurrent == \A w \in Workers : ClaimCurrent(w)

(* The mail server took the message and the row does not say so yet.       *)
Acknowledged(a) ==
    \E w \in Workers :
      worker[w].pc = "mark" /\ worker[w].result = "accepted" /\ worker[w].job.id = a

(* A message that may still be sent has been delivered at most once for    *)
(* every fault; one just acknowledged, at most once more.                  *)
DeliveriesCounted ==
    /\ DuplicatesNeedFaults
    /\ \A a \in DOMAIN alerts :
         alerts[a].status = "pending" /\ ~Acknowledged(a) => inbox[a] =< faults
    /\ \A w \in Workers : \A j \in Unsent(w) : inbox[j.id] =< faults
    /\ \A a \in 1 .. MaxAlerts : a > Len(alerts) => inbox[a] = 0

(* What OutcomeIsVisible needs to be inductive: an acknowledged message is *)
(* in the inbox, and an id not yet in use has no event.                    *)
OutcomesVisible ==
    /\ OutcomeIsVisible
    /\ \A w \in Workers :
         worker[w].pc = "mark" /\ worker[w].result = "accepted" => inbox[worker[w].job.id] >= 1
    /\ \A a \in 1 .. MaxAlerts : a > Len(alerts) => failures[a] = 0

(* The monitors of an enqueue under way have no reminder within a cadence. *)
SnapshotHolds ==
    \A w \in Workers : worker[w].pc = "enqueue" =>
      \A m \in worker[w].remind, a \in DOMAIN alerts :
        alerts[a].reminder /\ alerts[a].monitor = m =>
          alerts[a].created + Cadence[m] =< worker[w].at

(* What a replica holds after a step.                                      *)
LEMMA AfterHolds ==
    ASSUME TypeOK, NEW w \in Workers, NEW jobs \in SUBSET Job, After(w, jobs)
    PROVE  Held(w)' = jobs /\ Unsent(w)' = jobs /\ worker'[w].pc \notin {"mark", "enqueue"}
BY AfterMoves DEF Held, Unsent

LEMMA HoldsNothing ==
    ASSUME TypeOK, NEW w \in Workers, NEW s, worker' = [worker EXCEPT ![w] = s],
           s.pc \in {"idle", "claim", "enqueue"}
    PROVE  Held(w)' = {} /\ Unsent(w)' = {} /\ worker'[w].pc # "mark"
BY OneMoves DEF Held, Unsent

LEMMA HeldType ==
    ASSUME TypeOK, NEW w \in Workers
    PROVE  /\ Held(w) \subseteq Job /\ Unsent(w) \subseteq Held(w)
           /\ Jobs(w) \subseteq Unsent(w)
           /\ worker[w].pc = "dispatch" => Jobs(w) = Held(w)
           /\ worker[w].pc # "dispatch" => Jobs(w) = {}
BY WorkerShape DEF Held, Unsent, Jobs

(* A claim stays current while jobs are worked off and rows only vanish.   *)
LEMMA ClaimKept ==
    ASSUME NEW w \in Workers, ClaimCurrent(w), Held(w)' \subseteq Held(w),
           worker'[w].pc # "mark" \/ worker' = worker,
           \A j \in Held(w)' :
             /\ j.id \in DOMAIN alerts'
             /\ alerts'[j.id] = alerts[j.id] \/ alerts'[j.id].status = "gone"
    PROVE  ClaimCurrent(w)'
<1>1. \A j \in Held(w)' : Current(j)'
  BY DEF ClaimCurrent, Current
<1>2. \A j, k \in Held(w)' : j.id = k.id => j = k
  BY DEF ClaimCurrent
<1>3. worker'[w].pc = "mark" => worker'[w].job \notin worker'[w].jobs
  BY DEF ClaimCurrent
<1> QED BY <1>1, <1>2, <1>3 DEF ClaimCurrent

(* The outcome of a job: SuppressAlert, FailUnsent and Mark each resolve   *)
(* or reschedule the row of one job the replica then no longer holds.      *)
Settles(w, j) ==
    LET a == j.id IN
    /\ j \in Held(w) /\ Held(w)' \subseteq Unsent(w) \ {j} /\ Unsent(w)' = Held(w)'
    /\ worker'[w].pc \notin {"mark", "enqueue"}
    /\ worker[w].pc = "mark" => j = worker[w].job
    /\ Len(alerts') = Len(alerts) /\ DOMAIN alerts' = DOMAIN alerts
    /\ \A b \in DOMAIN alerts : b # a => alerts'[b] = alerts[b]
    /\ \A b \in 1 .. MaxAlerts : b # a => failures'[b] = failures[b]
    /\ inbox' = inbox /\ faults' >= faults
    /\ alerts[a].status = "gone" => alerts'[a] = alerts[a] /\ failures' = failures
    /\ alerts[a].status # "gone" =>
         /\ alerts'[a].monitor = alerts[a].monitor
         /\ alerts'[a].reminder = alerts[a].reminder
         /\ alerts'[a].created = alerts[a].created
         /\ \/ /\ alerts'[a].status = "sent" /\ failures' = failures
               /\ alerts'[a].attempts =< alerts[a].attempts + 1
               /\ \/ alerts'[a].sentAt = alerts[a].sentAt
                  \/ worker[w].pc = "mark" /\ worker[w].result = "accepted"
            \/ /\ alerts'[a].status = alerts[a].status /\ failures' = failures
               /\ alerts'[a].attempts = alerts[a].attempts + 1
               /\ alerts'[a].sentAt = alerts[a].sentAt
               /\ j.attempts + 1 < MaxAttempts
               /\ ~(worker[w].pc = "mark" /\ worker[w].result = "accepted")
            \/ /\ alerts'[a].status = "failed" /\ failures'[a] = failures[a] + 1
               /\ alerts'[a].attempts = alerts[a].attempts + 1
               /\ alerts'[a].sentAt = alerts[a].sentAt

(* The statements on a row, field by field.                                *)
LEMMA RowFields ==
    ASSUME TypeOK, NEW a \in DOMAIN alerts, NEW t
    PROVE  LET same(r) == /\ r.monitor = alerts[a].monitor /\ r.reminder = alerts[a].reminder
                          /\ r.created = alerts[a].created
               suppressed == [alerts[a] EXCEPT !.status = "sent"]
               sent == [Attempted(a) EXCEPT !.status = "sent", !.sentAt = TRUE]
               again == [Attempted(a) EXCEPT !.next = t]
               failed == [Attempted(a) EXCEPT !.status = "failed"]
               n == alerts[a].attempts + 1
           IN  /\ same(suppressed) /\ same(sent) /\ same(again) /\ same(failed)
               /\ suppressed.status = "sent" /\ suppressed.attempts = alerts[a].attempts
               /\ suppressed.sentAt = alerts[a].sentAt
               /\ sent.status = "sent" /\ sent.attempts = n
               /\ again.status = alerts[a].status /\ again.attempts = n
               /\ again.sentAt = alerts[a].sentAt
               /\ failed.status = "failed" /\ failed.attempts = n
               /\ failed.sentAt = alerts[a].sentAt
<1>1. alerts[a] \in AlertRow
  BY OutboxRow
<1>2. /\ Attempted(a) \in AlertRow
      /\ Attempted(a).monitor = alerts[a].monitor /\ Attempted(a).reminder = alerts[a].reminder
      /\ Attempted(a).created = alerts[a].created /\ Attempted(a).status = alerts[a].status
      /\ Attempted(a).sentAt = alerts[a].sentAt
      /\ Attempted(a).attempts = alerts[a].attempts + 1
  BY <1>1 DEF AlertRow, Attempted
<1> QED BY <1>1, <1>2 DEF AlertRow

(* The event of a failed alert.                                            *)
LEMMA FailAlertEvent ==
    ASSUME TypeInv, NEW a \in DOMAIN alerts, FailAlert(a)
    PROVE  /\ alerts[a].status = "gone" => failures' = failures
           /\ alerts[a].status # "gone" => failures'[a] = failures[a] + 1
           /\ \A b \in 1 .. MaxAlerts : b # a => failures'[b] = failures[b]
<1>1. a \in 1 .. MaxAlerts /\ failures \in [1 .. MaxAlerts -> Nat]
  BY OutboxRow, ConstantsAssumption DEF TypeInv, TypeOK
<1>2. CASE alerts[a].status = "gone"
  BY <1>2 DEF FailAlert
<1>3. CASE alerts[a].status # "gone"
  <2>1. failures' = [failures EXCEPT ![a] = @ + 1]
    BY <1>3 DEF FailAlert
  <2> QED BY <1>1, <1>3, <2>1
<1> QED BY <1>2, <1>3

LEMMA SuppressSettles ==
    ASSUME TypeInv, NEW w \in Workers, ClaimCurrent(w), NEW j \in Jobs(w), SuppressAlert(w, j)
    PROVE  Settles(w, j)
<1> DEFINE a == j.id
<1>1. /\ worker[w].pc = "dispatch" /\ j \in Held(w) /\ j \in Job /\ Jobs(w) = Unsent(w)
      /\ Jobs(w) \ {j} \in SUBSET Job
  BY HeldType, JobsType DEF TypeInv, Jobs, Unsent
<1>2. /\ Held(w)' = Jobs(w) \ {j} /\ Unsent(w)' = Jobs(w) \ {j}
      /\ worker'[w].pc \notin {"mark", "enqueue"}
  BY <1>1, AfterHolds DEF TypeInv, SuppressAlert
<1>3. a \in DOMAIN alerts
  BY <1>1 DEF ClaimCurrent, Current
<1>4. [alerts[a] EXCEPT !.status = "sent"] \in AlertRow
  BY <1>3, RowStatements DEF TypeInv
<1>5. /\ DOMAIN alerts' = DOMAIN alerts /\ Len(alerts') = Len(alerts)
      /\ \A b \in DOMAIN alerts : b # a => alerts'[b] = alerts[b]
      /\ alerts'[a] = IF alerts[a].status = "gone" THEN alerts[a]
                      ELSE [alerts[a] EXCEPT !.status = "sent"]
  BY <1>3, <1>4, UpdateKeeps DEF TypeInv, SuppressAlert
<1>6. failures' = failures /\ inbox' = inbox /\ faults' = faults /\ faults \in Nat
  BY DEF SuppressAlert, TypeInv, TypeOK
<1>7. alerts[a].attempts \in Nat
  BY <1>3, OutboxRow DEF TypeInv, AlertRow
<1> HIDE DEF a
<1>8. alerts[a].status # "gone" =>
        /\ alerts'[a].monitor = alerts[a].monitor /\ alerts'[a].reminder = alerts[a].reminder
        /\ alerts'[a].created = alerts[a].created /\ alerts'[a].status = "sent"
        /\ alerts'[a].attempts =< alerts[a].attempts + 1
        /\ alerts'[a].sentAt = alerts[a].sentAt
  BY <1>3, <1>5, <1>7, RowFields DEF TypeInv
<1> QED BY <1>1, <1>2, <1>5, <1>6, <1>8 DEF Settles, a

LEMMA FailSettles ==
    ASSUME TypeInv, NEW w \in Workers, ClaimCurrent(w), NEW j \in Jobs(w), FailUnsent(w, j)
    PROVE  Settles(w, j)
<1> DEFINE a == j.id
<1>1. /\ worker[w].pc = "dispatch" /\ j \in Held(w) /\ j \in Job /\ Jobs(w) = Unsent(w)
      /\ Jobs(w) \ {j} \in SUBSET Job
  BY HeldType, JobsType DEF TypeInv, Jobs, Unsent
<1>2. /\ Held(w)' = Jobs(w) \ {j} /\ Unsent(w)' = Jobs(w) \ {j}
      /\ worker'[w].pc \notin {"mark", "enqueue"}
  BY <1>1, AfterHolds DEF TypeInv, FailUnsent
<1>3. a \in DOMAIN alerts
  BY <1>1 DEF ClaimCurrent, Current
<1>4. [Attempted(a) EXCEPT !.status = "failed"] \in AlertRow
  BY <1>3, RowStatements DEF TypeInv
<1>5. /\ DOMAIN alerts' = DOMAIN alerts /\ Len(alerts') = Len(alerts)
      /\ \A b \in DOMAIN alerts : b # a => alerts'[b] = alerts[b]
      /\ alerts'[a] = IF alerts[a].status = "gone" THEN alerts[a]
                      ELSE [Attempted(a) EXCEPT !.status = "failed"]
  BY <1>3, <1>4, UpdateKeeps DEF TypeInv, FailUnsent, FailAlert
<1>6. inbox' = inbox /\ faults' >= faults
  BY DEF FailUnsent, Fault, TypeInv, TypeOK
<1>7. /\ alerts[a].status = "gone" => failures' = failures
      /\ alerts[a].status # "gone" => failures'[a] = failures[a] + 1
      /\ \A b \in 1 .. MaxAlerts : b # a => failures'[b] = failures[b]
  BY <1>3, FailAlertEvent DEF FailUnsent
<1> HIDE DEF a
<1>8. alerts[a].status # "gone" =>
        /\ alerts'[a].monitor = alerts[a].monitor /\ alerts'[a].reminder = alerts[a].reminder
        /\ alerts'[a].created = alerts[a].created /\ alerts'[a].status = "failed"
        /\ alerts'[a].attempts = alerts[a].attempts + 1
        /\ alerts'[a].sentAt = alerts[a].sentAt
  BY <1>3, <1>5, RowFields DEF TypeInv
<1> QED BY <1>1, <1>2, <1>5, <1>6, <1>7, <1>8 DEF Settles, a

LEMMA MarkSettles ==
    ASSUME TypeInv, NEW w \in Workers, ClaimCurrent(w), Mark(w)
    PROVE  Settles(w, worker[w].job)
<1> DEFINE j == worker[w].job
           a == j.id
<1>1. /\ worker[w].pc = "mark" /\ j \in Held(w) /\ j \in Job /\ Unsent(w) = worker[w].jobs
      /\ worker[w].jobs \in SUBSET Job /\ worker[w].result \in Result
      /\ j \notin worker[w].jobs
  BY WorkerShape DEF Mark, Held, Unsent, TypeInv, ClaimCurrent
<1>2. /\ Held(w)' = worker[w].jobs /\ Unsent(w)' = worker[w].jobs
      /\ worker'[w].pc \notin {"mark", "enqueue"}
  BY <1>1, AfterHolds DEF TypeInv, Mark
<1>3. a \in DOMAIN alerts
  BY <1>1 DEF ClaimCurrent, Current
<1>4. inbox' = inbox /\ faults' = faults /\ faults' >= faults
  BY DEF Mark, TypeInv, TypeOK
<1>5. alerts[a].attempts \in Nat
  BY <1>3, OutboxRow DEF TypeInv, AlertRow
<1>6. CASE worker[w].result = "accepted" /\ MarkAlertSent(a)
  <2> DEFINE row == [Attempted(a) EXCEPT !.status = "sent", !.sentAt = TRUE]
  <2>1. row \in AlertRow
    BY <1>3, RowStatements DEF TypeInv
  <2>2. Update(a, row) /\ failures' = failures
    BY <1>6 DEF MarkAlertSent
  <2>3. /\ row.monitor = alerts[a].monitor /\ row.reminder = alerts[a].reminder
        /\ row.created = alerts[a].created /\ row.status = "sent"
        /\ row.attempts = alerts[a].attempts + 1
    BY <1>3, RowFields DEF TypeInv
  <2> HIDE DEF row
  <2>4. /\ DOMAIN alerts' = DOMAIN alerts /\ Len(alerts') = Len(alerts)
        /\ \A b \in DOMAIN alerts : b # a => alerts'[b] = alerts[b]
        /\ alerts'[a] = IF alerts[a].status = "gone" THEN alerts[a] ELSE row
    BY <1>3, <2>1, <2>2, UpdateKeeps DEF TypeInv
  <2> HIDE DEF a, j
  <2> QED BY <1>1, <1>2, <1>4, <1>5, <1>6, <2>2, <2>3, <2>4, SMTT(30) DEF Settles, a, j
<1>7. CASE /\ worker[w].result = "retryable" /\ j.attempts + 1 < MaxAttempts
           /\ RescheduleAlert(a, clock + Backoff[j.attempts])
  <2> DEFINE row == [Attempted(a) EXCEPT !.next = clock + Backoff[j.attempts]]
  <2>1. clock + Backoff[j.attempts] \in Nat
    BY <1>1, <1>7, ConstantsAssumption DEF TypeInv, TypeOK, Job
  <2>2. row \in AlertRow
    BY <1>3, <2>1, RowStatements DEF TypeInv
  <2>3. Update(a, row) /\ failures' = failures
    BY <1>7 DEF RescheduleAlert
  <2>4. /\ row.monitor = alerts[a].monitor /\ row.reminder = alerts[a].reminder
        /\ row.created = alerts[a].created /\ row.status = alerts[a].status
        /\ row.attempts = alerts[a].attempts + 1 /\ row.sentAt = alerts[a].sentAt
    BY <1>3, RowFields DEF TypeInv
  <2> HIDE DEF row
  <2>5. /\ DOMAIN alerts' = DOMAIN alerts /\ Len(alerts') = Len(alerts)
        /\ \A b \in DOMAIN alerts : b # a => alerts'[b] = alerts[b]
        /\ alerts'[a] = IF alerts[a].status = "gone" THEN alerts[a] ELSE row
    BY <1>3, <2>2, <2>3, UpdateKeeps DEF TypeInv
  <2> QED BY <1>1, <1>2, <1>4, <1>7, <2>3, <2>4, <2>5 DEF Settles
<1>8. CASE FailAlert(a)
  <2> DEFINE row == [Attempted(a) EXCEPT !.status = "failed"]
  <2>1. row \in AlertRow
    BY <1>3, RowStatements DEF TypeInv
  <2>2. /\ Update(a, row)
        /\ alerts[a].status = "gone" => failures' = failures
        /\ alerts[a].status # "gone" => failures'[a] = failures[a] + 1
        /\ \A b \in 1 .. MaxAlerts : b # a => failures'[b] = failures[b]
    BY <1>3, <1>8, FailAlertEvent DEF FailAlert
  <2>3. /\ row.monitor = alerts[a].monitor /\ row.reminder = alerts[a].reminder
        /\ row.created = alerts[a].created /\ row.status = "failed"
        /\ row.attempts = alerts[a].attempts + 1 /\ row.sentAt = alerts[a].sentAt
    BY <1>3, RowFields DEF TypeInv
  <2> HIDE DEF row
  <2>4. /\ DOMAIN alerts' = DOMAIN alerts /\ Len(alerts') = Len(alerts)
        /\ \A b \in DOMAIN alerts : b # a => alerts'[b] = alerts[b]
        /\ alerts'[a] = IF alerts[a].status = "gone" THEN alerts[a] ELSE row
    BY <1>3, <2>1, <2>2, UpdateKeeps DEF TypeInv
  <2> QED BY <1>1, <1>2, <1>4, <2>2, <2>3, <2>4 DEF Settles
<1> QED BY <1>6, <1>7, <1>8 DEF Mark, RecordOutcome

(* The table between two steps of dispatch: rows are added, pending and    *)
(* not tried, and rows vanish together with their events.                  *)
Untried(row) == row.status = "pending" /\ row.attempts = 0 /\ ~row.sentAt

Vanished(row) == row.status = "gone" /\ row.attempts = 0 /\ ~row.sentAt /\ ~row.reminder

RowsComeAndGo ==
    /\ DOMAIN alerts \subseteq DOMAIN alerts' /\ Len(alerts') >= Len(alerts)
    /\ \A a \in DOMAIN alerts :
         \/ alerts'[a] = alerts[a] /\ failures'[a] = failures[a]
         \/ Vanished(alerts'[a]) /\ failures'[a] = 0
    /\ \A a \in DOMAIN alerts' \ DOMAIN alerts : Untried(alerts'[a])
    /\ \A a \in 1 .. MaxAlerts : a \notin DOMAIN alerts => failures'[a] = failures[a]

(* The environment touches the table in no other way and adds no reminder. *)
Environment ==
    /\ RowsComeAndGo
    /\ \A a \in DOMAIN alerts' \ DOMAIN alerts : ~alerts'[a].reminder
    /\ UNCHANGED <<worker, inbox, faults>>

LEMMA EnvironmentSteps ==
    ASSUME TypeInv,
           \/ Tick \/ UNCHANGED vars
           \/ \E m \in Monitors : \/ Transition(m) \/ DeleteMonitor(m)
                                  \/ MuteMonitor(m) \/ UnmuteMonitor(m)
    PROVE  Environment
<1>1. CASE UNCHANGED <<alerts, failures, inbox, worker, faults>>
  BY <1>1, OutboxRow DEF Environment, RowsComeAndGo, TypeInv
<1>2. ASSUME NEW m \in Monitors, Transition(m)
      PROVE  Environment
  <2> DEFINE row == InsertAlert(m, FALSE, clock)
  <2>1. row \in AlertRow /\ alerts' = Append(alerts, row)
    BY <1>2, InsertAlertType DEF Transition, TypeInv, TypeOK
  <2>2. Untried(row) /\ ~row.reminder
    BY DEF InsertAlert, Untried
  <2> HIDE DEF row
  <2>3. /\ DOMAIN alerts' = 1 .. (Len(alerts) + 1) /\ Len(alerts') = Len(alerts) + 1
        /\ \A a \in DOMAIN alerts : alerts'[a] = alerts[a]
        /\ alerts'[Len(alerts) + 1] = row
    BY <2>1, OutboxGrowsByOne DEF TypeInv
  <2>4. DOMAIN alerts = 1 .. Len(alerts) /\ Len(alerts) \in Nat
    BY OutboxRow DEF TypeInv
  <2>5. \A a \in DOMAIN alerts' \ DOMAIN alerts : a = Len(alerts) + 1
    BY <2>3, <2>4
  <2>6. UNCHANGED <<worker, inbox, faults, failures>>
    BY <1>2 DEF Transition
  <2>7. DOMAIN alerts \subseteq DOMAIN alerts' /\ Len(alerts') >= Len(alerts)
    BY <2>3, <2>4
  <2> QED BY <2>2, <2>3, <2>5, <2>6, <2>7 DEF Environment, RowsComeAndGo
<1>3. ASSUME NEW m \in Monitors, DeleteMonitor(m)
      PROVE  Environment
  <2> DEFINE row == [InsertAlert(m, FALSE, 0) EXCEPT !.status = "gone"]
  <2>1. Vanished(row)
    BY DEF InsertAlert, Vanished
  <2>2. /\ DOMAIN alerts' = DOMAIN alerts
        /\ \A a \in DOMAIN alerts :
             alerts'[a] = IF alerts[a].monitor = m THEN row ELSE alerts[a]
    BY <1>3 DEF DeleteMonitor, Cascade
  <2> HIDE DEF row
  <2>3. Len(alerts') = Len(alerts) /\ Len(alerts) \in Nat
    BY <1>3, TypeEnvironment, OutboxRow, <2>2 DEF TypeInv, TypeOK
  <2>4. DOMAIN alerts \subseteq 1 .. MaxAlerts
    BY OutboxRow, ConstantsAssumption DEF TypeInv
  <2>5. \A a \in 1 .. MaxAlerts :
          failures'[a] = IF a \in DOMAIN alerts /\ alerts[a].monitor = m THEN 0 ELSE failures[a]
    BY <1>3 DEF DeleteMonitor
  <2>6. UNCHANGED <<worker, inbox, faults>>
    BY <1>3 DEF DeleteMonitor
  <2> QED BY <2>1, <2>2, <2>3, <2>4, <2>5, <2>6 DEF Environment, RowsComeAndGo
<1> QED BY <1>1, <1>2, <1>3 DEF Tick, vars, MuteMonitor, UnmuteMonitor

(* The enqueue adds its reminders and lets the replica go on to the claim. *)
LEMMA EnqueueSteps ==
    ASSUME TypeInv, NEW w \in Workers, EnqueueCommits(w)
    PROVE  /\ RowsComeAndGo /\ UNCHANGED <<inbox, faults, failures>>
           /\ Held(w)' = {} /\ Unsent(w)' = {} /\ worker'[w].pc = "claim"
           /\ worker[w].pc = "enqueue"
           /\ \A a \in DOMAIN alerts : alerts'[a] = alerts[a]
           /\ \A a \in DOMAIN alerts' \ DOMAIN alerts :
                /\ alerts'[a].monitor \in worker[w].remind
                /\ alerts'[a].created = worker[w].at
                /\ \A b \in DOMAIN alerts' \ DOMAIN alerts :
                     alerts'[a].monitor = alerts'[b].monitor => a = b
<1>1. /\ worker[w].pc = "enqueue" /\ UNCHANGED <<inbox, faults, failures>>
      /\ worker' = [worker EXCEPT ![w] = [pc |-> "claim"]]
  BY DEF EnqueueCommits
<1>2. Held(w)' = {} /\ Unsent(w)' = {} /\ worker'[w].pc = "claim"
  <2> DEFINE s == [pc |-> "claim"]
  <2>1. worker' = [worker EXCEPT ![w] = s] /\ s.pc = "claim"
    BY <1>1
  <2> HIDE DEF s
  <2> QED BY <2>1, HoldsNothing, OneMoves DEF TypeInv
<1>3. DOMAIN alerts = 1 .. Len(alerts) /\ Len(alerts) \in Nat
  BY OutboxRow DEF TypeInv
<1>4. CASE alerts' = alerts
  BY <1>1, <1>2, <1>3, <1>4 DEF RowsComeAndGo
<1>5. CASE alerts' # alerts
  <2>1. PICK n \in Nat, q \in Seq(Monitors) :
          /\ Len(alerts) + n =< MaxAlerts
          /\ q \in [1 .. n -> worker[w].remind]
          /\ \A i, k \in 1 .. n : q[i] = q[k] => i = k
          /\ alerts' = alerts \o [i \in 1 .. n |-> InsertAlert(q[i], TRUE, worker[w].at)]
    BY <1>5, Reminders DEF TypeInv
  <2> DEFINE new == [i \in 1 .. n |-> InsertAlert(q[i], TRUE, worker[w].at)]
  <2>2. new \in [1 .. n -> AlertRow]
    BY <1>1, <2>1, WorkerShape, InsertAlertType DEF TypeInv
  <2>3. \A i \in 1 .. n : Untried(new[i]) /\ new[i].monitor = q[i] /\ new[i].created = worker[w].at
    BY DEF InsertAlert, Untried
  <2>4. alerts' = alerts \o new
    BY <2>1
  <2> HIDE DEF new
  <2>5. /\ DOMAIN alerts' = 1 .. (Len(alerts) + n) /\ Len(alerts') = Len(alerts) + n
        /\ \A a \in DOMAIN alerts : alerts'[a] = alerts[a]
        /\ \A i \in 1 .. n : alerts'[Len(alerts) + i] = new[i]
    BY <2>2, <2>4, OutboxGrows DEF TypeInv
  <2>6. \A a \in DOMAIN alerts' \ DOMAIN alerts :
          a - Len(alerts) \in 1 .. n /\ alerts'[a] = new[a - Len(alerts)]
    <3> SUFFICES ASSUME NEW a \in DOMAIN alerts' \ DOMAIN alerts
                 PROVE  a - Len(alerts) \in 1 .. n /\ alerts'[a] = new[a - Len(alerts)]
      OBVIOUS
    <3>1. a - Len(alerts) \in 1 .. n /\ Len(alerts) + (a - Len(alerts)) = a
      BY <1>3, <2>5
    <3> QED BY <3>1, <2>5
  <2>7. \A a \in DOMAIN alerts' \ DOMAIN alerts :
          /\ Untried(alerts'[a]) /\ alerts'[a].created = worker[w].at
          /\ alerts'[a].monitor = q[a - Len(alerts)]
          /\ alerts'[a].monitor \in worker[w].remind
    <3> SUFFICES ASSUME NEW a \in DOMAIN alerts' \ DOMAIN alerts
                 PROVE  /\ Untried(alerts'[a]) /\ alerts'[a].created = worker[w].at
                        /\ alerts'[a].monitor = q[a - Len(alerts)]
                        /\ alerts'[a].monitor \in worker[w].remind
      OBVIOUS
    <3> DEFINE i == a - Len(alerts)
    <3>1. i \in 1 .. n /\ alerts'[a] = new[i]
      BY <2>6
    <3> HIDE DEF i
    <3>2. Untried(new[i]) /\ new[i].monitor = q[i] /\ new[i].created = worker[w].at
      BY <2>3, <3>1
    <3>3. q[i] \in worker[w].remind
      BY <2>1, <3>1
    <3> QED BY <3>1, <3>2, <3>3 DEF i
  <2>8. \A a, b \in DOMAIN alerts' \ DOMAIN alerts :
          alerts'[a].monitor = alerts'[b].monitor => a = b
    <3> SUFFICES ASSUME NEW a \in DOMAIN alerts' \ DOMAIN alerts,
                        NEW b \in DOMAIN alerts' \ DOMAIN alerts,
                        alerts'[a].monitor = alerts'[b].monitor
                 PROVE  a = b
      OBVIOUS
    <3> DEFINE i == a - Len(alerts)
               k == b - Len(alerts)
    <3>1. i = k
      <4>1. i \in 1 .. n /\ k \in 1 .. n /\ q[i] = q[k]
        BY <2>6, <2>7
      <4> HIDE DEF i, k
      <4> QED BY <4>1, <2>1
    <3>2. a \in Nat /\ b \in Nat
      BY <2>5, <1>3
    <3> QED BY <3>1, <3>2, <1>3
  <2>9. DOMAIN alerts \subseteq DOMAIN alerts' /\ Len(alerts') >= Len(alerts)
    BY <2>5, <1>3
  <2> QED BY <1>1, <1>2, <2>5, <2>7, <2>8, <2>9 DEF RowsComeAndGo
<1> QED BY <1>4, <1>5

Interrupted(w) == EnqueueFails(w) \/ ClaimFails(w) \/ MarkFails(w) \/ Crash(w)

(* A replica interrupted forgets some of its jobs, at the price of a fault. *)
LEMMA InterruptedSteps ==
    ASSUME TypeInv, NEW w \in Workers,
           Interrupted(w)
    PROVE  /\ UNCHANGED <<alerts, failures, inbox>> /\ faults' = faults + 1
           /\ Held(w)' \subseteq Unsent(w) /\ Unsent(w)' = Held(w)'
           /\ worker'[w].pc \notin {"mark", "enqueue"}
<1> USE DEF Interrupted
<1>1. UNCHANGED <<alerts, failures, inbox>> /\ faults' = faults + 1
  BY DEF EnqueueFails, ClaimFails, MarkFails, Crash, Fault
<1>2. CASE EnqueueFails(w) \/ ClaimFails(w) \/ Crash(w)
  <2>1. PICK s \in {Idle, [pc |-> "claim"]} : worker' = [worker EXCEPT ![w] = s]
    BY <1>2 DEF EnqueueFails, ClaimFails, Crash
  <2>2. s.pc \in {"idle", "claim"}
    BY DEF Idle
  <2> QED BY <1>1, <2>1, <2>2, HoldsNothing, OneMoves DEF TypeInv
<1>3. CASE worker[w].pc = "mark" /\ After(w, worker[w].jobs)
  <2>1. worker[w].jobs \in SUBSET Job /\ Unsent(w) = worker[w].jobs
    BY <1>3, WorkerShape DEF TypeInv, Unsent
  <2> QED BY <1>1, <1>3, <2>1, AfterHolds DEF TypeInv
<1>4. ASSUME NEW j \in Jobs(w), After(w, Jobs(w) \ {j})
      PROVE  /\ Held(w)' \subseteq Unsent(w) /\ Unsent(w)' = Held(w)'
             /\ worker'[w].pc \notin {"mark", "enqueue"}
  <2>1. Jobs(w) \ {j} \in SUBSET Job /\ Jobs(w) \subseteq Unsent(w)
    BY HeldType, JobsType DEF TypeInv
  <2> QED BY <1>4, <2>1, AfterHolds DEF TypeInv
<1> QED BY <1>1, <1>2, <1>3, <1>4 DEF MarkFails

(* The snapshot of an enqueue.                                             *)
LEMMA SnapshotSteps ==
    ASSUME TypeInv, NEW w \in Workers, EnqueueReads(w)
    PROVE  /\ UNCHANGED <<alerts, failures, inbox, faults>> /\ worker[w].pc = "idle"
           /\ Held(w)' = {} /\ Unsent(w)' = {} /\ worker'[w].pc # "mark"
           /\ worker'[w].pc = "enqueue" =>
                /\ worker'[w].at = clock
                /\ \A m \in worker'[w].remind : m \in Monitors /\ ReminderDue(m)
<1> DEFINE due == {m \in Monitors : ReminderDue(m)}
           s == IF due = {} THEN [pc |-> "claim"]
                ELSE [pc |-> "enqueue", remind |-> due, at |-> clock]
<1>1. worker' = [worker EXCEPT ![w] = s]
  BY DEF EnqueueReads
<1>2. /\ s.pc \in {"idle", "claim", "enqueue"}
      /\ s.pc = "enqueue" => s.at = clock /\ s.remind = due
  OBVIOUS
<1> HIDE DEF s
<1>3. Held(w)' = {} /\ Unsent(w)' = {} /\ worker'[w].pc # "mark" /\ worker'[w] = s
  BY <1>1, <1>2, HoldsNothing, OneMoves DEF TypeInv
<1> QED BY <1>2, <1>3 DEF EnqueueReads, Idle

(* A claim takes pending rows as they are.                                 *)
LEMMA ClaimSteps ==
    ASSUME TypeInv, NEW w \in Workers, Claim(w)
    PROVE  /\ UNCHANGED <<alerts, failures, inbox, faults>> /\ worker[w].pc = "claim"
           /\ worker'[w].pc \notin {"mark", "enqueue"} /\ Unsent(w)' = Held(w)'
           /\ \A j \in Held(w)' :
                /\ j.id \in DOMAIN alerts /\ alerts[j.id].status = "pending"
                /\ j = [id |-> j.id, muted |-> mon[alerts[j.id].monitor].muted,
                        attempts |-> alerts[j.id].attempts, next |-> alerts[j.id].next]
<1>1. UNCHANGED <<alerts, failures, inbox, faults>> /\ worker[w].pc = "claim"
  BY DEF Claim
<1> DEFINE job(a) == [id |-> a, muted |-> mon[alerts[a].monitor].muted,
                      attempts |-> alerts[a].attempts, next |-> alerts[a].next]
<1>2. PICK rows \in SUBSET DueRows, s \in WorkerState :
        /\ worker' = [worker EXCEPT ![w] = s]
        /\ \/ s = Idle
           \/ s.pc = "dispatch" /\ s.jobs = {job(a) : a \in rows}
  BY ClaimType DEF TypeInv
<1>3. worker'[w] = s
  BY <1>2, OneMoves DEF TypeInv
<1>4. /\ worker'[w].pc \notin {"mark", "enqueue"} /\ Unsent(w)' = Held(w)'
      /\ Held(w)' \subseteq {job(a) : a \in rows}
  BY <1>2, <1>3 DEF Idle, Held, Unsent
<1>5. ASSUME NEW j \in Held(w)'
      PROVE  j.id \in DOMAIN alerts /\ alerts[j.id].status = "pending" /\ j = job(j.id)
  <2>1. PICK a \in rows : j = job(a)
    BY <1>4
  <2>2. j.id = a
    BY <2>1
  <2> QED BY <2>1, <2>2 DEF DueRows
<1> QED BY <1>1, <1>4, <1>5

(* Send leaves the job to be marked; without an error from the server the  *)
(* message is in the inbox, and with one it is there only by a fault.      *)
LEMMA SendSteps ==
    ASSUME TypeInv, NEW w \in Workers, NEW j \in Jobs(w), NEW r \in Result, Send(w, j, r)
    PROVE  /\ UNCHANGED <<alerts, failures>> /\ worker[w].pc = "dispatch"
           /\ worker'[w].pc = "mark" /\ worker'[w].job = j /\ worker'[w].result = r
           /\ worker'[w].jobs = Jobs(w) \ {j}
           /\ Held(w)' = Held(w) /\ Unsent(w)' = Unsent(w) \ {j} /\ Unsent(w) = Jobs(w)
           /\ \/ r = "accepted" /\ inbox' = [inbox EXCEPT ![j.id] = @ + 1] /\ faults' = faults
              \/ r # "accepted" /\ inbox' = inbox /\ faults' = faults
              \/ /\ r # "accepted" /\ inbox' = [inbox EXCEPT ![j.id] = @ + 1]
                 /\ faults' = faults + 1
<1>1. UNCHANGED <<alerts, failures>> /\ worker[w].pc = "dispatch" /\ Jobs(w) = Held(w)
  BY HeldType DEF Send, TypeInv, Jobs
<1>2. /\ worker'[w].pc = "mark" /\ worker'[w].job = j /\ worker'[w].result = r
      /\ worker'[w].jobs = Jobs(w) \ {j}
  <2> DEFINE s == [pc |-> "mark", jobs |-> Jobs(w) \ {j}, job |-> j, result |-> r]
  <2>1. worker' = [worker EXCEPT ![w] = s]
    BY DEF Send
  <2>2. s.pc = "mark" /\ s.job = j /\ s.result = r /\ s.jobs = Jobs(w) \ {j}
    OBVIOUS
  <2> HIDE DEF s
  <2> QED BY <2>1, <2>2, OneMoves DEF TypeInv
<1>3. Held(w)' = Held(w) /\ Unsent(w)' = Unsent(w) \ {j} /\ Unsent(w) = Jobs(w)
  BY <1>1, <1>2 DEF Held, Unsent, Jobs
<1>4. \/ r = "accepted" /\ inbox' = [inbox EXCEPT ![j.id] = @ + 1] /\ faults' = faults
      \/ r # "accepted" /\ inbox' = inbox /\ faults' = faults
      \/ /\ r # "accepted" /\ inbox' = [inbox EXCEPT ![j.id] = @ + 1]
         /\ faults' = faults + 1
  BY DEF Send, Fault
<1> QED BY <1>1, <1>2, <1>3, <1>4

(* Every step is one of these.                                             *)
LEMMA StepCases ==
    ASSUME TypeInv, ClaimsCurrent, [Next]_vars
    PROVE  \/ Environment
           \/ \E w \in Workers :
                \/ EnqueueReads(w) \/ EnqueueCommits(w) \/ Claim(w) \/ Interrupted(w)
                \/ \E j \in Held(w) : Settles(w, j)
                \/ \E j \in Jobs(w), r \in Result : Send(w, j, r)
<1>1. ASSUME NEW w \in Workers, Mark(w)
      PROVE  \E j \in Held(w) : Settles(w, j)
  BY <1>1, MarkSettles DEF ClaimsCurrent, Settles
<1>2. ASSUME NEW w \in Workers, NEW j \in Jobs(w), SuppressAlert(w, j) \/ FailUnsent(w, j)
      PROVE  \E k \in Held(w) : Settles(w, k)
  BY <1>2, SuppressSettles, FailSettles DEF ClaimsCurrent, Settles
<1>3. ASSUME NEW w \in Workers, WorkerStep(w)
      PROVE  \/ EnqueueReads(w) \/ EnqueueCommits(w) \/ Claim(w)
             \/ \E j \in Held(w) : Settles(w, j)
             \/ \E j \in Jobs(w), r \in Result : Send(w, j, r)
  BY <1>1, <1>2, <1>3 DEF WorkerStep
<1> QED BY <1>3, EnvironmentSteps DEF Next, Interrupted

----------------------------------------------------------------------------
(* A claim stays current.                                                  *)

LEMMA ClaimsInit == Init => ClaimsCurrent
BY DEF Init, StartUp, Idle, ClaimsCurrent, ClaimCurrent, Held, Unsent

LEMMA ClaimsStep ==
    ASSUME OneReplica, TypeInv, ClaimsCurrent, [Next]_vars
    PROVE  ClaimsCurrent'
<1>1. CASE Environment
  <2> SUFFICES ASSUME NEW w \in Workers PROVE ClaimCurrent(w)'
    BY DEF ClaimsCurrent
  <2>1. Held(w)' = Held(w) /\ worker' = worker
    BY <1>1 DEF Environment, Held, Unsent
  <2>2. \A j \in Held(w)' :
          /\ j.id \in DOMAIN alerts'
          /\ alerts'[j.id] = alerts[j.id] \/ alerts'[j.id].status = "gone"
    BY <1>1, <2>1 DEF Environment, RowsComeAndGo, Vanished, ClaimsCurrent, ClaimCurrent, Current
  <2> QED BY <2>1, <2>2, ClaimKept DEF ClaimsCurrent
<1>2. ASSUME NEW w \in Workers,
             \/ EnqueueReads(w) \/ EnqueueCommits(w) \/ Claim(w) \/ Interrupted(w)
             \/ \E j \in Held(w) : Settles(w, j)
             \/ \E j \in Jobs(w), r \in Result : Send(w, j, r)
      PROVE  ClaimsCurrent'
  <2>1. SUFFICES ClaimCurrent(w)'
    BY DEF ClaimsCurrent, OneReplica
  <2>2. ClaimCurrent(w)
    BY DEF ClaimsCurrent
  <2>3. CASE EnqueueReads(w) \/ EnqueueCommits(w)
    <3>1. Held(w)' = {} /\ worker'[w].pc # "mark"
      BY <2>3, SnapshotSteps, EnqueueSteps
    <3> QED BY <2>2, <3>1, ClaimKept
  <2>4. CASE Claim(w)
    <3>1. /\ alerts' = alerts /\ worker'[w].pc # "mark"
          /\ \A j \in Held(w)' :
               /\ j.id \in DOMAIN alerts /\ alerts[j.id].status = "pending"
               /\ j = [id |-> j.id, muted |-> mon[alerts[j.id].monitor].muted,
                       attempts |-> alerts[j.id].attempts, next |-> alerts[j.id].next]
      BY <2>4, ClaimSteps
    <3>2. \A j \in Held(w)' : Current(j)'
      BY <3>1 DEF Current
    <3>3. \A j, k \in Held(w)' : j.id = k.id => j = k
      BY <3>1
    <3> QED BY <3>1, <3>2, <3>3 DEF ClaimCurrent
  <2>5. CASE Interrupted(w)
    <3>1. /\ alerts' = alerts /\ worker'[w].pc # "mark" /\ Held(w)' \subseteq Held(w)
      BY <2>5, InterruptedSteps, HeldType DEF TypeInv
    <3> QED BY <2>2, <3>1, ClaimKept DEF ClaimCurrent, Current
  <2>6. ASSUME NEW j \in Held(w), Settles(w, j)
        PROVE  ClaimCurrent(w)'
    <3>1. /\ worker'[w].pc # "mark" /\ Held(w)' \subseteq Held(w) /\ j \notin Held(w)'
          /\ DOMAIN alerts' = DOMAIN alerts
          /\ \A b \in DOMAIN alerts : b # j.id => alerts'[b] = alerts[b]
      BY <2>6, HeldType DEF Settles, TypeInv
    <3>2. \A k \in Held(w)' : k.id \in DOMAIN alerts' /\ alerts'[k.id] = alerts[k.id]
      BY <2>2, <2>6, <3>1 DEF ClaimCurrent, Current
    <3> QED BY <2>2, <3>1, <3>2, ClaimKept
  <2>7. ASSUME NEW j \in Jobs(w), NEW r \in Result, Send(w, j, r)
        PROVE  ClaimCurrent(w)'
    <3>1. /\ alerts' = alerts /\ Held(w)' = Held(w)
          /\ worker'[w].job = j /\ worker'[w].jobs = Jobs(w) \ {j}
      BY <2>7, SendSteps
    <3>2. \A k \in Held(w)' : Current(k)'
      BY <2>2, <3>1 DEF ClaimCurrent, Current
    <3> QED BY <2>2, <3>1, <3>2 DEF ClaimCurrent
  <2> QED BY <1>2, <2>3, <2>4, <2>5, <2>6, <2>7
<1> QED BY <1>1, <1>2, StepCases

ClaimInv == TypeInv /\ ClaimsCurrent

LEMMA ClaimInvHolds ==
    ASSUME OneReplica
    PROVE  Spec => []ClaimInv
<1>1. Init => ClaimInv
  BY TypeInit, ClaimsInit DEF ClaimInv
<1>2. ClaimInv /\ [Next]_vars => ClaimInv'
  BY TypeStep, ClaimsStep DEF ClaimInv
<1> QED BY <1>1, <1>2, PTL DEF Spec

(* Of the rows that were there, a step changes only the one it settles,    *)
(* which was pending: the others stay or vanish.                           *)
LEMMA RowsSettle ==
    ASSUME OneReplica, ClaimInv, [Next]_vars
    PROVE  /\ DOMAIN alerts \subseteq DOMAIN alerts'
           /\ \A a \in DOMAIN alerts :
                \/ alerts'[a] = alerts[a]
                \/ Vanished(alerts'[a])
                \/ /\ alerts[a].status = "pending"
                   /\ \E w \in Workers : \E j \in Held(w) : Settles(w, j) /\ j.id = a
           /\ \A a \in DOMAIN alerts' \ DOMAIN alerts : Untried(alerts'[a])
<1> USE DEF ClaimInv
<1>1. CASE Environment
  BY <1>1 DEF Environment, RowsComeAndGo
<1>2. ASSUME NEW w \in Workers, EnqueueCommits(w) PROVE RowsComeAndGo
  BY <1>2, EnqueueSteps
<1>3. ASSUME NEW w \in Workers, EnqueueReads(w) \/ Claim(w) \/ Interrupted(w)
      PROVE  alerts' = alerts
  BY <1>3, SnapshotSteps, ClaimSteps, InterruptedSteps
<1>4. ASSUME NEW w \in Workers, NEW j \in Jobs(w), NEW r \in Result, Send(w, j, r)
      PROVE  alerts' = alerts
  BY <1>4, SendSteps
<1>5. ASSUME NEW w \in Workers, NEW j \in Held(w), Settles(w, j)
      PROVE  /\ DOMAIN alerts' = DOMAIN alerts
             /\ \A a \in DOMAIN alerts :
                  alerts'[a] = alerts[a] \/ (a = j.id /\ alerts[a].status = "pending")
  BY <1>5 DEF Settles, ClaimsCurrent, ClaimCurrent, Current
<1>6. RowsComeAndGo \/ alerts' = alerts \/ \E w \in Workers : \E j \in Held(w) : Settles(w, j)
  BY <1>1, <1>2, <1>3, <1>4, StepCases DEF Environment
<1> QED BY <1>5, <1>6 DEF RowsComeAndGo

(* A resolved alert is final, one replica at work: dispatch never revives, *)
(* re-fails or re-counts a row that is sent, suppressed or failed, whatever *)
(* fails and whenever the worker restarts; the row only goes with its      *)
(* monitor.                                                                *)
THEOREM ResolvedStays ==
    ASSUME OneReplica
    PROVE  Spec => ResolvedIsFinal
<1>1. ClaimInv /\ [Next]_vars =>
        [\A a \in DOMAIN alerts : alerts[a].status # "pending" =>
           alerts'[a] = alerts[a] \/ alerts'[a].status = "gone"]_vars
  BY RowsSettle DEF Vanished
<1> QED BY <1>1, ClaimInvHolds, PTL DEF Spec, ResolvedIsFinal

(* The attempt budget, one replica at work: no row counts more than        *)
(* maxAttempts attempts and a pending one always has one left, whatever    *)
(* the mail server answers and whatever fails.                             *)
THEOREM BudgetKept ==
    ASSUME OneReplica
    PROVE  Spec => []AttemptBudget
<1>1. Init => AttemptBudget
  BY DEF Init, StartUp, AttemptBudget
<1>2. AttemptBudget /\ ClaimInv /\ [Next]_vars => AttemptBudget'
  <2> SUFFICES ASSUME AttemptBudget, ClaimInv, [Next]_vars, NEW a \in DOMAIN alerts'
               PROVE  /\ alerts'[a].attempts =< MaxAttempts
                      /\ alerts'[a].status = "pending" => alerts'[a].attempts < MaxAttempts
    BY DEF AttemptBudget
  <2>1. CASE a \notin DOMAIN alerts \/ Vanished(alerts'[a])
    BY <2>1, RowsSettle, ConstantsAssumption DEF Untried, Vanished
  <2>2. CASE a \in DOMAIN alerts /\ alerts'[a] = alerts[a]
    BY <2>2 DEF AttemptBudget
  <2>3. ASSUME a \in DOMAIN alerts, alerts[a].status = "pending",
               NEW w \in Workers, NEW j \in Held(w), Settles(w, j), j.id = a
        PROVE  /\ alerts'[a].attempts =< MaxAttempts
               /\ alerts'[a].status = "pending" => alerts'[a].attempts < MaxAttempts
    <3>1. alerts[a].attempts \in Nat /\ alerts[a].attempts < MaxAttempts
      BY <2>3, OutboxRow DEF AttemptBudget, ClaimInv, TypeInv, AlertRow
    <3>2. alerts[a].attempts = j.attempts
      BY <2>3 DEF ClaimInv, ClaimsCurrent, ClaimCurrent, Current
    <3>3. alerts'[a] \in AlertRow
      BY <2>3, TypeStep, OutboxRow DEF ClaimInv, TypeInv, TypeOK, Settles
    <3>4. alerts'[a].attempts \in Nat
      BY <3>3 DEF AlertRow
    <3> QED BY <2>3, <3>1, <3>2, <3>4, ConstantsAssumption DEF Settles
  <2> QED BY <2>1, <2>2, <2>3, RowsSettle
<1> QED BY <1>1, <1>2, ClaimInvHolds, PTL DEF Spec

----------------------------------------------------------------------------
(* Outcomes are visible.                                                   *)

(* Ids.                                                                    *)
LEMMA Ids ==
    ASSUME TypeInv
    PROVE  /\ DOMAIN alerts \subseteq 1 .. MaxAlerts
           /\ \A a \in 1 .. MaxAlerts : a > Len(alerts) <=> a \notin DOMAIN alerts
           /\ failures \in [1 .. MaxAlerts -> Nat] /\ inbox \in [1 .. MaxAlerts -> Nat]
           /\ faults \in Nat
BY OutboxRow, ConstantsAssumption DEF TypeInv, TypeOK

LEMMA IdsNext ==
    ASSUME TypeInv'
    PROVE  /\ DOMAIN alerts' \subseteq 1 .. MaxAlerts /\ faults' \in Nat
           /\ inbox' \in [1 .. MaxAlerts -> Nat]
<1>1. alerts' \in Seq(AlertRow) /\ Len(alerts') =< MaxAlerts
  BY DEF TypeInv, TypeOK
<1>2. DOMAIN alerts' = 1 .. Len(alerts') /\ Len(alerts') \in Nat /\ MaxAlerts \in Nat
  BY <1>1, ConstantsAssumption
<1>3. DOMAIN alerts' \subseteq 1 .. MaxAlerts
  BY <1>1, <1>2
<1> QED BY <1>3 DEF TypeInv, TypeOK

(* What is said of one row.                                                *)
RowVisible(a) ==
    /\ failures[a] = IF alerts[a].status = "failed" THEN 1 ELSE 0
    /\ alerts[a].sentAt => alerts[a].status = "sent" /\ inbox[a] >= 1

(* Rows come and go: no row is visible that was not, and new ids are clean. *)
LEMMA VisibleAsRowsComeAndGo ==
    ASSUME TypeInv, TypeInv', OutcomesVisible, RowsComeAndGo, inbox' = inbox
    PROVE  /\ OutcomeIsVisible'
           /\ \A a \in 1 .. MaxAlerts : a > Len(alerts') => failures'[a] = 0
<1>1. ASSUME NEW a \in DOMAIN alerts' PROVE RowVisible(a)'
  <2>1. CASE a \notin DOMAIN alerts
    <3>1. failures'[a] = 0
      BY <2>1, Ids, IdsNext DEF OutcomesVisible, RowsComeAndGo
    <3> QED BY <2>1, <3>1 DEF RowsComeAndGo, Untried, RowVisible
  <2>2. CASE a \in DOMAIN alerts
    BY <2>2 DEF OutcomesVisible, OutcomeIsVisible, RowsComeAndGo, Vanished, RowVisible
  <2> QED BY <2>1, <2>2
<1>2. \A a \in 1 .. MaxAlerts : a > Len(alerts') => failures'[a] = 0
  BY Ids DEF OutcomesVisible, RowsComeAndGo
<1> QED BY <1>1, <1>2 DEF OutcomeIsVisible, RowVisible

LEMMA VisibleStep ==
    ASSUME OneReplica, ClaimInv, OutcomesVisible, [Next]_vars
    PROVE  OutcomesVisible'
<1> USE DEF ClaimInv
<1>0. TypeInv'
  BY TypeStep
<1>1. CASE Environment
  <2>1. RowsComeAndGo /\ worker' = worker /\ inbox' = inbox
    BY <1>1 DEF Environment
  <2> QED BY <1>0, <2>1, VisibleAsRowsComeAndGo DEF OutcomesVisible
<1>2. ASSUME NEW w \in Workers, EnqueueCommits(w)
      PROVE  OutcomesVisible'
  <2>1. RowsComeAndGo /\ inbox' = inbox /\ worker'[w].pc = "claim"
    BY <1>2, EnqueueSteps
  <2>2. \A v \in Workers : worker'[v].pc # "mark"
    BY <2>1 DEF OneReplica
  <2> QED BY <1>0, <2>1, <2>2, VisibleAsRowsComeAndGo DEF OutcomesVisible
<1>3. ASSUME NEW w \in Workers, EnqueueReads(w) \/ Claim(w) \/ Interrupted(w)
      PROVE  OutcomesVisible'
  <2>1. UNCHANGED <<alerts, failures, inbox>> /\ worker'[w].pc # "mark"
    BY <1>3, SnapshotSteps, ClaimSteps, InterruptedSteps
  <2>2. \A v \in Workers : worker'[v].pc # "mark"
    BY <2>1 DEF OneReplica
  <2> QED BY <2>1, <2>2 DEF OutcomesVisible, OutcomeIsVisible
<1>4. ASSUME NEW w \in Workers, NEW j \in Held(w), Settles(w, j)
      PROVE  OutcomesVisible'
  <2> DEFINE a == j.id
  <2>1. a \in DOMAIN alerts /\ alerts[a].status \in {"gone", "pending"} /\ a \in 1 .. MaxAlerts
    BY Ids DEF ClaimsCurrent, ClaimCurrent, Current
  <2>2. RowVisible(a) /\ failures[a] = 0 /\ ~alerts[a].sentAt
    BY <2>1 DEF OutcomesVisible, OutcomeIsVisible, RowVisible
  <2>3. \A v \in Workers : worker'[v].pc # "mark"
    BY <1>4 DEF OneReplica, Settles
  <2>4. worker[w].pc = "mark" /\ worker[w].result = "accepted" => inbox[a] >= 1
    BY <1>4 DEF OutcomesVisible, Settles
  <2>5. RowVisible(a)'
    <3>1. CASE alerts[a].status = "gone"
      BY <1>4, <2>2, <3>1 DEF Settles, RowVisible
    <3>2. CASE alerts[a].status = "pending"
      <4>1. \/ /\ alerts'[a].status = "sent" /\ failures' = failures
               /\ \/ alerts'[a].sentAt = alerts[a].sentAt
                  \/ worker[w].pc = "mark" /\ worker[w].result = "accepted"
            \/ /\ alerts'[a].status = "pending" /\ failures' = failures
               /\ alerts'[a].sentAt = alerts[a].sentAt
            \/ /\ alerts'[a].status = "failed" /\ failures'[a] = failures[a] + 1
               /\ alerts'[a].sentAt = alerts[a].sentAt
        BY <1>4, <3>2 DEF Settles
      <4>2. inbox' = inbox
        BY <1>4 DEF Settles
      <4> HIDE DEF a
      <4> QED BY <2>2, <2>4, <4>1, <4>2 DEF RowVisible
    <3> QED BY <2>1, <3>1, <3>2
  <2>6. \A b \in DOMAIN alerts' : RowVisible(b)'
    <3> SUFFICES ASSUME NEW b \in DOMAIN alerts', b # a PROVE RowVisible(b)'
      BY <2>5
    <3>1. b \in DOMAIN alerts /\ alerts'[b] = alerts[b] /\ inbox' = inbox
      BY <1>4 DEF Settles
    <3>2. failures'[b] = failures[b]
      BY <1>4, <3>1, Ids DEF Settles
    <3> QED BY <3>1, <3>2 DEF OutcomesVisible, OutcomeIsVisible, RowVisible
  <2>7. \A b \in 1 .. MaxAlerts : b > Len(alerts') => failures'[b] = 0
    BY <1>4, <2>1, Ids DEF OutcomesVisible, Settles
  <2> QED BY <2>3, <2>6, <2>7 DEF OutcomesVisible, OutcomeIsVisible, RowVisible
<1>5. ASSUME NEW w \in Workers, NEW j \in Jobs(w), NEW r \in Result, Send(w, j, r)
      PROVE  OutcomesVisible'
  <2>1. /\ UNCHANGED <<alerts, failures>> /\ worker'[w].job = j /\ worker'[w].result = r
        /\ \/ inbox' = [inbox EXCEPT ![j.id] = @ + 1]
           \/ r # "accepted" /\ inbox' = inbox
    BY <1>5, SendSteps
  <2>2. j.id \in 1 .. MaxAlerts
    BY HeldType, Ids DEF TypeInv, ClaimsCurrent, ClaimCurrent, Current
  <2>3. /\ \A a \in 1 .. MaxAlerts : inbox'[a] >= inbox[a]
        /\ r = "accepted" => inbox'[j.id] >= 1
    <3> DEFINE a == j.id
    <3>1. inbox \in [1 .. MaxAlerts -> Nat] /\ a \in 1 .. MaxAlerts
      BY <2>2, Ids
    <3>2. inbox' = [inbox EXCEPT ![a] = @ + 1] \/ (r # "accepted" /\ inbox' = inbox)
      BY <2>1
    <3> HIDE DEF a
    <3>3. CASE inbox' = [inbox EXCEPT ![a] = @ + 1]
      BY <3>1, <3>3 DEF a
    <3>4. CASE r # "accepted" /\ inbox' = inbox
      BY <3>1, <3>4
    <3> QED BY <3>2, <3>3, <3>4
  <2>4. \A a \in DOMAIN alerts : RowVisible(a)'
    <3> SUFFICES ASSUME NEW a \in DOMAIN alerts PROVE RowVisible(a)'
      OBVIOUS
    <3>1. inbox'[a] >= inbox[a] /\ inbox[a] \in Nat /\ inbox'[a] \in Nat
      BY <1>0, <2>3, Ids DEF TypeInv, TypeOK
    <3> QED BY <2>1, <3>1 DEF OutcomesVisible, OutcomeIsVisible, RowVisible
  <2>5. \A v \in Workers : worker'[v].pc = "mark" /\ worker'[v].result = "accepted"
                             => inbox'[worker'[v].job.id] >= 1
    BY <2>1, <2>3 DEF OneReplica
  <2> QED BY <2>1, <2>4, <2>5 DEF OutcomesVisible, OutcomeIsVisible, RowVisible
<1> QED BY <1>1, <1>2, <1>3, <1>4, <1>5, StepCases

(* The timeline tells the truth about delivery, one replica at work: an    *)
(* alert has one alert_failed event exactly when it is failed, and a row   *)
(* with a sent_at was accepted by the mail server.                         *)
THEOREM OutcomesTold ==
    ASSUME OneReplica
    PROVE  Spec => []OutcomeIsVisible
<1>1. Init => OutcomesVisible
  BY DEF Init, StartUp, Idle, OutcomesVisible, OutcomeIsVisible
<1>2. OutcomesVisible /\ ClaimInv /\ [Next]_vars => OutcomesVisible'
  BY VisibleStep
<1>3. OutcomesVisible => OutcomeIsVisible
  BY DEF OutcomesVisible
<1> QED BY <1>1, <1>2, <1>3, ClaimInvHolds, PTL DEF Spec

----------------------------------------------------------------------------
(* Deliveries are counted.                                                 *)

LEMMA CountedStep ==
    ASSUME OneReplica, ClaimInv, DeliveriesCounted, [Next]_vars
    PROVE  DeliveriesCounted'
<1> USE DEF ClaimInv
<1>0. TypeInv' /\ ClaimsCurrent'
  BY TypeStep, ClaimsStep
<1>1. CASE Environment
  <2>1. /\ RowsComeAndGo /\ worker' = worker /\ inbox' = inbox /\ faults' = faults
        /\ \A w \in Workers : Unsent(w)' = Unsent(w)
    BY <1>1 DEF Environment, Unsent
  <2>2. \A a \in DOMAIN alerts' : alerts'[a].status = "pending" /\ ~Acknowledged(a)'
          => inbox'[a] =< faults'
    <3> SUFFICES ASSUME NEW a \in DOMAIN alerts', alerts'[a].status = "pending", ~Acknowledged(a)'
                 PROVE  inbox[a] =< faults
      BY <2>1
    <3>1. CASE a \in DOMAIN alerts
      BY <2>1, <3>1 DEF RowsComeAndGo, Vanished, DeliveriesCounted, Acknowledged
    <3>2. CASE a \notin DOMAIN alerts
      <4>1. a \in 1 .. MaxAlerts
        BY <1>0, IdsNext
      <4>2. inbox[a] = 0
        BY <3>2, <4>1, Ids DEF DeliveriesCounted
      <4> QED BY <4>2, Ids
    <3> QED BY <3>1, <3>2
  <2>3. \A a \in 1 .. MaxAlerts : a > Len(alerts') => inbox'[a] = 0
    BY <2>1, <1>0, Ids DEF RowsComeAndGo, DeliveriesCounted
  <2> QED BY <2>1, <2>2, <2>3 DEF DeliveriesCounted, DuplicatesNeedFaults
<1>2. ASSUME NEW w \in Workers, EnqueueCommits(w)
      PROVE  DeliveriesCounted'
  <2>1. /\ RowsComeAndGo /\ inbox' = inbox /\ faults' = faults /\ Unsent(w)' = {}
        /\ worker[w].pc = "enqueue"
    BY <1>2, EnqueueSteps
  <2>2. \A a \in DOMAIN alerts' : alerts'[a].status = "pending" => inbox'[a] =< faults'
    <3> SUFFICES ASSUME NEW a \in DOMAIN alerts', alerts'[a].status = "pending"
                 PROVE  inbox[a] =< faults
      BY <2>1
    <3>1. ~Acknowledged(a)
      BY <2>1 DEF Acknowledged, OneReplica
    <3>2. CASE a \in DOMAIN alerts
      BY <2>1, <3>1, <3>2 DEF RowsComeAndGo, Vanished, DeliveriesCounted
    <3>3. CASE a \notin DOMAIN alerts
      <4>1. a \in 1 .. MaxAlerts
        BY <1>0, IdsNext
      <4>2. inbox[a] = 0
        BY <3>3, <4>1, Ids DEF DeliveriesCounted
      <4> QED BY <4>2, Ids
    <3> QED BY <3>2, <3>3
  <2>3. \A a \in 1 .. MaxAlerts : a > Len(alerts') => inbox'[a] = 0
    BY <2>1, <1>0, Ids DEF RowsComeAndGo, DeliveriesCounted
  <2>4. \A v \in Workers : Unsent(v)' = {}
    BY <2>1 DEF OneReplica
  <2> QED BY <2>1, <2>2, <2>3, <2>4 DEF DeliveriesCounted, DuplicatesNeedFaults
<1>3. ASSUME NEW w \in Workers, EnqueueReads(w) \/ Claim(w)
      PROVE  DeliveriesCounted'
  <2>1. /\ UNCHANGED <<alerts, inbox, faults>> /\ worker[w].pc # "mark"
        /\ \A j \in Unsent(w)' : j.id \in DOMAIN alerts /\ alerts[j.id].status = "pending"
    BY <1>3, SnapshotSteps, ClaimSteps
  <2>2. \A a : ~Acknowledged(a)
    BY <2>1 DEF Acknowledged, OneReplica
  <2>3. \A v \in Workers : \A j \in Unsent(v)' : inbox[j.id] =< faults
    BY <2>1, <2>2 DEF DeliveriesCounted, OneReplica
  <2> QED BY <2>1, <2>2, <2>3 DEF DeliveriesCounted, DuplicatesNeedFaults
<1>4. ASSUME NEW w \in Workers, Interrupted(w)
      PROVE  DeliveriesCounted'
  <2>1. /\ UNCHANGED <<alerts, inbox>> /\ faults' = faults + 1
        /\ Unsent(w)' \subseteq Unsent(w)
    BY <1>4, InterruptedSteps
  <2>2. \A a \in 1 .. MaxAlerts : inbox[a] =< faults' /\ inbox[a] =< 1 + faults'
    BY <2>1, Ids DEF DeliveriesCounted, DuplicatesNeedFaults
  <2>3. \A v \in Workers : \A j \in Unsent(v)' : j.id \in 1 .. MaxAlerts
    BY <2>1, HeldType, Ids DEF OneReplica, TypeInv, ClaimsCurrent, ClaimCurrent, Current
  <2> QED BY <2>1, <2>2, <2>3, Ids DEF DeliveriesCounted, DuplicatesNeedFaults
<1>5. ASSUME NEW w \in Workers, NEW j \in Held(w), Settles(w, j)
      PROVE  DeliveriesCounted'
  <2>1. /\ inbox' = inbox /\ faults' >= faults /\ faults' \in Nat /\ faults \in Nat
        /\ inbox \in [1 .. MaxAlerts -> Nat]
    BY <1>5, <1>0, Ids, IdsNext DEF Settles
  <2>2. DuplicatesNeedFaults'
    BY <2>1 DEF DeliveriesCounted, DuplicatesNeedFaults
  <2>3. \A v \in Workers : \A k \in Unsent(v)' : inbox'[k.id] =< faults'
    <3> SUFFICES ASSUME NEW k \in Unsent(w)' PROVE inbox[k.id] =< faults'
      BY <2>1 DEF OneReplica
    <3>1. k \in Unsent(w)
      BY <1>5 DEF Settles
    <3>2. k.id \in 1 .. MaxAlerts /\ inbox[k.id] =< faults
      BY <3>1, HeldType, Ids DEF TypeInv, ClaimsCurrent, ClaimCurrent, Current, DeliveriesCounted
    <3> QED BY <2>1, <3>2
  <2>4. \A a \in DOMAIN alerts' : alerts'[a].status = "pending" => inbox'[a] =< faults'
    <3> SUFFICES ASSUME NEW a \in DOMAIN alerts', alerts'[a].status = "pending"
                 PROVE  inbox[a] =< faults'
      BY <2>1
    <3>1. a \in DOMAIN alerts /\ a \in 1 .. MaxAlerts
      BY <1>5, Ids DEF Settles
    <3>2. alerts[a].status = "pending"
      BY <1>5, <3>1 DEF Settles, ClaimsCurrent, ClaimCurrent, Current
    <3>3. ~Acknowledged(a)
      <4> SUFFICES ASSUME worker[w].pc = "mark", worker[w].result = "accepted",
                          worker[w].job.id = a
                   PROVE  FALSE
        BY DEF Acknowledged, OneReplica
      <4>1. a = j.id
        BY <1>5 DEF Settles
      <4> QED BY <1>5, <3>2, <4>1 DEF Settles
    <3> QED BY <2>1, <3>1, <3>2, <3>3 DEF DeliveriesCounted
  <2>5. \A a \in 1 .. MaxAlerts : a > Len(alerts') => inbox'[a] = 0
    BY <1>5, <2>1 DEF Settles, DeliveriesCounted
  <2> QED BY <2>2, <2>3, <2>4, <2>5 DEF DeliveriesCounted
<1>6. ASSUME NEW w \in Workers, NEW j \in Jobs(w), NEW r \in Result, Send(w, j, r)
      PROVE  DeliveriesCounted'
  <2> DEFINE a == j.id
  <2>1. /\ alerts' = alerts /\ worker[w].pc = "dispatch"
        /\ worker'[w].pc = "mark" /\ worker'[w].job = j /\ worker'[w].result = r
        /\ Unsent(w)' = Unsent(w) \ {j} /\ j \in Unsent(w)
        /\ \/ r = "accepted" /\ inbox' = [inbox EXCEPT ![a] = @ + 1] /\ faults' = faults
           \/ r # "accepted" /\ inbox' = inbox /\ faults' = faults
           \/ /\ r # "accepted" /\ inbox' = [inbox EXCEPT ![a] = @ + 1]
              /\ faults' = faults + 1
    BY <1>6, SendSteps
  <2>2. a \in DOMAIN alerts /\ a \in 1 .. MaxAlerts
    BY HeldType, Ids DEF TypeInv, ClaimsCurrent, ClaimCurrent, Current
  <2>3. inbox[a] =< faults /\ inbox[a] \in Nat /\ faults \in Nat
    BY <2>1, <2>2, Ids DEF DeliveriesCounted
  <2>4. /\ inbox'[a] =< 1 + faults'
        /\ r # "accepted" => inbox'[a] =< faults'
        /\ \A b \in 1 .. MaxAlerts : b # a => inbox'[b] = inbox[b]
        /\ faults' \in Nat /\ faults' >= faults
    <3>1. inbox \in [1 .. MaxAlerts -> Nat]
      BY Ids
    <3>2. \/ r = "accepted" /\ inbox' = [inbox EXCEPT ![a] = @ + 1] /\ faults' = faults
          \/ r # "accepted" /\ inbox' = inbox /\ faults' = faults
          \/ /\ r # "accepted" /\ inbox' = [inbox EXCEPT ![a] = @ + 1]
             /\ faults' = faults + 1
      BY <2>1
    <3> HIDE DEF a
    <3>3. CASE inbox' = [inbox EXCEPT ![a] = @ + 1]
      <4>1. inbox'[a] = inbox[a] + 1 /\ \A b \in 1 .. MaxAlerts : b # a => inbox'[b] = inbox[b]
        BY <2>2, <3>1, <3>3
      <4> QED BY <2>3, <3>2, <4>1
    <3>4. CASE inbox' = inbox
      <4>1. faults' \in {faults, faults + 1}
        BY <3>2
      <4> QED BY <2>3, <3>4, <4>1
    <3> QED BY <3>2, <3>3, <3>4
  <2>5. \A b : ~Acknowledged(b)
    BY <2>1 DEF Acknowledged, OneReplica
  <2>6. r = "accepted" => Acknowledged(a)'
    BY <2>1 DEF Acknowledged
  <2>7. DuplicatesNeedFaults'
    BY <2>4, Ids DEF DeliveriesCounted, DuplicatesNeedFaults
  <2>8. \A b \in DOMAIN alerts' : alerts'[b].status = "pending" /\ ~Acknowledged(b)'
          => inbox'[b] =< faults'
    <3> SUFFICES ASSUME NEW b \in DOMAIN alerts, alerts[b].status = "pending", ~Acknowledged(b)'
                 PROVE  inbox'[b] =< faults'
      BY <2>1
    <3>1. CASE b = a
      BY <2>4, <2>6, <3>1
    <3>2. CASE b # a
      <4>1. inbox[b] =< faults /\ b \in 1 .. MaxAlerts
        BY <2>5, Ids DEF DeliveriesCounted
      <4> QED BY <2>3, <2>4, <3>2, <4>1, Ids
    <3> QED BY <3>1, <3>2
  <2>9. \A v \in Workers : \A k \in Unsent(v)' : inbox'[k.id] =< faults'
    <3> SUFFICES ASSUME NEW k \in Unsent(w), k # j PROVE inbox'[k.id] =< faults'
      BY <2>1 DEF OneReplica
    <3>1. k.id # a /\ k.id \in 1 .. MaxAlerts
      BY <2>1, HeldType, Ids DEF TypeInv, ClaimsCurrent, ClaimCurrent, Current
    <3>2. inbox[k.id] =< faults
      BY DEF DeliveriesCounted
    <3> QED BY <2>3, <2>4, <3>1, <3>2, Ids
  <2>10. \A b \in 1 .. MaxAlerts : b > Len(alerts') => inbox'[b] = 0
    BY <2>1, <2>2, <2>4, Ids DEF DeliveriesCounted
  <2> QED BY <2>7, <2>8, <2>9, <2>10 DEF DeliveriesCounted
<1> QED BY <1>1, <1>2, <1>3, <1>4, <1>5, <1>6, StepCases

(* A duplicate needs a fault, one replica at work: each message beyond an  *)
(* alert's first is paid for by a crash, a failed UPDATE or a lost         *)
(* acknowledgement, so without faults delivery is at most once.            *)
THEOREM DuplicatesPaidFor ==
    ASSUME OneReplica
    PROVE  Spec => []DuplicatesNeedFaults
<1>1. Init => DeliveriesCounted
  BY DEF Init, StartUp, Idle, DeliveriesCounted, DuplicatesNeedFaults, Unsent
<1>2. DeliveriesCounted /\ ClaimInv /\ [Next]_vars => DeliveriesCounted'
  BY CountedStep
<1>3. DeliveriesCounted => DuplicatesNeedFaults
  BY DEF DeliveriesCounted
<1> QED BY <1>1, <1>2, <1>3, ClaimInvHolds, PTL DEF Spec

----------------------------------------------------------------------------
(* Reminders are spaced.                                                   *)

(* Any two reminders of a monitor are a cadence apart.                     *)
Spaced(a, b) ==
    /\ a < b /\ alerts[a].reminder /\ alerts[b].reminder
    /\ alerts[a].monitor = alerts[b].monitor
    => alerts[b].created >= alerts[a].created + Cadence[alerts[b].monitor]

ReminderInv == RemindersSpaced /\ SnapshotHolds

LEMMA ReminderStep ==
    ASSUME OneReplica, ClaimInv, ReminderInv, [Next]_vars
    PROVE  ReminderInv'
<1> USE DEF ClaimInv, ReminderInv
<1>0. \A a, b \in DOMAIN alerts : Spaced(a, b)
  BY DEF RemindersSpaced, Spaced
<1>1. CASE Environment
  <2>1. /\ worker' = worker
        /\ \A a \in DOMAIN alerts' : alerts'[a].reminder =>
             a \in DOMAIN alerts /\ alerts'[a] = alerts[a]
    BY <1>1 DEF Environment, RowsComeAndGo, Vanished
  <2>2. \A a, b \in DOMAIN alerts' : Spaced(a, b)'
    BY <1>0, <2>1 DEF Spaced
  <2>3. SnapshotHolds'
    BY <2>1 DEF SnapshotHolds
  <2> QED BY <2>2, <2>3 DEF RemindersSpaced, Spaced
<1>2. ASSUME NEW w \in Workers, EnqueueCommits(w)
      PROVE  ReminderInv'
  <2>1. /\ worker[w].pc = "enqueue" /\ worker'[w].pc = "claim"
        /\ DOMAIN alerts \subseteq DOMAIN alerts'
        /\ \A a \in DOMAIN alerts : alerts'[a] = alerts[a]
        /\ \A a \in DOMAIN alerts' \ DOMAIN alerts :
             /\ alerts'[a].monitor \in worker[w].remind
             /\ alerts'[a].created = worker[w].at
             /\ \A b \in DOMAIN alerts' \ DOMAIN alerts :
                  alerts'[a].monitor = alerts'[b].monitor => a = b
    BY <1>2, EnqueueSteps DEF RowsComeAndGo
  <2>2. SnapshotHolds'
    BY <2>1 DEF SnapshotHolds, OneReplica
  <2>3. ASSUME NEW a \in DOMAIN alerts', NEW b \in DOMAIN alerts' PROVE Spaced(a, b)'
    <3>1. CASE a \in DOMAIN alerts /\ b \in DOMAIN alerts
      BY <1>0, <2>1, <3>1 DEF Spaced
    <3>2. CASE a \in DOMAIN alerts /\ b \notin DOMAIN alerts
      <4> SUFFICES ASSUME alerts[a].reminder, alerts[a].monitor = alerts'[b].monitor
                   PROVE  alerts'[b].created >= alerts[a].created + Cadence[alerts'[b].monitor]
        BY <2>1, <3>2 DEF Spaced
      <4>1. alerts[a].created + Cadence[alerts'[b].monitor] =< worker[w].at
        BY <2>1, <3>2 DEF SnapshotHolds
      <4>2. /\ alerts[a].created \in Nat /\ worker[w].at \in Nat
            /\ Cadence[alerts'[b].monitor] \in Nat
        BY <2>1, <3>2, OutboxRow, WorkerShape, ConstantsAssumption DEF TypeInv, AlertRow
      <4> QED BY <2>1, <3>2, <4>1, <4>2
    <3>3. CASE a \notin DOMAIN alerts /\ b \in DOMAIN alerts
      <4>1. b < a /\ a \in Nat /\ b \in Nat
        BY <3>3, OutboxRow, TypeStep DEF TypeInv, TypeOK
      <4> QED BY <4>1 DEF Spaced
    <3>4. CASE a \notin DOMAIN alerts /\ b \notin DOMAIN alerts
      <4>1. a \in Nat /\ b \in Nat
        BY TypeStep DEF TypeInv, TypeOK
      <4> QED BY <2>1, <3>4, <4>1 DEF Spaced
    <3> QED BY <3>1, <3>2, <3>3, <3>4
  <2> QED BY <2>2, <2>3 DEF RemindersSpaced, Spaced
<1>3. ASSUME NEW w \in Workers, EnqueueReads(w)
      PROVE  ReminderInv'
  <2>1. /\ alerts' = alerts
        /\ worker'[w].pc = "enqueue" =>
             /\ worker'[w].at = clock
             /\ \A m \in worker'[w].remind : m \in Monitors /\ ReminderDue(m)
    BY <1>3, SnapshotSteps
  <2>2. ASSUME NEW m \in Monitors, ReminderDue(m), NEW a \in DOMAIN alerts, alerts[a].monitor = m
        PROVE  alerts[a].created + Cadence[m] =< clock
    <3>1. alerts[a].created =< clock - Cadence[m]
      BY <2>2 DEF ReminderDue
    <3>2. alerts[a].created \in Nat /\ Cadence[m] \in Nat /\ clock \in Nat
      BY OutboxRow, ConstantsAssumption DEF TypeInv, TypeOK, AlertRow
    <3> QED BY <3>1, <3>2
  <2>3. SnapshotHolds'
    BY <2>1, <2>2 DEF SnapshotHolds, OneReplica
  <2> QED BY <2>1, <2>3 DEF RemindersSpaced
<1>4. ASSUME NEW w \in Workers, Claim(w) \/ Interrupted(w)
      PROVE  ReminderInv'
  <2>1. alerts' = alerts /\ worker'[w].pc # "enqueue"
    BY <1>4, ClaimSteps, InterruptedSteps
  <2> QED BY <2>1 DEF RemindersSpaced, SnapshotHolds, OneReplica
<1>5. ASSUME NEW w \in Workers, NEW j \in Jobs(w), NEW r \in Result, Send(w, j, r)
      PROVE  ReminderInv'
  <2>1. alerts' = alerts /\ worker'[w].pc # "enqueue"
    BY <1>5, SendSteps
  <2> QED BY <2>1 DEF RemindersSpaced, SnapshotHolds, OneReplica
<1>6. ASSUME NEW w \in Workers, NEW j \in Held(w), Settles(w, j)
      PROVE  ReminderInv'
  <2>1. /\ DOMAIN alerts' = DOMAIN alerts /\ worker'[w].pc # "enqueue"
        /\ \A a \in DOMAIN alerts :
             /\ alerts'[a].reminder = alerts[a].reminder
             /\ alerts'[a].monitor = alerts[a].monitor
             /\ alerts'[a].created = alerts[a].created
    BY <1>6 DEF Settles
  <2> QED BY <2>1 DEF RemindersSpaced, SnapshotHolds, OneReplica
<1> QED BY <1>1, <1>2, <1>3, <1>4, <1>5, <1>6, StepCases

(* Reminders do not stack, one replica at work: the NOT EXISTS of the      *)
(* enqueue keeps any two reminders of a monitor at least one cadence       *)
(* apart, however late a tick's INSERT comes after its snapshot.           *)
THEOREM RemindersApart ==
    ASSUME OneReplica
    PROVE  Spec => []RemindersSpaced
<1>1. Init => ReminderInv
  BY DEF Init, StartUp, Idle, ReminderInv, RemindersSpaced, SnapshotHolds
<1>2. ReminderInv /\ ClaimInv /\ [Next]_vars => ReminderInv'
  BY ReminderStep
<1>3. ReminderInv => RemindersSpaced
  BY DEF ReminderInv
<1> QED BY <1>1, <1>2, <1>3, ClaimInvHolds, PTL DEF Spec
==============================================================================
