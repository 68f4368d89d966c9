--------------------------- MODULE HeartbeatProofs ---------------------------
(***************************************************************************)
(* Proofs about Heartbeat, for any number of monitors, requests and        *)
(* scheduler replicas, any valid schedules and any PATCH bodies; the last  *)
(* two theorems name what they assume about requests and bodies.           *)
(***************************************************************************)
EXTENDS Heartbeat, FiniteSetTheorems, TLAPS

----------------------------------------------------------------------------
(* The operators rows and timelines are built with.                        *)

(* The next occurrence of a schedule that validates is an instant.         *)
LEMMA NextOccurrenceType ==
    ASSUME NEW s \in Schedule, NEW from \in Nat, Validate(s)
    PROVE  NextOccurrence(s, from) \in Nat
<1>1. CASE s.kind = "period"
  BY <1>1 DEF NextOccurrence, Schedule
<1>2. CASE s.kind = "cron"
  <2>1. s.cron \in Nat /\ s.cron > 0
    BY <1>2 DEF Schedule, Validate
  <2>2. from \div s.cron \in Nat
    BY <2>1
  <2>3. \A a, b \in Nat : (a + 1) * b \in Nat
    OBVIOUS
  <2> QED BY <1>2, <2>1, <2>2, <2>3 DEF NextOccurrence
<1> QED BY <1>1, <1>2 DEF Schedule

(* What COALESCE stores is a schedule again.                               *)
LEMMA StoreScheduleType ==
    ASSUME NEW s \in Schedule, NEW p \in Patch
    PROVE  StoreSchedule(s, p) \in Schedule
BY DEF StoreSchedule, Schedule, Patch, Coalesce, Time, Null

(* A new row is a row.                                                     *)
LEMMA NewRowType ==
    ASSUME NEW s \in Configs, NEW a \in BOOLEAN
    PROVE  NewRow(s, a) \in Row
BY ConstantsAssumption DEF NewRow, Row, State, Time, Null

(* So is the one that stands for an absent row.                            *)
LEMMA BlankType == Blank \in Row
<1>1. (CHOOSE s \in Configs : TRUE) \in Configs
  BY ConstantsAssumption
<1> QED BY <1>1, NewRowType DEF Blank

(* Recording an event or a transition keeps a log a log.                   *)
LEMMA LogType ==
    ASSUME NEW l \in Log, NEW t \in EventType
    PROVE  RecordEvent(l, t) \in Log /\ RecordTransition(l, t) \in Log
BY DEF RecordEvent, RecordTransition, Log

(* The shapes of a request in flight.                                      *)
LEMMA JobShape ==
    ASSUME NEW j \in Job
    PROVE  /\ j.pc = "ping" => j \in [pc: {"ping"}, m: Monitors, kind: Kind, now: Nat]
           /\ j.pc = "locked" =>
                j \in [pc: {"locked"}, m: Monitors, kind: Kind, now: Nat, row: Row]
           /\ j.pc = "resume" => j \in [pc: {"resume"}, m: Monitors, deadline: Nat]
           /\ j.pc = "patch" => j \in [pc: {"patch"}, m: Monitors, patch: Patch]
BY DEF Job, Idle

(* An evaluated row is a row, and its log a log.                           *)
LEMMA EvaluateType ==
    ASSUME NEW seen \in Row, NEW row \in Row, NEW l \in Log
    PROVE  EvaluateRow(seen, row) \in Row /\ EvaluateLog(seen, l) \in Log
<1>1. seen.deadline \in Time /\ seen.schedule.grace \in Nat
  BY DEF Row, Schedule
<1>2. seen.deadline + seen.schedule.grace \in Time
  BY <1>1 DEF Time, Null
<1>3. EvaluateRow(seen, row) \in Row
  <2>1. CASE seen.state = "up"
    BY <1>2, <2>1 DEF EvaluateRow, Row, State
  <2>2. CASE seen.state # "up"
    <3>1. row.streak + 1 \in Nat /\ Null \in Time
      BY DEF Row, Time
    <3> QED BY <2>2, <3>1 DEF EvaluateRow, Row, State
  <2> QED BY <2>1, <2>2
<1>4. EvaluateLog(seen, l) \in Log
  BY LogType DEF EvaluateLog, EventType
<1> QED BY <1>3, <1>4

(* So is the row a check-in writes.                                        *)
LEMMA CheckinType ==
    ASSUME NEW row \in Row, NEW st \in State, NEW now \in Nat, NEW d \in Time,
           NEW n \in Nat
    PROVE  UpdateOnCheckin(row, st, now, d, n) \in Row
BY DEF UpdateOnCheckin, Row, Time

(* The state and the deadline it writes.                                   *)
LEMMA CheckinFields ==
    ASSUME NEW row \in Row, NEW st, NEW now, NEW d, NEW n
    PROVE  /\ UpdateOnCheckin(row, st, now, d, n).state = st
           /\ UpdateOnCheckin(row, st, now, d, n).deadline = d
BY DEF UpdateOnCheckin, Row

(* The row a resume writes.                                                *)
LEMMA ResumeRowType ==
    ASSUME NEW row \in Row, NEW d \in Nat
    PROVE  ResumeRow(row, d) \in Row
BY DEF ResumeRow, Row, State, Time

(* The row a PATCH writes.                                                 *)
LEMMA UpdateRowType ==
    ASSUME NEW row \in Row, NEW p \in Patch
    PROVE  UpdateRow(row, p) \in Row
<1>1. StoreSchedule(row.schedule, p) \in Schedule
  BY StoreScheduleType DEF Row
<1>2. (IF p.autoResume = {} THEN row.autoResume ELSE TRUE \in p.autoResume) \in BOOLEAN
  <2>1. row.autoResume \in BOOLEAN
    BY DEF Row
  <2>2. (TRUE \in p.autoResume) \in BOOLEAN
    OBVIOUS
  <2>3. CASE p.autoResume = {}
    BY <2>1, <2>3, Zenon
  <2>4. CASE p.autoResume # {}
    BY <2>2, <2>4, Zenon
  <2> QED BY <2>3, <2>4
<1> DEFINE a == IF p.autoResume = {} THEN row.autoResume ELSE TRUE \in p.autoResume
           s == StoreSchedule(row.schedule, p)
<1>3. UpdateRow(row, p) = [row EXCEPT !.schedule = s, !.autoResume = a]
  BY DEF UpdateRow
<1> HIDE DEF a, s
<1>4. [row EXCEPT !.schedule = s, !.autoResume = a] \in Row
  <2>1. a \in BOOLEAN /\ s \in Schedule
    BY <1>1, <1>2, Zenon DEF a, s
  <2> QED BY <2>1 DEF Row
<1> QED BY <1>3, <1>4

----------------------------------------------------------------------------
(* Type correctness.                                                       *)

(* The empty database is well typed.                                       *)
LEMMA TypeInit == Init => TypeOK
<1> SUFFICES ASSUME Init PROVE TypeOK
  OBVIOUS
<1>1. EmptyLog \in Log
  BY DEF EmptyLog, Log
<1>2. Idle \in Job
  BY DEF Job
<1> QED BY <1>1, <1>2, BlankType DEF Init, TypeOK, NoRows

(* Every request, tick, rollback and clock step keeps the types.           *)
LEMMA TypeStep == TypeOK /\ [Next]_vars => TypeOK'
<1> SUFFICES ASSUME TypeOK, [Next]_vars PROVE TypeOK'
  OBVIOUS
<1> USE DEF TypeOK
<1>1. CASE Tick
  BY <1>1 DEF Tick
<1>2. ASSUME NEW m \in Monitors, NEW s \in Configs, NEW a \in BOOLEAN, CreateMonitor(m, s, a)
      PROVE  TypeOK'
  BY <1>2, NewRowType DEF CreateMonitor
<1>3. ASSUME NEW m \in Monitors, DeleteMonitor(m)
      PROVE  TypeOK'
  <2>1. EmptyLog \in Log
    BY DEF EmptyLog, Log
  <2> QED BY <1>3, <2>1, BlankType DEF DeleteMonitor, Issue
<1>4. ASSUME NEW m \in Monitors, PauseMonitor(m)
      PROVE  TypeOK'
  <2>1. RecordEvent(log[m], "pause") \in Log
    BY LogType DEF EventType
  <2>2. [mon[m] EXCEPT !.paused = TRUE] \in Row
    BY DEF Row
  <2>3. mon' \in [Monitors -> Row]
    BY <1>4, <2>2 DEF PauseMonitor
  <2> QED BY <1>4, <2>1, <2>3 DEF PauseMonitor, Issue
<1>5. ASSUME NEW r \in Requests, NEW m \in Monitors, ResumeRead(r, m)
      PROVE  TypeOK'
  <2>1. NextOccurrence(mon[m].schedule, clock) \in Nat
    BY <1>5, NextOccurrenceType DEF ResumeRead, Row
  <2>2. [pc |-> "resume", m |-> m, deadline |-> NextOccurrence(mon[m].schedule, clock)] \in Job
    BY <2>1 DEF Job
  <2> QED BY <1>5, <2>2 DEF ResumeRead, Issue
<1>6. ASSUME NEW r \in Requests, NEW m \in Monitors, NEW k \in Kind, PingArrives(r, m, k)
      PROVE  TypeOK'
  <2>1. [pc |-> "ping", m |-> m, kind |-> k, now |-> clock] \in Job
    BY DEF Job
  <2> QED BY <1>6, <2>1 DEF PingArrives, Issue
<1>7. ASSUME NEW r \in Requests, NEW m \in Monitors, NEW p \in Patches, UpdateRead(r, m, p)
      PROVE  TypeOK'
  <2>1. [pc |-> "patch", m |-> m, patch |-> p] \in Job
    BY ConstantsAssumption DEF Job
  <2> QED BY <1>7, <2>1 DEF UpdateRead, Issue
<1>8. ASSUME NEW r \in Requests, PingLocks(r)
      PROVE  TypeOK'
  <2>1. req[r] \in [pc: {"ping"}, m: Monitors, kind: Kind, now: Nat]
    BY <1>8, JobShape DEF PingLocks
  <2>2. [pc |-> "locked", m |-> req[r].m, kind |-> req[r].kind, now |-> req[r].now,
         row |-> mon[req[r].m]] \in Job
    BY <2>1 DEF Job
  <2> QED BY <1>8, <2>1, <2>2 DEF PingLocks
<1>9. ASSUME NEW r \in Requests, req[r].pc = "locked"
      PROVE  /\ req[r].m \in Monitors /\ req[r].row \in Row /\ req[r].now \in Nat
             /\ InsertCheckin(req[r]) => checkins' \in [Monitors -> SUBSET Checkin]
             /\ Finish(r) => req' \in [Requests -> Job]
             /\ Release(req[r].m) => lock' \in [Monitors -> {Free} \cup Requests \cup Schedulers]
  <2>1. req[r] \in [pc: {"locked"}, m: Monitors, kind: Kind, now: Nat, row: Row]
    BY <1>9, JobShape
  <2>2. [kind |-> req[r].kind, at |-> req[r].now] \in Checkin
    BY <2>1 DEF Checkin
  <2>3. Idle \in Job
    BY DEF Job
  <2> QED BY <2>1, <2>2, <2>3 DEF InsertCheckin, Finish, Release
<1>10. ASSUME NEW r \in Requests, StartCommit(r)
       PROVE  TypeOK'
  BY <1>9, <1>10 DEF StartCommit
<1>11. ASSUME NEW r \in Requests, ApplySuccess(r)
       PROVE  TypeOK'
  <2> DEFINE j == req[r]
             d == NextOccurrence(j.row.schedule, j.now)
  <2>1. j.m \in Monitors /\ j.row \in Row /\ j.now \in Nat
    BY <1>9, <1>11 DEF ApplySuccess
  <2>2. d \in Nat
    BY <1>11, <2>1, NextOccurrenceType DEF ApplySuccess, Row
  <2>3. UpdateOnCheckin(mon[j.m], "up", j.now, d, 0) \in Row
    <3> HIDE DEF d
    <3> QED BY <2>1, <2>2, CheckinType DEF State, Time
  <2>4. mon' \in [Monitors -> Row]
    BY <1>11, <2>3 DEF ApplySuccess
  <2>5. log' \in [Monitors -> Log]
    BY <1>11, <2>1, LogType DEF ApplySuccess, EventType
  <2> QED BY <1>9, <1>11, <2>4, <2>5 DEF ApplySuccess
<1>12. ASSUME NEW r \in Requests, ApplyFail(r)
       PROVE  TypeOK'
  <2> DEFINE j == req[r]
  <2>1. j.m \in Monitors /\ j.row \in Row /\ j.now \in Nat
    BY <1>9, <1>12 DEF ApplyFail
  <2>2. UpdateOnCheckin(mon[j.m], "down", j.now, Null, j.row.streak + 1) \in Row
    <3>1. j.row.streak + 1 \in Nat
      BY <2>1 DEF Row
    <3> QED BY <2>1, <3>1, CheckinType DEF State, Time
  <2>3. mon' \in [Monitors -> Row]
    BY <1>12, <2>2 DEF ApplyFail
  <2>4. log' \in [Monitors -> Log]
    BY <1>12, <2>1, LogType DEF ApplyFail, EventType
  <2> QED BY <1>9, <1>12, <2>3, <2>4 DEF ApplyFail
<1>13. ASSUME NEW r \in Requests, ResumeCommit(r)
       PROVE  TypeOK'
  <2>1. req[r] \in [pc: {"resume"}, m: Monitors, deadline: Nat]
    BY <1>13, JobShape DEF ResumeCommit
  <2>2. RecordEvent(log[req[r].m], "resume") \in Log
    BY <2>1, LogType DEF EventType
  <2>3. ResumeRow(mon[req[r].m], req[r].deadline) \in Row
    BY <2>1, ResumeRowType
  <2> QED BY <1>13, <2>1, <2>2, <2>3 DEF ResumeCommit, Finish, Job
<1>14. ASSUME NEW r \in Requests, UpdateCommit(r)
       PROVE  TypeOK'
  <2>1. req[r] \in [pc: {"patch"}, m: Monitors, patch: Patch]
    BY <1>14, JobShape DEF UpdateCommit
  <2>2. RecordEvent(log[req[r].m], "config_change") \in Log
    BY <2>1, LogType DEF EventType
  <2>3. UpdateRow(mon[req[r].m], req[r].patch) \in Row
    BY <2>1, UpdateRowType
  <2> QED BY <1>14, <2>1, <2>2, <2>3 DEF UpdateCommit, Finish, Job
<1>15. ASSUME NEW r \in Requests, RequestAborts(r)
       PROVE  TypeOK'
  BY <1>15 DEF RequestAborts, Finish, Job
<1>16. ASSUME NEW s \in Schedulers, Claim(s)
       PROVE  TypeOK'
  <2>1. PICK rows \in SUBSET Monitors :
          /\ lock' = [m \in Monitors |-> IF m \in rows THEN s ELSE lock[m]]
          /\ claim' = [claim EXCEPT ![s] =
               [m \in Monitors |-> IF m \in rows THEN mon[m] ELSE Unclaimed]]
    BY <1>16 DEF Claim
  <2> QED BY <1>16, <2>1 DEF Claim
<1>17. ASSUME NEW s \in Schedulers, EvaluateDueMonitors(s)
       PROVE  TypeOK'
  <2>1. \A m \in Monitors : claim[s][m] # Unclaimed =>
          EvaluateRow(claim[s][m], mon[m]) \in Row /\ EvaluateLog(claim[s][m], log[m]) \in Log
    BY EvaluateType
  <2>2. mon' \in [Monitors -> Row] /\ log' \in [Monitors -> Log]
    BY <1>17, <2>1 DEF EvaluateDueMonitors
  <2> QED BY <1>17, <2>2 DEF EvaluateDueMonitors, NoRows
<1>18. ASSUME NEW s \in Schedulers, SchedulerAborts(s)
       PROVE  TypeOK'
  BY <1>18 DEF SchedulerAborts, NoRows
<1>19. CASE UNCHANGED vars
  BY <1>19 DEF vars
<1> QED
  BY <1>1, <1>2, <1>3, <1>4, <1>5, <1>6, <1>7, <1>8, <1>10, <1>11, <1>12, <1>13, <1>14,
     <1>15, <1>16, <1>17, <1>18, <1>19 DEF Next, RequestStep

(* Every reachable state of the rows, timelines, requests and batches is   *)
(* well typed: in particular no step stores a state, a deadline or a       *)
(* schedule outside its column's domain.                                   *)
THEOREM TypeCorrect == Spec => []TypeOK
BY TypeInit, TypeStep, PTL DEF Spec

----------------------------------------------------------------------------
(* Row locks: DecisionsAreCurrent is inductive with TypeOK.                *)

(* A step leaves the lock, the existence and the content of row m alone.   *)
Keeps(m) == lock'[m] = lock[m] /\ status'[m] = status[m] /\ mon'[m] = mon[m]

(* A step that makes no new decision, and keeps the rows of the decisions  *)
(* still pending after it, keeps them current.                             *)
LEMMA Frame ==
    ASSUME DecisionsAreCurrent,
           \A r \in Requests : req'[r].pc = "locked" => req'[r] = req[r] /\ Keeps(req[r].m),
           \A s \in Schedulers, m \in Monitors : claim'[s][m] # Unclaimed =>
             claim'[s][m] = claim[s][m] /\ Keeps(m)
    PROVE  DecisionsAreCurrent'
BY DEF DecisionsAreCurrent, Keeps, Stored

(* A row whose lock is free, or that is not stored, is no decision's row.  *)
LEMMA NoDecision ==
    ASSUME DecisionsAreCurrent, NEW m \in Monitors, lock[m] = Free \/ status[m] # "stored"
    PROVE  /\ \A r \in Requests : req[r].pc = "locked" => req[r].m # m
           /\ \A s \in Schedulers : claim[s][m] = Unclaimed
BY ConstantsAssumption DEF DecisionsAreCurrent, Stored

(* Steps that write at most one row, which nobody decides on.              *)
LEMMA WriteUndecided ==
    ASSUME TypeOK, DecisionsAreCurrent, NEW m \in Monitors,
           lock[m] = Free \/ status[m] # "stored",
           \A n \in Monitors \ {m} : Keeps(n),
           \A r \in Requests : req'[r].pc = "locked" => req'[r] = req[r],
           claim' = claim
    PROVE  DecisionsAreCurrent'
<1>1. \A r \in Requests : req'[r].pc = "locked" => req'[r] = req[r] /\ Keeps(req[r].m)
  <2> SUFFICES ASSUME NEW r \in Requests, req'[r].pc = "locked"
               PROVE  req'[r] = req[r] /\ Keeps(req[r].m)
    OBVIOUS
  <2>1. req[r].m \in Monitors /\ req[r].m # m
    BY NoDecision, JobShape DEF TypeOK
  <2> QED BY <2>1
<1>2. \A s \in Schedulers, n \in Monitors : claim'[s][n] # Unclaimed =>
        claim'[s][n] = claim[s][n] /\ Keeps(n)
  BY NoDecision
<1> QED BY <1>1, <1>2, Frame

(* A ping that ends gives up its own row only.                             *)
LEMMA PingEnds ==
    ASSUME TypeOK, DecisionsAreCurrent, NEW r \in Requests, req[r].pc = "locked",
           Finish(r), Release(req[r].m),
           \A n \in Monitors \ {req[r].m} : mon'[n] = mon[n],
           status' = status, claim' = claim
    PROVE  DecisionsAreCurrent'
<1>0. req[r].m \in Monitors
  BY JobShape DEF TypeOK
<1>1. \A q \in Requests : req'[q].pc = "locked" => req'[q] = req[q] /\ Keeps(req[q].m)
  <2> SUFFICES ASSUME NEW q \in Requests, req'[q].pc = "locked"
               PROVE  req'[q] = req[q] /\ Keeps(req[q].m)
    OBVIOUS
  <2>1. q # r /\ req'[q] = req[q]
    BY DEF Finish, Idle, TypeOK
  <2>2. req[q].m \in Monitors /\ req[q].m # req[r].m
    BY <2>1, JobShape DEF TypeOK, DecisionsAreCurrent
  <2> QED BY <1>0, <2>1, <2>2 DEF Keeps, Release, TypeOK
<1>2. \A s \in Schedulers, n \in Monitors : claim'[s][n] # Unclaimed =>
        claim'[s][n] = claim[s][n] /\ Keeps(n)
  <2> SUFFICES ASSUME NEW s \in Schedulers, NEW n \in Monitors, claim[s][n] # Unclaimed
               PROVE  Keeps(n)
    OBVIOUS
  <2>1. n # req[r].m
    BY ConstantsAssumption DEF DecisionsAreCurrent
  <2> QED BY <1>0, <2>1 DEF Keeps, Release, TypeOK
<1> QED BY <1>1, <1>2, Frame

(* Nobody holds a row in the initial state.                                *)
LEMMA DecisionsInit == Init => DecisionsAreCurrent
BY DEF Init, DecisionsAreCurrent, Idle, NoRows

(* Locking takes a copy of the stored row, and whoever writes a row holds  *)
(* its lock or finds it free, so no copy goes stale.                       *)
LEMMA DecisionsStep == TypeOK /\ DecisionsAreCurrent /\ [Next]_vars => DecisionsAreCurrent'
<1> SUFFICES ASSUME TypeOK, DecisionsAreCurrent, [Next]_vars PROVE DecisionsAreCurrent'
  OBVIOUS
<1>1. CASE Tick
  BY <1>1 DEF Tick, DecisionsAreCurrent, Stored
<1>2. ASSUME NEW m \in Monitors, NEW s \in Configs, NEW a \in BOOLEAN, CreateMonitor(m, s, a)
      PROVE  DecisionsAreCurrent'
  <2>1. \A n \in Monitors \ {m} : Keeps(n)
    BY <1>2 DEF CreateMonitor, Keeps, TypeOK
  <2> QED BY <1>2, <2>1, WriteUndecided DEF CreateMonitor
<1>3. ASSUME NEW m \in Monitors, DeleteMonitor(m)
      PROVE  DecisionsAreCurrent'
  <2>1. \A n \in Monitors \ {m} : Keeps(n)
    BY <1>3 DEF DeleteMonitor, Keeps, TypeOK
  <2> QED BY <1>3, <2>1, WriteUndecided DEF DeleteMonitor, Unlocked
<1>4. ASSUME NEW m \in Monitors, PauseMonitor(m)
      PROVE  DecisionsAreCurrent'
  <2>1. \A n \in Monitors \ {m} : Keeps(n)
    BY <1>4 DEF PauseMonitor, Keeps, TypeOK
  <2> QED BY <1>4, <2>1, WriteUndecided DEF PauseMonitor, Unlocked
<1>5. ASSUME NEW r \in Requests, NEW m \in Monitors, ResumeRead(r, m)
      PROVE  DecisionsAreCurrent'
  BY <1>5, Frame DEF ResumeRead, Keeps, TypeOK
<1>6. ASSUME NEW r \in Requests, NEW m \in Monitors, NEW k \in Kind, PingArrives(r, m, k)
      PROVE  DecisionsAreCurrent'
  BY <1>6, Frame DEF PingArrives, Keeps, TypeOK
<1>7. ASSUME NEW r \in Requests, NEW m \in Monitors, NEW p \in Patches, UpdateRead(r, m, p)
      PROVE  DecisionsAreCurrent'
  BY <1>7, Frame DEF UpdateRead, Keeps, TypeOK
<1>8. ASSUME NEW r \in Requests, PingLocks(r)
      PROVE  DecisionsAreCurrent'
  <2> DEFINE m == req[r].m
  <2>1. m \in Monitors /\ lock[m] = Free
    BY <1>8, JobShape DEF PingLocks, Unlocked, TypeOK
  <2>2. /\ \A q \in Requests : req[q].pc = "locked" => req[q].m # m
        /\ \A s \in Schedulers : claim[s][m] = Unclaimed
    BY <2>1, NoDecision
  <2>3. /\ req'[r].pc = "locked" /\ req'[r].m = m /\ req'[r].row = mon[m]
        /\ \A q \in Requests \ {r} : req'[q] = req[q]
        /\ lock'[m] = r /\ \A n \in Monitors \ {m} : lock'[n] = lock[n]
        /\ status' = status /\ mon' = mon /\ claim' = claim /\ status[m] = "stored"
    BY <1>8, <2>1 DEF PingLocks, Stored, TypeOK
  <2>4. \A q \in Requests : req[q].pc = "locked" => req[q].m \in Monitors
    BY JobShape DEF TypeOK
  <2> QED BY <2>1, <2>2, <2>3, <2>4 DEF DecisionsAreCurrent, Stored
<1>9. ASSUME NEW r \in Requests, StartCommit(r)
      PROVE  DecisionsAreCurrent'
  BY <1>9, PingEnds DEF StartCommit
<1>10. ASSUME NEW r \in Requests, ApplySuccess(r)
       PROVE  DecisionsAreCurrent'
  <2>1. \A n \in Monitors \ {req[r].m} : mon'[n] = mon[n]
    BY <1>10 DEF ApplySuccess, TypeOK
  <2> QED BY <1>10, <2>1, PingEnds DEF ApplySuccess
<1>11. ASSUME NEW r \in Requests, ApplyFail(r)
       PROVE  DecisionsAreCurrent'
  <2>1. \A n \in Monitors \ {req[r].m} : mon'[n] = mon[n]
    BY <1>11 DEF ApplyFail, TypeOK
  <2> QED BY <1>11, <2>1, PingEnds DEF ApplyFail
<1>12. ASSUME NEW r \in Requests, ResumeCommit(r)
       PROVE  DecisionsAreCurrent'
  <2>1. req[r].m \in Monitors
    BY <1>12, JobShape DEF ResumeCommit, TypeOK
  <2>2. \A n \in Monitors \ {req[r].m} : Keeps(n)
    BY <1>12 DEF ResumeCommit, Keeps, TypeOK
  <2>3. \A q \in Requests : req'[q].pc = "locked" => req'[q] = req[q]
    BY <1>12 DEF ResumeCommit, Finish, Idle, TypeOK
  <2> QED BY <1>12, <2>1, <2>2, <2>3, WriteUndecided DEF ResumeCommit, Unlocked
<1>13. ASSUME NEW r \in Requests, UpdateCommit(r)
       PROVE  DecisionsAreCurrent'
  <2>1. req[r].m \in Monitors
    BY <1>13, JobShape DEF UpdateCommit, TypeOK
  <2>2. \A n \in Monitors \ {req[r].m} : Keeps(n)
    BY <1>13 DEF UpdateCommit, Keeps, TypeOK
  <2>3. \A q \in Requests : req'[q].pc = "locked" => req'[q] = req[q]
    BY <1>13 DEF UpdateCommit, Finish, Idle, TypeOK
  <2> QED BY <1>13, <2>1, <2>2, <2>3, WriteUndecided DEF UpdateCommit, Unlocked
<1>14. ASSUME NEW r \in Requests, RequestAborts(r)
       PROVE  DecisionsAreCurrent'
  <2>1. \A q \in Requests : req'[q].pc = "locked" => req'[q] = req[q] /\ Keeps(req[q].m)
    <3> SUFFICES ASSUME NEW q \in Requests, req'[q].pc = "locked"
                 PROVE  req'[q] = req[q] /\ Keeps(req[q].m)
      OBVIOUS
    <3>1. q # r /\ req'[q] = req[q]
      BY <1>14 DEF RequestAborts, Finish, Idle, TypeOK
    <3>2. req[q].m \in Monitors /\ lock[req[q].m] = q
      BY <3>1, JobShape DEF TypeOK, DecisionsAreCurrent
    <3> QED BY <1>14, <3>1, <3>2 DEF Keeps, RequestAborts
  <2>2. \A s \in Schedulers, n \in Monitors : claim'[s][n] # Unclaimed =>
          claim'[s][n] = claim[s][n] /\ Keeps(n)
    BY <1>14, ConstantsAssumption DEF Keeps, RequestAborts, DecisionsAreCurrent
  <2> QED BY <2>1, <2>2, Frame
<1>15. ASSUME NEW s \in Schedulers, Claim(s)
       PROVE  DecisionsAreCurrent'
  <2>1. PICK rows \in SUBSET {m \in Monitors : Due(m) /\ Unlocked(m)} :
          /\ lock' = [m \in Monitors |-> IF m \in rows THEN s ELSE lock[m]]
          /\ claim' = [claim EXCEPT ![s] =
               [m \in Monitors |-> IF m \in rows THEN mon[m] ELSE Unclaimed]]
    BY <1>15 DEF Claim
  <2>2. \A m \in rows :
          /\ m \in Monitors /\ lock[m] = Free /\ status[m] = "stored"
          /\ mon[m].state \in {"up", "late"} /\ ~mon[m].paused
    BY <2>1 DEF Due, Unlocked, Stored
  <2>3. \A m \in rows :
          /\ \A q \in Requests : req[q].pc = "locked" => req[q].m # m
          /\ \A t \in Schedulers : claim[t][m] = Unclaimed
    BY <2>2, NoDecision
  <2>4. \A m \in Monitors \ rows : claim'[s][m] = Unclaimed
    BY <2>1 DEF TypeOK
  <2>5. \A m \in rows : claim'[s][m] = mon[m] /\ lock'[m] = s
    BY <2>1, <2>2 DEF TypeOK
  <2>6. \A t \in Schedulers \ {s} : claim'[t] = claim[t]
    BY <2>1 DEF TypeOK
  <2>7. status' = status /\ mon' = mon /\ req' = req
    BY <1>15 DEF Claim
  <2>8. \A q \in Requests : req[q].pc = "locked" => req[q].m \in Monitors
    BY JobShape DEF TypeOK
  <2>9. \A q \in Requests : req[q].pc = "locked" => lock'[req[q].m] = q
    BY <2>1, <2>3, <2>8 DEF DecisionsAreCurrent
  <2>10. \A q \in Requests : req'[q].pc = "locked" =>
           /\ lock'[req'[q].m] = q /\ status'[req'[q].m] = "stored"
           /\ req'[q].row = mon'[req'[q].m]
    BY <2>7, <2>9 DEF DecisionsAreCurrent, Stored
  <2>11. \A t \in Schedulers, m \in Monitors : claim'[t][m] # Unclaimed =>
           /\ lock'[m] = t /\ status'[m] = "stored" /\ claim'[t][m] = mon'[m]
           /\ mon'[m].state \in {"up", "late"} /\ ~mon'[m].paused
    <3> SUFFICES ASSUME NEW t \in Schedulers, NEW m \in Monitors, claim'[t][m] # Unclaimed
                 PROVE  /\ lock'[m] = t /\ status'[m] = "stored" /\ claim'[t][m] = mon'[m]
                        /\ mon'[m].state \in {"up", "late"} /\ ~mon'[m].paused
      OBVIOUS
    <3>1. CASE t = s
      BY <2>2, <2>4, <2>5, <2>7, <3>1
    <3>2. CASE t # s
      BY <2>1, <2>3, <2>6, <2>7, <3>2 DEF DecisionsAreCurrent, Stored
    <3> QED BY <3>1, <3>2
  <2> QED BY <2>10, <2>11 DEF DecisionsAreCurrent, Stored
<1>16. ASSUME NEW s \in Schedulers, EvaluateDueMonitors(s)
       PROVE  DecisionsAreCurrent'
  <2>1. \A n \in Monitors : lock[n] # s => Keeps(n)
    BY <1>16 DEF EvaluateDueMonitors, Keeps, DecisionsAreCurrent
  <2>2. \A q \in Requests : req'[q].pc = "locked" => req'[q] = req[q] /\ Keeps(req[q].m)
    <3> SUFFICES ASSUME NEW q \in Requests, req[q].pc = "locked"
                 PROVE  Keeps(req[q].m)
      BY <1>16 DEF EvaluateDueMonitors
    <3>1. req[q].m \in Monitors /\ lock[req[q].m] = q
      BY JobShape DEF TypeOK, DecisionsAreCurrent
    <3> QED BY <2>1, <3>1, ConstantsAssumption
  <2>3. \A t \in Schedulers, n \in Monitors : claim'[t][n] # Unclaimed =>
          claim'[t][n] = claim[t][n] /\ Keeps(n)
    <3> SUFFICES ASSUME NEW t \in Schedulers, NEW n \in Monitors, claim'[t][n] # Unclaimed
                 PROVE  claim'[t][n] = claim[t][n] /\ Keeps(n)
      OBVIOUS
    <3>1. t # s /\ claim'[t][n] = claim[t][n]
      BY <1>16 DEF EvaluateDueMonitors, NoRows, TypeOK
    <3> QED BY <2>1, <3>1 DEF DecisionsAreCurrent
  <2> QED BY <2>2, <2>3, Frame
<1>17. ASSUME NEW s \in Schedulers, SchedulerAborts(s)
       PROVE  DecisionsAreCurrent'
  <2>1. \A n \in Monitors : lock[n] # s => Keeps(n)
    BY <1>17 DEF SchedulerAborts, Keeps
  <2>2. \A q \in Requests : req'[q].pc = "locked" => req'[q] = req[q] /\ Keeps(req[q].m)
    <3> SUFFICES ASSUME NEW q \in Requests, req[q].pc = "locked"
                 PROVE  Keeps(req[q].m)
      BY <1>17 DEF SchedulerAborts
    <3>1. req[q].m \in Monitors /\ lock[req[q].m] = q
      BY JobShape DEF TypeOK, DecisionsAreCurrent
    <3> QED BY <2>1, <3>1, ConstantsAssumption
  <2>3. \A t \in Schedulers, n \in Monitors : claim'[t][n] # Unclaimed =>
          claim'[t][n] = claim[t][n] /\ Keeps(n)
    <3> SUFFICES ASSUME NEW t \in Schedulers, NEW n \in Monitors, claim'[t][n] # Unclaimed
                 PROVE  claim'[t][n] = claim[t][n] /\ Keeps(n)
      OBVIOUS
    <3>1. t # s /\ claim'[t][n] = claim[t][n]
      BY <1>17 DEF SchedulerAborts, NoRows, TypeOK
    <3> QED BY <2>1, <3>1 DEF DecisionsAreCurrent
  <2> QED BY <2>2, <2>3, Frame
<1>18. CASE UNCHANGED vars
  BY <1>18 DEF vars, DecisionsAreCurrent, Stored
<1> QED
  BY <1>1, <1>2, <1>3, <1>4, <1>5, <1>6, <1>7, <1>8, <1>9, <1>10, <1>11, <1>12, <1>13, <1>14,
     <1>15, <1>16, <1>17, <1>18 DEF Next, RequestStep

(* For any number of requests and replicas, the row a ping or a tick       *)
(* decides on is the stored row until it commits, and a tick's batch holds *)
(* only unpaused rows it may act on.                                       *)
THEOREM DecisionsCurrent == Spec => []DecisionsAreCurrent
BY TypeInit, TypeStep, DecisionsInit, DecisionsStep, PTL DEF Spec

(* The scheduler never moves a paused monitor: a pause that arrives during *)
(* a tick waits for it, and the next tick does not claim the row.          *)
THEOREM PausedLeftAlone == Spec => PausedIsLeftAlone
<1>1. TypeOK /\ DecisionsAreCurrent /\ [Next]_vars =>
        [\A m \in Monitors :
           Stored(m) /\ mon[m].paused /\ mon'[m].state # mon[m].state =>
             lock[m] \notin Schedulers /\ mon'[m].state # "late"]_vars
  <2> SUFFICES ASSUME TypeOK, DecisionsAreCurrent, Next, NEW m \in Monitors, Stored(m),
                      mon[m].paused, mon'[m].state # mon[m].state
               PROVE  lock[m] \notin Schedulers /\ mon'[m].state # "late"
    BY DEF vars
  <2> USE DEF TypeOK
  <2>1. ASSUME NEW n \in Monitors, NEW s \in Configs, NEW a \in BOOLEAN, CreateMonitor(n, s, a)
        PROVE  FALSE
    BY <2>1 DEF CreateMonitor, Stored
  <2>2. ASSUME NEW n \in Monitors, DeleteMonitor(n)
        PROVE  lock[m] \notin Schedulers /\ mon'[m].state # "late"
    <3>1. m = n /\ lock[m] = Free /\ mon'[m] = Blank
      BY <2>2 DEF DeleteMonitor, Unlocked
    <3> QED BY <3>1, ConstantsAssumption DEF Blank, NewRow
  <2>3. ASSUME NEW n \in Monitors, PauseMonitor(n)
        PROVE  FALSE
    BY <2>3 DEF PauseMonitor, Row
  <2>4. ASSUME NEW r \in Requests, ApplySuccess(r) \/ ApplyFail(r)
        PROVE  lock[m] \notin Schedulers /\ mon'[m].state # "late"
    <3>1. req[r].pc = "locked" /\ req[r].m \in Monitors
      BY <2>4, JobShape DEF ApplySuccess, ApplyFail
    <3>2. m = req[r].m
      BY <2>4, <3>1 DEF ApplySuccess, ApplyFail
    <3>3. lock[m] = r
      BY <3>1, <3>2 DEF DecisionsAreCurrent
    <3>4. mon'[m].state \in {"up", "down"}
      BY <2>4, <3>2, CheckinFields DEF ApplySuccess, ApplyFail
    <3> QED BY <3>3, <3>4, ConstantsAssumption
  <2>5. ASSUME NEW r \in Requests, ResumeCommit(r)
        PROVE  lock[m] \notin Schedulers /\ mon'[m].state # "late"
    <3>1. req[r].m \in Monitors
      BY <2>5, JobShape DEF ResumeCommit
    <3>2. m = req[r].m /\ lock[m] = Free
      BY <2>5, <3>1 DEF ResumeCommit, Unlocked
    <3>3. mon'[m].state = "up"
      BY <2>5, <3>2 DEF ResumeCommit, ResumeRow, Row
    <3> QED BY <3>2, <3>3, ConstantsAssumption
  <2>6. ASSUME NEW r \in Requests, UpdateCommit(r)
        PROVE  FALSE
    <3>1. req[r].m \in Monitors
      BY <2>6, JobShape DEF UpdateCommit
    <3>2. \A row \in Row, p \in Patch : UpdateRow(row, p).state = row.state
      BY DEF UpdateRow, Row
    <3>3. req[r].patch \in Patch
      BY <2>6, JobShape DEF UpdateCommit
    <3> QED BY <2>6, <3>1, <3>2, <3>3 DEF UpdateCommit
  <2>7. ASSUME NEW s \in Schedulers, EvaluateDueMonitors(s)
        PROVE  FALSE
    BY <2>7 DEF EvaluateDueMonitors, DecisionsAreCurrent
  <2>8. ASSUME mon' = mon
        PROVE  FALSE
    BY <2>8
  <2> QED
    BY <2>1, <2>2, <2>3, <2>4, <2>5, <2>6, <2>7, <2>8
    DEF Next, RequestStep, Tick, ResumeRead, PingArrives, UpdateRead, PingLocks, StartCommit,
        RequestAborts, Claim, SchedulerAborts
<1> QED
  BY <1>1, TypeInit, TypeStep, DecisionsInit, DecisionsStep, PTL DEF Spec, PausedIsLeftAlone

----------------------------------------------------------------------------
(* Deadlines.                                                              *)

(* The part of ArmedWhileWatched about one row.                            *)
Armed(row) == row.state \in {"up", "late"} <=> row.deadline # Null

(* Each write to a row sets state and next_deadline together; the copy the *)
(* scheduler decides on is current by DecisionsAreCurrent.                 *)
LEMMA ArmedStep ==
    TypeOK /\ DecisionsAreCurrent /\ ArmedWhileWatched /\ [Next]_vars => ArmedWhileWatched'
<1> SUFFICES ASSUME TypeOK, DecisionsAreCurrent, ArmedWhileWatched, [Next]_vars,
                    NEW m \in Monitors, status'[m] = "stored"
             PROVE  Armed(mon'[m])
  BY DEF ArmedWhileWatched, Stored, Armed
<1> USE DEF TypeOK
<1>0. status[m] = "stored" => Armed(mon[m])
  BY DEF ArmedWhileWatched, Stored, Armed
<1>1. ASSUME NEW n \in Monitors, NEW s \in Configs, NEW a \in BOOLEAN, CreateMonitor(n, s, a)
      PROVE  Armed(mon'[m])
  BY <1>0, <1>1 DEF CreateMonitor, NewRow, Armed
<1>2. ASSUME NEW n \in Monitors, DeleteMonitor(n)
      PROVE  Armed(mon'[m])
  BY <1>0, <1>2 DEF DeleteMonitor
<1>3. ASSUME NEW n \in Monitors, PauseMonitor(n)
      PROVE  Armed(mon'[m])
  <2>1. mon'[m].state = mon[m].state /\ mon'[m].deadline = mon[m].deadline
    BY <1>3 DEF PauseMonitor, Row
  <2> QED BY <1>0, <1>3, <2>1 DEF PauseMonitor, Armed
<1>4. ASSUME NEW r \in Requests, ApplySuccess(r)
      PROVE  Armed(mon'[m])
  <2> DEFINE j == req[r]
             d == NextOccurrence(j.row.schedule, j.now)
  <2>1. j.m \in Monitors /\ j.row \in Row /\ j.now \in Nat
    BY <1>4, JobShape DEF ApplySuccess
  <2>2. d \in Nat
    BY <1>4, <2>1, NextOccurrenceType DEF ApplySuccess, Row
  <2>3. CASE m = j.m
    <3> HIDE DEF d
    <3>1. mon'[m] = UpdateOnCheckin(mon[m], "up", j.now, d, 0)
      BY <1>4, <2>1, <2>3 DEF ApplySuccess, d
    <3>2. mon'[m].state = "up" /\ mon'[m].deadline = d
      BY <3>1, CheckinFields
    <3> QED BY <2>2, <3>2 DEF Armed, Null
  <2>4. CASE m # j.m
    BY <1>0, <1>4, <2>1, <2>4 DEF ApplySuccess
  <2> QED BY <2>3, <2>4
<1>5. ASSUME NEW r \in Requests, ApplyFail(r)
      PROVE  Armed(mon'[m])
  <2> DEFINE j == req[r]
  <2>1. j.m \in Monitors /\ j.row \in Row
    BY <1>5, JobShape DEF ApplyFail
  <2>2. CASE m = j.m
    <3>1. mon'[m] = UpdateOnCheckin(mon[m], "down", j.now, Null, j.row.streak + 1)
      BY <1>5, <2>1, <2>2 DEF ApplyFail
    <3>2. mon'[m].state = "down" /\ mon'[m].deadline = Null
      BY <3>1, CheckinFields
    <3> QED BY <3>2 DEF Armed
  <2>3. CASE m # j.m
    BY <1>0, <1>5, <2>1, <2>3 DEF ApplyFail
  <2> QED BY <2>2, <2>3
<1>6. ASSUME NEW r \in Requests, ResumeCommit(r)
      PROVE  Armed(mon'[m])
  <2>1. req[r].m \in Monitors /\ req[r].deadline \in Nat
    BY <1>6, JobShape DEF ResumeCommit
  <2>2. m = req[r].m => mon'[m].state = "up" /\ mon'[m].deadline = req[r].deadline
    BY <1>6, <2>1 DEF ResumeCommit, ResumeRow, Row
  <2>3. m # req[r].m => mon'[m] = mon[m] /\ status[m] = "stored"
    BY <1>6, <2>1 DEF ResumeCommit
  <2> QED BY <1>0, <2>1, <2>2, <2>3 DEF Armed, Null
<1>7. ASSUME NEW r \in Requests, UpdateCommit(r)
      PROVE  Armed(mon'[m])
  <2>1. req[r].m \in Monitors
    BY <1>7, JobShape DEF UpdateCommit
  <2>2. \A row \in Row, p \in Patch :
          UpdateRow(row, p).state = row.state /\ UpdateRow(row, p).deadline = row.deadline
    BY DEF UpdateRow, Row
  <2>3. req[r].patch \in Patch
    BY <1>7, JobShape DEF UpdateCommit
  <2>4. mon'[m].state = mon[m].state /\ mon'[m].deadline = mon[m].deadline
    BY <1>7, <2>1, <2>2, <2>3 DEF UpdateCommit
  <2> QED BY <1>0, <1>7, <2>4 DEF UpdateCommit, Armed
<1>8. ASSUME NEW s \in Schedulers, EvaluateDueMonitors(s)
      PROVE  Armed(mon'[m])
  <2>1. CASE claim[s][m] # Unclaimed
    <3>1. /\ claim[s][m] = mon[m] /\ mon[m].state \in {"up", "late"}
          /\ mon[m].deadline # Null
      BY <1>0, <2>1 DEF DecisionsAreCurrent, Stored, Armed
    <3>2. mon[m].deadline \in Nat /\ mon[m].schedule.grace \in Nat
      BY <3>1 DEF Row, Time, Schedule
    <3>3. mon'[m] = EvaluateRow(mon[m], mon[m])
      BY <1>8, <2>1, <3>1 DEF EvaluateDueMonitors
    <3>4. CASE mon[m].state = "up"
      <4>1. mon'[m].state = "late" /\ mon'[m].deadline = mon[m].deadline + mon[m].schedule.grace
        BY <3>3, <3>4 DEF EvaluateRow, Row
      <4> QED BY <3>2, <4>1 DEF Armed, Null
    <3>5. CASE mon[m].state = "late"
      <4>1. mon'[m].state = "down" /\ mon'[m].deadline = Null
        BY <3>3, <3>5 DEF EvaluateRow, Row
      <4> QED BY <4>1 DEF Armed
    <3> QED BY <3>1, <3>4, <3>5
  <2>2. CASE claim[s][m] = Unclaimed
    BY <1>0, <1>8, <2>2 DEF EvaluateDueMonitors
  <2> QED BY <2>1, <2>2
<1>9. ASSUME mon' = mon /\ status' = status
      PROVE  Armed(mon'[m])
  BY <1>0, <1>9
<1> QED
  BY <1>1, <1>2, <1>3, <1>4, <1>5, <1>6, <1>7, <1>8, <1>9
  DEF Next, vars, RequestStep, Tick, ResumeRead, PingArrives, UpdateRead, PingLocks, StartCommit,
      RequestAborts, Claim, SchedulerAborts

(* Every up or late monitor always has a deadline the scheduler will reach *)
(* (it cannot be stuck), and no new or down monitor has one.               *)
THEOREM AlwaysArmed == Spec => []ArmedWhileWatched
<1>1. Init => ArmedWhileWatched
  BY DEF Init, ArmedWhileWatched, Stored
<1> QED BY <1>1, TypeInit, TypeStep, DecisionsInit, DecisionsStep, ArmedStep, PTL DEF Spec

----------------------------------------------------------------------------
(* Timelines.                                                              *)

(* What was open before an event of e is still decided by e when another   *)
(* event is appended.                                                      *)
LEMMA AppendBefore ==
    ASSUME NEW e \in Seq(EventType), NEW t \in EventType,
           NEW i \in 1 .. Len(e), NEW j \in 1 .. Len(e) + 1
    PROVE  OpenBefore(Append(e, t), i, j) <=> OpenBefore(e, i, j)
<1>1. \A k \in 1 .. Len(e) : Append(e, t)[k] = e[k]
  OBVIOUS
<1>2. i + 1 .. j - 1 \subseteq 1 .. Len(e)
  OBVIOUS
<1> QED BY <1>1, <1>2 DEF OpenBefore

(* An outage is open after an appended event if the event opens one, or    *)
(* does not close the one that was open.                                   *)
LEMMA AppendOpen ==
    ASSUME NEW e \in Seq(EventType), NEW t \in EventType
    PROVE  HasOpenOutage(Append(e, t)) <=>
             t = "down" \/ (HasOpenOutage(e) /\ t \notin Closes)
<1> DEFINE f == Append(e, t)
           n == Len(e)
<1>0. n \in Nat /\ Len(f) = n + 1 /\ f[n + 1] = t
  OBVIOUS
<1>1. \A i \in 1 .. n : OpenBefore(f, i, n + 2) <=> OpenBefore(f, i, n + 1) /\ t \notin Closes
  <2> SUFFICES ASSUME NEW i \in 1 .. n
               PROVE  OpenBefore(f, i, n + 2) <=> OpenBefore(f, i, n + 1) /\ t \notin Closes
    OBVIOUS
  <2>1. i + 1 .. (n + 2) - 1 = (i + 1 .. (n + 1) - 1) \cup {n + 1}
    BY <1>0
  <2> HIDE DEF f, n
  <2> QED BY <1>0, <2>1 DEF OpenBefore
<1>2. OpenBefore(f, n + 1, n + 2) <=> t = "down"
  <2>1. (n + 1) + 1 .. (n + 2) - 1 = {}
    BY <1>0
  <2> HIDE DEF f, n
  <2> QED BY <1>0, <2>1 DEF OpenBefore
<1>3. \A i \in 1 .. n : OpenBefore(f, i, n + 1) <=> OpenBefore(e, i, n + 1)
  <2> SUFFICES ASSUME NEW i \in 1 .. n
               PROVE  OpenBefore(f, i, n + 1) <=> OpenBefore(e, i, n + 1)
    OBVIOUS
  <2>1. n + 1 \in 1 .. Len(e) + 1
    BY <1>0
  <2> QED BY <2>1, AppendBefore
<1>4. HasOpenOutage(f) <=> \E i \in 1 .. n + 1 : OpenBefore(f, i, n + 2)
  <2>1. Len(f) + 1 = n + 2
    BY <1>0
  <2> QED BY <1>0, <2>1 DEF HasOpenOutage
<1>5. HasOpenOutage(e) <=> \E i \in 1 .. n : OpenBefore(e, i, n + 1)
  BY DEF HasOpenOutage
<1>6. 1 .. n + 1 = (1 .. n) \cup {n + 1}
  BY <1>0
<1> HIDE DEF f, n
<1>7. HasOpenOutage(f) <=> t = "down" \/ (HasOpenOutage(e) /\ t \notin Closes)
  BY <1>1, <1>2, <1>3, <1>4, <1>5, <1>6
<1> QED BY <1>7 DEF f

(* A timeline stays well paired if a "down" is appended only when no       *)
(* outage is open and an "up" only when one is.                            *)
LEMMA AppendPaired ==
    ASSUME NEW e \in Seq(EventType), NEW t \in EventType, WellPaired(e),
           t = "down" => ~HasOpenOutage(e),
           t = "up" => HasOpenOutage(e)
    PROVE  WellPaired(Append(e, t))
<1> DEFINE f == Append(e, t)
           n == Len(e)
<1>0. n \in Nat /\ Len(f) = n + 1 /\ f[n + 1] = t /\ \A k \in 1 .. n : f[k] = e[k]
  OBVIOUS
<1>1. \A i \in 1 .. n, j \in 1 .. n + 1 : OpenBefore(f, i, j) <=> OpenBefore(e, i, j)
  BY AppendBefore
<1>2. \A j \in 1 .. n + 1 : ~OpenBefore(f, n + 1, j)
  <2> HIDE DEF f, n
  <2> QED BY <1>0 DEF OpenBefore
<1>3. HasOpenOutage(e) <=> \E i \in 1 .. n : OpenBefore(e, i, n + 1)
  BY DEF HasOpenOutage
<1>4. 1 .. n + 1 = (1 .. n) \cup {n + 1}
  BY <1>0
<1>5. \A j \in 1 .. n :
        /\ e[j] = "down" => \A i \in 1 .. n : ~OpenBefore(e, i, j)
        /\ e[j] = "up" => \E i \in 1 .. n : OpenBefore(e, i, j)
  BY DEF WellPaired
<1> HIDE DEF f, n
<1>6. \A j \in 1 .. n + 1 :
        /\ f[j] = "down" => \A i \in 1 .. n + 1 : ~OpenBefore(f, i, j)
        /\ f[j] = "up" => \E i \in 1 .. n + 1 : OpenBefore(f, i, j)
  <2> SUFFICES ASSUME NEW j \in 1 .. n + 1
               PROVE  /\ f[j] = "down" => \A i \in 1 .. n + 1 : ~OpenBefore(f, i, j)
                      /\ f[j] = "up" => \E i \in 1 .. n + 1 : OpenBefore(f, i, j)
    OBVIOUS
  <2>1. CASE j \in 1 .. n
    BY <1>0, <1>1, <1>2, <1>4, <1>5, <2>1
  <2>2. CASE j = n + 1
    BY <1>0, <1>1, <1>2, <1>3, <1>4, <2>2
  <2> QED BY <1>4, <2>1, <2>2
<1>7. WellPaired(f)
  BY <1>0, <1>6 DEF WellPaired
<1> QED BY <1>7 DEF f

(* What the timeline of a monitor says, given its state, and the empty     *)
(* timeline of one that is not stored.                                     *)
Truthful(events, state) ==
    WellPaired(events) /\ (state = "down" <=> HasOpenOutage(events))

TimelineInv ==
    \A m \in Monitors :
      IF Stored(m) THEN Truthful(log[m].events, mon[m].state) ELSE log[m] = EmptyLog

(* The empty timeline tells the truth about a monitor that is not down.    *)
LEMMA EmptyTruthful ==
    /\ WellPaired(EmptyLog.events)
    /\ \A st \in State \ {"down"} : Truthful(EmptyLog.events, st)
BY DEF EmptyLog, WellPaired, HasOpenOutage, Truthful

(* The events of a log one step later.                                     *)
LEMMA RecordedEvents ==
    ASSUME NEW l \in Log, NEW t \in EventType
    PROVE  /\ RecordEvent(l, t).events = Append(l.events, t)
           /\ RecordTransition(l, t).events = Append(l.events, t)
           /\ l.events \in Seq(EventType)
BY DEF RecordEvent, RecordTransition, Log

(* The four ways a timeline grows truthfully.                              *)
LEMMA TruthfulAppend ==
    ASSUME NEW e \in Seq(EventType), NEW old \in State, Truthful(e, old)
    PROVE  /\ \A t \in {"late", "pause", "config_change"}, new \in State :
                (new = "down" <=> old = "down") => Truthful(Append(e, t), new)
           /\ \A new \in State : new # "down" => Truthful(Append(e, "resume"), new)
           /\ old # "down" => Truthful(Append(e, "down"), "down")
           /\ old = "down" => Truthful(Append(e, "up"), "up")
<1>1. \A t \in {"late", "pause", "config_change"}, new \in State :
        (new = "down" <=> old = "down") => Truthful(Append(e, t), new)
  BY AppendOpen, AppendPaired DEF Truthful, Closes, EventType
<1>2. \A new \in State : new # "down" => Truthful(Append(e, "resume"), new)
  BY AppendOpen, AppendPaired DEF Truthful, Closes, EventType
<1>3. old # "down" => Truthful(Append(e, "down"), "down")
  BY AppendOpen, AppendPaired DEF Truthful, Closes, EventType
<1>4. old = "down" => Truthful(Append(e, "up"), "up")
  BY AppendOpen, AppendPaired DEF Truthful, Closes, EventType
<1> QED BY <1>1, <1>2, <1>3, <1>4

(* The part of TimelineInv about one monitor, one step later.              *)
LEMMA TimelineStep ==
    TypeOK /\ DecisionsAreCurrent /\ TimelineInv /\ [Next]_vars => TimelineInv'
<1> DEFINE Holds(m) == IF status'[m] = "stored" THEN Truthful(log'[m].events, mon'[m].state)
                                                ELSE log'[m] = EmptyLog
<1> SUFFICES ASSUME TypeOK, DecisionsAreCurrent, TimelineInv, [Next]_vars, NEW m \in Monitors
             PROVE  Holds(m)
  BY DEF TimelineInv, Stored
<1> USE DEF TypeOK
<1>0. /\ status[m] = "stored" => Truthful(log[m].events, mon[m].state)
      /\ status[m] # "stored" => log[m] = EmptyLog
      /\ log[m] \in Log /\ log[m].events \in Seq(EventType) /\ mon[m].state \in State
  BY DEF TimelineInv, Stored, Log, Row
<1>same. ASSUME status'[m] = status[m], log'[m] = log[m],
                mon'[m].state = mon[m].state \/ {mon'[m].state, mon[m].state} \subseteq State \ {"down"}
         PROVE  Holds(m)
  BY <1>0, <1>same DEF Truthful
<1>1. ASSUME NEW n \in Monitors, NEW s \in Configs, NEW a \in BOOLEAN, CreateMonitor(n, s, a)
      PROVE  Holds(m)
  <2>1. CASE m = n
    <3>1. status'[m] = "stored" /\ log'[m] = EmptyLog /\ mon'[m].state = "new"
      BY <1>0, <1>1, <2>1 DEF CreateMonitor, NewRow
    <3> QED BY <3>1, EmptyTruthful DEF State
  <2>2. CASE m # n
    BY <1>same, <1>1, <2>2 DEF CreateMonitor
  <2> QED BY <2>1, <2>2
<1>2. ASSUME NEW n \in Monitors, DeleteMonitor(n)
      PROVE  Holds(m)
  <2>1. CASE m = n
    BY <1>2, <2>1 DEF DeleteMonitor
  <2>2. CASE m # n
    BY <1>same, <1>2, <2>2 DEF DeleteMonitor
  <2> QED BY <2>1, <2>2
<1>3. ASSUME NEW n \in Monitors, PauseMonitor(n)
      PROVE  Holds(m)
  <2>1. status' = status /\ mon'[m].state = mon[m].state
    BY <1>3 DEF PauseMonitor, Row
  <2>2. CASE m = n
    <3>1. status[m] = "stored" /\ log'[m] = RecordEvent(log[m], "pause")
      BY <1>3, <2>2 DEF PauseMonitor, Stored
    <3>2. log'[m].events = Append(log[m].events, "pause")
      BY <1>0, <3>1, RecordedEvents DEF EventType
    <3> QED BY <1>0, <2>1, <3>1, <3>2, TruthfulAppend
  <2>3. CASE m # n
    <3>1. log'[m] = log[m]
      BY <1>3, <2>3 DEF PauseMonitor
    <3> QED BY <1>same, <2>1, <3>1
  <2> QED BY <2>2, <2>3
<1>4. ASSUME NEW r \in Requests, ApplySuccess(r)
      PROVE  Holds(m)
  <2>1. req[r].m \in Monitors /\ req[r].pc = "locked" /\ status' = status
    BY <1>4, JobShape DEF ApplySuccess
  <2>2. status[req[r].m] = "stored" /\ req[r].row = mon[req[r].m]
    BY <2>1 DEF DecisionsAreCurrent, Stored
  <2>3. CASE m = req[r].m
    <3>1. mon'[m].state = "up"
      BY <1>4, <2>1, <2>3, CheckinFields DEF ApplySuccess
    <3>2. CASE mon[m].state = "down"
      <4>1. log'[m] = RecordTransition(log[m], "up")
        BY <1>4, <2>1, <2>2, <2>3, <3>2 DEF ApplySuccess
      <4>2. log'[m].events = Append(log[m].events, "up")
        BY <1>0, <4>1, RecordedEvents DEF EventType
      <4> QED BY <1>0, <2>1, <2>2, <2>3, <3>1, <3>2, <4>2, TruthfulAppend
    <3>3. CASE mon[m].state # "down"
      <4>1. log'[m] = log[m]
        BY <1>4, <2>2, <2>3, <3>3 DEF ApplySuccess
      <4> QED BY <1>0, <1>same, <2>1, <3>1, <3>3, <4>1 DEF State
    <3> QED BY <3>2, <3>3
  <2>4. CASE m # req[r].m
    <3>1. mon'[m] = mon[m] /\ log'[m] = log[m]
      BY <1>4, <2>4 DEF ApplySuccess
    <3> QED BY <1>same, <2>1, <3>1
  <2> QED BY <2>3, <2>4
<1>5. ASSUME NEW r \in Requests, ApplyFail(r)
      PROVE  Holds(m)
  <2>1. req[r].m \in Monitors /\ req[r].pc = "locked" /\ status' = status
    BY <1>5, JobShape DEF ApplyFail
  <2>2. status[req[r].m] = "stored" /\ req[r].row = mon[req[r].m]
    BY <2>1 DEF DecisionsAreCurrent, Stored
  <2>3. CASE m = req[r].m
    <3>1. mon'[m].state = "down"
      BY <1>5, <2>1, <2>3, CheckinFields DEF ApplyFail
    <3>2. CASE mon[m].state # "down"
      <4>1. log'[m] = RecordTransition(log[m], "down")
        BY <1>5, <2>1, <2>2, <2>3, <3>2 DEF ApplyFail
      <4>2. log'[m].events = Append(log[m].events, "down")
        BY <1>0, <4>1, RecordedEvents DEF EventType
      <4> QED BY <1>0, <2>1, <2>2, <2>3, <3>1, <3>2, <4>2, TruthfulAppend
    <3>3. CASE mon[m].state = "down"
      <4>1. log'[m] = log[m]
        BY <1>5, <2>2, <2>3, <3>3 DEF ApplyFail
      <4> QED BY <1>same, <2>1, <3>1, <3>3, <4>1
    <3> QED BY <3>2, <3>3
  <2>4. CASE m # req[r].m
    <3>1. mon'[m] = mon[m] /\ log'[m] = log[m]
      BY <1>5, <2>4 DEF ApplyFail
    <3> QED BY <1>same, <2>1, <3>1
  <2> QED BY <2>3, <2>4
<1>6. ASSUME NEW r \in Requests, ResumeCommit(r)
      PROVE  Holds(m)
  <2>1. req[r].m \in Monitors /\ status' = status
    BY <1>6, JobShape DEF ResumeCommit
  <2>2. CASE m = req[r].m
    <3>1. status[m] = "stored" /\ log'[m] = RecordEvent(log[m], "resume")
      BY <1>6, <2>1, <2>2 DEF ResumeCommit, Stored
    <3>2. mon'[m].state = "up"
      BY <1>6, <2>2 DEF ResumeCommit, ResumeRow, Row
    <3>3. log'[m].events = Append(log[m].events, "resume")
      BY <1>0, <3>1, RecordedEvents DEF EventType
    <3> QED BY <1>0, <2>1, <3>1, <3>2, <3>3, TruthfulAppend DEF State
  <2>3. CASE m # req[r].m
    <3>1. mon'[m] = mon[m] /\ log'[m] = log[m]
      BY <1>6, <2>3 DEF ResumeCommit
    <3> QED BY <1>same, <2>1, <3>1
  <2> QED BY <2>2, <2>3
<1>7. ASSUME NEW r \in Requests, UpdateCommit(r)
      PROVE  Holds(m)
  <2>1. req[r].m \in Monitors /\ req[r].patch \in Patch /\ status' = status
    BY <1>7, JobShape DEF UpdateCommit
  <2>2. CASE m = req[r].m
    <3>1. status[m] = "stored" /\ log'[m] \in {log[m], RecordEvent(log[m], "config_change")}
      BY <1>7, <2>1, <2>2 DEF UpdateCommit, Stored
    <3>2. \A row \in Row, p \in Patch : UpdateRow(row, p).state = row.state
      BY DEF UpdateRow, Row
    <3>3. mon'[m].state = mon[m].state
      BY <1>7, <2>1, <2>2, <3>2 DEF UpdateCommit
    <3>4. CASE log'[m] = RecordEvent(log[m], "config_change")
      <4>1. log'[m].events = Append(log[m].events, "config_change")
        BY <1>0, <3>4, RecordedEvents DEF EventType
      <4> QED BY <1>0, <2>1, <3>1, <3>3, <4>1, TruthfulAppend
    <3>5. CASE log'[m] = log[m]
      BY <1>same, <2>1, <3>3, <3>5
    <3> QED BY <3>1, <3>4, <3>5
  <2>3. CASE m # req[r].m
    <3>1. mon'[m] = mon[m] /\ log'[m] = log[m]
      BY <1>7, <2>3 DEF UpdateCommit
    <3> QED BY <1>same, <2>1, <3>1
  <2> QED BY <2>2, <2>3
<1>8. ASSUME NEW s \in Schedulers, EvaluateDueMonitors(s)
      PROVE  Holds(m)
  <2>1. status' = status
    BY <1>8 DEF EvaluateDueMonitors
  <2>2. CASE claim[s][m] # Unclaimed
    <3>1. claim[s][m] = mon[m] /\ status[m] = "stored" /\ mon[m].state \in {"up", "late"}
      BY <2>2 DEF DecisionsAreCurrent, Stored
    <3>2. mon'[m] = EvaluateRow(mon[m], mon[m]) /\ log'[m] = EvaluateLog(mon[m], log[m])
      BY <1>8, <2>2, <3>1 DEF EvaluateDueMonitors
    <3>3. CASE mon[m].state = "up"
      <4>1. mon'[m].state = "late"
        BY <3>2, <3>3 DEF EvaluateRow, Row
      <4>2. log'[m].events = Append(log[m].events, "late")
        BY <1>0, <3>2, <3>3, RecordedEvents DEF EvaluateLog, EventType
      <4> QED BY <1>0, <2>1, <3>1, <3>3, <4>1, <4>2, TruthfulAppend DEF State
    <3>4. CASE mon[m].state = "late"
      <4>1. mon'[m].state = "down"
        BY <3>2, <3>4 DEF EvaluateRow, Row
      <4>2. log'[m].events = Append(log[m].events, "down")
        BY <1>0, <3>2, <3>4, RecordedEvents DEF EvaluateLog, EventType
      <4> QED BY <1>0, <2>1, <3>1, <3>4, <4>1, <4>2, TruthfulAppend
    <3> QED BY <3>1, <3>3, <3>4
  <2>3. CASE claim[s][m] = Unclaimed
    <3>1. mon'[m] = mon[m] /\ log'[m] = log[m]
      BY <1>8, <2>3 DEF EvaluateDueMonitors
    <3> QED BY <1>same, <2>1, <3>1
  <2> QED BY <2>2, <2>3
<1>9. ASSUME mon' = mon, status' = status, log' = log
      PROVE  Holds(m)
  BY <1>same, <1>9
<1> HIDE DEF Holds
<1> QED
  BY <1>1, <1>2, <1>3, <1>4, <1>5, <1>6, <1>7, <1>8, <1>9
  DEF Next, vars, RequestStep, Tick, ResumeRead, PingArrives, UpdateRead, PingLocks, StartCommit,
      RequestAborts, Claim, SchedulerAborts

(* The timeline invariant holds in every behaviour.                        *)
LEMMA TimelineInvariant == Spec => []TimelineInv
<1>1. Init => TimelineInv
  BY DEF Init, TimelineInv, Stored
<1> QED BY <1>1, TypeInit, TypeStep, DecisionsInit, DecisionsStep, TimelineStep, PTL DEF Spec

(* No monitor's timeline repeats a transition: a second "down" needs an    *)
(* "up" or a resume in between, and every "up" closes an open outage.      *)
THEOREM TransitionsAlternate == Spec => []NoRepeatedTransition
<1>1. TimelineInv => NoRepeatedTransition
  BY EmptyTruthful DEF TimelineInv, NoRepeatedTransition, Truthful
<1> QED BY <1>1, TimelineInvariant, PTL

(* No transition is lost or invented: a monitor is down exactly when its   *)
(* timeline has an open outage.                                            *)
THEOREM TimelineTellsState == Spec => []TimelineMatchesState
<1>1. TimelineInv => TimelineMatchesState
  BY DEF TimelineInv, TimelineMatchesState, Truthful
<1> QED BY <1>1, TimelineInvariant, PTL

----------------------------------------------------------------------------
(* The outbox.                                                             *)

AlertsFor(l, i) == {j \in DOMAIN l.alerts : l.alerts[j] = i}

(* Outbox rows name events of the log, one row for each transition.        *)
AlertsExact(l) ==
    /\ \A j \in DOMAIN l.alerts : l.alerts[j] =< Len(l.events)
    /\ \A i \in 1 .. Len(l.events) :
         Cardinality(AlertsFor(l, i)) = IF l.events[i] \in {"up", "down"} THEN 1 ELSE 0

(* An event of another type adds nothing to the outbox.                    *)
LEMMA EventAlerts ==
    ASSUME NEW l \in Log, NEW t \in EventType \ {"up", "down"}, AlertsExact(l)
    PROVE  AlertsExact(RecordEvent(l, t))
<1> DEFINE k == RecordEvent(l, t)
           n == Len(l.events)
<1>1. k.alerts = l.alerts /\ k.events = Append(l.events, t)
  BY DEF RecordEvent, Log
<1>2. n \in Nat /\ Len(k.events) = n + 1 /\ k.events[n + 1] = t
      /\ \A i \in 1 .. n : k.events[i] = l.events[i]
  BY <1>1 DEF Log
<1>3. \A j \in DOMAIN l.alerts : l.alerts[j] \in Nat
  BY DEF Log
<1> HIDE DEF k, n
<1>4. \A j \in DOMAIN k.alerts : k.alerts[j] =< Len(k.events)
  BY <1>1, <1>2, <1>3 DEF AlertsExact, n
<1>5. \A i \in 1 .. n + 1 :
        Cardinality(AlertsFor(k, i)) = IF k.events[i] \in {"up", "down"} THEN 1 ELSE 0
  <2> SUFFICES ASSUME NEW i \in 1 .. n + 1
               PROVE  Cardinality(AlertsFor(k, i)) = IF k.events[i] \in {"up", "down"} THEN 1 ELSE 0
    OBVIOUS
  <2>1. CASE i \in 1 .. n
    <3>1. AlertsFor(k, i) = AlertsFor(l, i)
      BY <1>1 DEF AlertsFor
    <3> QED BY <1>2, <2>1, <3>1 DEF AlertsExact, n
  <2>2. CASE i = n + 1
    <3>1. AlertsFor(k, i) = {}
      BY <1>1, <1>2, <1>3, <2>2 DEF AlertsFor, AlertsExact, n
    <3> QED BY <1>2, <2>2, <3>1, FS_EmptySet
  <2> QED BY <1>2, <2>1, <2>2
<1> QED BY <1>2, <1>4, <1>5 DEF AlertsExact, k

(* A transition adds the row of its own event.                             *)
LEMMA TransitionAlerts ==
    ASSUME NEW l \in Log, NEW t \in {"up", "down"}, AlertsExact(l)
    PROVE  AlertsExact(RecordTransition(l, t))
<1> DEFINE k == RecordTransition(l, t)
           n == Len(l.events)
           q == Len(l.alerts)
<1>1. k.alerts = Append(l.alerts, n + 1) /\ k.events = Append(l.events, t)
  BY DEF RecordTransition
<1>2. n \in Nat /\ Len(k.events) = n + 1 /\ k.events[n + 1] = t
      /\ \A i \in 1 .. n : k.events[i] = l.events[i]
  BY <1>1 DEF Log, EventType
<1>3. /\ q \in Nat /\ DOMAIN l.alerts = 1 .. q /\ DOMAIN k.alerts = 1 .. q + 1
      /\ k.alerts[q + 1] = n + 1
      /\ \A j \in 1 .. q : k.alerts[j] = l.alerts[j] /\ l.alerts[j] \in Nat
  BY <1>1 DEF Log
<1>4. \A j \in 1 .. q : l.alerts[j] =< n
  BY <1>3 DEF AlertsExact
<1>5. 1 .. q + 1 = (1 .. q) \cup {q + 1} /\ q + 1 \notin 1 .. q
  BY <1>3
<1>6. \A i \in 1 .. n :
        Cardinality(AlertsFor(l, i)) = IF l.events[i] \in {"up", "down"} THEN 1 ELSE 0
  BY DEF AlertsExact
<1> HIDE DEF k, n, q
<1>7. \A j \in DOMAIN k.alerts : k.alerts[j] =< Len(k.events)
  BY <1>2, <1>3, <1>4, <1>5
<1>8. \A i \in 1 .. n + 1 :
        Cardinality(AlertsFor(k, i)) = IF k.events[i] \in {"up", "down"} THEN 1 ELSE 0
  <2> SUFFICES ASSUME NEW i \in 1 .. n + 1
               PROVE  Cardinality(AlertsFor(k, i)) = IF k.events[i] \in {"up", "down"} THEN 1 ELSE 0
    OBVIOUS
  <2>1. CASE i \in 1 .. n
    <3>1. i # n + 1
      BY <1>2, <2>1
    <3>2. AlertsFor(k, i) = AlertsFor(l, i)
      BY <1>3, <1>5, <3>1 DEF AlertsFor
    <3> QED BY <1>2, <1>6, <2>1, <3>2
  <2>2. CASE i = n + 1
    <3>1. \A j \in 1 .. q : k.alerts[j] # n + 1
      BY <1>2, <1>3, <1>4
    <3>2. AlertsFor(k, i) = {q + 1}
      BY <1>3, <1>5, <2>2, <3>1 DEF AlertsFor
    <3> QED BY <1>2, <2>2, <3>2, FS_Singleton
  <2> QED BY <1>2, <2>1, <2>2
<1> QED BY <1>2, <1>7, <1>8 DEF AlertsExact, k

(* How a step can change the log of a monitor.                             *)
LEMMA LogSteps ==
    ASSUME TypeOK, [Next]_vars, NEW m \in Monitors
    PROVE  \/ log'[m] \in {log[m], EmptyLog}
           \/ \E t \in EventType \ {"up", "down"} : log'[m] = RecordEvent(log[m], t)
           \/ \E t \in {"up", "down"} : log'[m] = RecordTransition(log[m], t)
<1> DEFINE P == \/ log'[m] \in {log[m], EmptyLog}
                \/ \E t \in EventType \ {"up", "down"} : log'[m] = RecordEvent(log[m], t)
                \/ \E t \in {"up", "down"} : log'[m] = RecordTransition(log[m], t)
<1> USE DEF TypeOK
<1>1. ASSUME NEW n \in Monitors, DeleteMonitor(n)
      PROVE  P
  BY <1>1 DEF DeleteMonitor
<1>2. ASSUME NEW n \in Monitors, PauseMonitor(n)
      PROVE  P
  BY <1>2 DEF PauseMonitor, EventType
<1>3. ASSUME NEW r \in Requests, ApplySuccess(r)
      PROVE  P
  BY <1>3 DEF ApplySuccess
<1>4. ASSUME NEW r \in Requests, ApplyFail(r)
      PROVE  P
  BY <1>4 DEF ApplyFail
<1>5. ASSUME NEW r \in Requests, ResumeCommit(r)
      PROVE  P
  BY <1>5 DEF ResumeCommit, EventType
<1>6. ASSUME NEW r \in Requests, UpdateCommit(r)
      PROVE  P
  BY <1>6 DEF UpdateCommit, EventType
<1>7. ASSUME NEW s \in Schedulers, EvaluateDueMonitors(s)
      PROVE  P
  <2>1. log'[m] = log[m] \/ log'[m] = EvaluateLog(claim[s][m], log[m])
    BY <1>7 DEF EvaluateDueMonitors
  <2> QED BY <2>1 DEF EvaluateLog, EventType
<1>8. ASSUME log' = log
      PROVE  P
  BY <1>8
<1> HIDE DEF P
<1>9. P
  BY <1>1, <1>2, <1>3, <1>4, <1>5, <1>6, <1>7, <1>8
  DEF Next, vars, RequestStep, Tick, ResumeRead, PingArrives, UpdateRead, PingLocks, StartCommit,
      RequestAborts, Claim, SchedulerAborts, CreateMonitor
<1> QED BY <1>9 DEF P

(* The outbox holds one row per transition and none besides, through any   *)
(* interleaving of commits, rollbacks and crashes.                         *)
THEOREM OutboxExact == Spec => []OneAlertPerTransition
<1> DEFINE OutboxInv == \A m \in Monitors : AlertsExact(log[m])
<1>1. AlertsExact(EmptyLog)
  BY DEF AlertsExact, EmptyLog
<1>2. Init => OutboxInv
  BY <1>1 DEF Init
<1>3. TypeOK /\ OutboxInv /\ [Next]_vars => OutboxInv'
  <2> SUFFICES ASSUME TypeOK, OutboxInv, [Next]_vars, NEW m \in Monitors
               PROVE  AlertsExact(log'[m])
    OBVIOUS
  <2>1. log[m] \in Log /\ AlertsExact(log[m])
    BY DEF TypeOK
  <2> HIDE DEF OutboxInv
  <2> QED BY <1>1, <2>1, LogSteps, EventAlerts, TransitionAlerts
<1>4. OutboxInv => OneAlertPerTransition
  BY DEF AlertsExact, AlertsFor, OneAlertPerTransition
<1> HIDE DEF OutboxInv
<1> QED BY <1>2, <1>3, <1>4, TypeInit, TypeStep, PTL DEF Spec

----------------------------------------------------------------------------
(* Schedules.  A PATCH is validated against the row its request has read   *)
(* and merged into the row its commit finds, column by column.             *)

(* No PATCH sets a schedule field.                                         *)
SchedulesFixed == \A p \in Patches : ~ScheduleFieldsSet(p)

(* A PATCH may set the period, the expression and the grace, but neither   *)
(* the kind nor both the period and the expression.                        *)
KindsKept == \A p \in Patches : p.kind = "" /\ (p.period = Null \/ p.cron = 0)

(* A patch in flight was there before, or has just been validated.         *)
LEMMA PatchMoves ==
    ASSUME TypeOK, [Next]_vars, NEW q \in Requests, req'[q].pc = "patch"
    PROVE  \/ req'[q] = req[q]
           \/ \E m \in Monitors, p \in Patches : UpdateRead(q, m, p)
<1> DEFINE P == \/ req'[q] = req[q]
                \/ \E m \in Monitors, p \in Patches : UpdateRead(q, m, p)
<1>1. ASSUME NEW r \in Requests, NEW m \in Monitors, NEW p \in Patches, UpdateRead(r, m, p)
      PROVE  P
  BY <1>1 DEF UpdateRead, TypeOK
<1>2. ASSUME NEW r \in Requests, NEW j, req' = [req EXCEPT ![r] = j], j.pc # "patch"
      PROVE  P
  BY <1>2 DEF TypeOK
<1>3. ASSUME req' = req
      PROVE  P
  BY <1>3
<1>4. ASSUME NEW r \in Requests, NEW m \in Monitors, ResumeRead(r, m)
      PROVE  P
  <2> DEFINE j == [pc |-> "resume", m |-> m, deadline |-> NextOccurrence(mon[m].schedule, clock)]
  <2>1. req' = [req EXCEPT ![r] = j] /\ j.pc # "patch"
    BY <1>4 DEF ResumeRead
  <2> HIDE DEF j
  <2> QED BY <1>2, <2>1
<1>5. ASSUME NEW r \in Requests, NEW m \in Monitors, NEW k \in Kind, PingArrives(r, m, k)
      PROVE  P
  <2> DEFINE j == [pc |-> "ping", m |-> m, kind |-> k, now |-> clock]
  <2>1. req' = [req EXCEPT ![r] = j] /\ j.pc # "patch"
    BY <1>5 DEF PingArrives
  <2> HIDE DEF j
  <2> QED BY <1>2, <2>1
<1>6. ASSUME NEW r \in Requests, PingLocks(r)
      PROVE  P
  <2> DEFINE i == req[r]
             j == [pc |-> "locked", m |-> i.m, kind |-> i.kind, now |-> i.now, row |-> mon[i.m]]
  <2>1. req' = [req EXCEPT ![r] = j] /\ j.pc # "patch"
    BY <1>6 DEF PingLocks
  <2> HIDE DEF j
  <2> QED BY <1>2, <2>1
<1>7. ASSUME NEW r \in Requests, Finish(r)
      PROVE  P
  <2>1. req' = [req EXCEPT ![r] = Idle] /\ Idle.pc # "patch"
    BY <1>7 DEF Finish, Idle
  <2> QED BY <1>2, <2>1
<1> HIDE DEF P
<1>8. P
  BY <1>1, <1>3, <1>4, <1>5, <1>6, <1>7
  DEF Next, vars, RequestStep, Tick, CreateMonitor, DeleteMonitor, PauseMonitor, StartCommit,
      ApplySuccess, ApplyFail, ResumeCommit, UpdateCommit, RequestAborts, Claim,
      EvaluateDueMonitors, SchedulerAborts
<1> QED BY <1>8 DEF P

(* A monitor in one step: statuses only go forward, and the schedule       *)
(* changes where it is created, deleted or patched.                        *)
LEMMA ScheduleMoves ==
    ASSUME TypeOK, [Next]_vars, NEW m \in Monitors
    PROVE  \/ mon'[m].schedule = mon[m].schedule
           \/ /\ mon'[m].schedule \in Configs
              /\ \/ status[m] = "unborn" /\ status'[m] = "stored" /\ checkins'[m] = checkins[m]
                 \/ status'[m] = "deleted" /\ checkins'[m] = {}
           \/ \E r \in Requests : /\ req[r].pc = "patch" /\ req[r].m = m /\ Stored(m)
                                  /\ mon'[m].schedule = StoreSchedule(mon[m].schedule, req[r].patch)
<1> DEFINE P == \/ mon'[m].schedule = mon[m].schedule
                \/ /\ mon'[m].schedule \in Configs
                   /\ \/ /\ status[m] = "unborn" /\ status'[m] = "stored"
                         /\ checkins'[m] = checkins[m]
                      \/ status'[m] = "deleted" /\ checkins'[m] = {}
                \/ \E r \in Requests :
                     /\ req[r].pc = "patch" /\ req[r].m = m /\ Stored(m)
                     /\ mon'[m].schedule = StoreSchedule(mon[m].schedule, req[r].patch)
<1> USE DEF TypeOK
<1>1. ASSUME NEW n \in Monitors, NEW s \in Configs, NEW a \in BOOLEAN, CreateMonitor(n, s, a)
      PROVE  P
  BY <1>1 DEF CreateMonitor, NewRow
<1>2. ASSUME NEW n \in Monitors, DeleteMonitor(n)
      PROVE  P
  <2>1. Blank.schedule \in Configs
    BY ConstantsAssumption DEF Blank, NewRow
  <2> QED BY <1>2, <2>1 DEF DeleteMonitor
<1>3. ASSUME NEW n \in Monitors, PauseMonitor(n)
      PROVE  P
  BY <1>3 DEF PauseMonitor, Row
<1>4. ASSUME NEW r \in Requests, ApplySuccess(r) \/ ApplyFail(r)
      PROVE  P
  <2>1. \A row \in Row : \A st, now, d, n : UpdateOnCheckin(row, st, now, d, n).schedule = row.schedule
    BY DEF UpdateOnCheckin, Row
  <2> QED BY <1>4, <2>1 DEF ApplySuccess, ApplyFail
<1>5. ASSUME NEW r \in Requests, ResumeCommit(r)
      PROVE  P
  <2>1. \A row \in Row : \A d : ResumeRow(row, d).schedule = row.schedule
    BY DEF ResumeRow, Row
  <2> QED BY <1>5, <2>1 DEF ResumeCommit
<1>6. ASSUME NEW r \in Requests, UpdateCommit(r)
      PROVE  P
  <2>1. req[r].pc = "patch" /\ Stored(req[r].m) /\ req[r].m \in Monitors
    BY <1>6, JobShape DEF UpdateCommit
  <2>2. \A row \in Row : \A p : UpdateRow(row, p).schedule = StoreSchedule(row.schedule, p)
    BY DEF UpdateRow, Row
  <2>3. mon' = [mon EXCEPT ![req[r].m] = UpdateRow(@, req[r].patch)]
    BY <1>6 DEF UpdateCommit
  <2>4. CASE m = req[r].m
    <3>1. mon'[m].schedule = StoreSchedule(mon[m].schedule, req[r].patch)
      BY <2>2, <2>3, <2>4
    <3> QED BY <2>1, <2>4, <3>1
  <2>5. CASE m # req[r].m
    BY <2>3, <2>5
  <2> QED BY <2>4, <2>5
<1>7. ASSUME NEW s \in Schedulers, EvaluateDueMonitors(s)
      PROVE  P
  <2>1. \A row \in Row : \A seen : EvaluateRow(seen, row).schedule = row.schedule
    BY DEF EvaluateRow, Row
  <2> QED BY <1>7, <2>1 DEF EvaluateDueMonitors
<1>8. ASSUME mon' = mon
      PROVE  P
  BY <1>8
<1> HIDE DEF P
<1>9. P
  BY <1>1, <1>2, <1>3, <1>4, <1>5, <1>6, <1>7, <1>8
  DEF Next, vars, RequestStep, Tick, ResumeRead, PingArrives, UpdateRead, PingLocks, StartCommit,
      RequestAborts, Claim, SchedulerAborts
<1> QED BY <1>9 DEF P

LEMMA StatusMoves ==
    ASSUME TypeOK, [Next]_vars, NEW m \in Monitors
    PROVE  /\ status[m] # "unborn" => status'[m] # "unborn"
           /\ status[m] = "deleted" => status'[m] = "deleted"
<1>1. \/ status' = status
      \/ \E n \in Monitors : /\ status[n] = "unborn"
                             /\ status' = [status EXCEPT ![n] = "stored"]
      \/ \E n \in Monitors : /\ status[n] = "stored"
                             /\ status' = [status EXCEPT ![n] = "deleted"]
  BY DEF Next, vars, RequestStep, Tick, CreateMonitor, DeleteMonitor, PauseMonitor, ResumeRead,
     PingArrives, UpdateRead, PingLocks, StartCommit, ApplySuccess, ApplyFail, ResumeCommit,
     UpdateCommit, RequestAborts, Claim, EvaluateDueMonitors, SchedulerAborts, Stored
<1> QED BY <1>1 DEF TypeOK

(* The columns a patch sets suit every valid schedule of a kind.           *)
Fits(p, kind) ==
    /\ p \in Patches
    /\ p.grace = Null \/ p.grace > 0
    /\ kind = "period" => p.cron = 0 /\ (p.period = Null \/ p.period > 0)
    /\ kind = "cron" => p.period = Null

(* What the handler has validated fits, whichever row it read ...          *)
LEMMA ValidatedFits ==
    ASSUME KindsKept, NEW p \in Patches, NEW s \in Schedule,
           ScheduleFieldsSet(p) => Validate(MergeScheduleConfig(s, p))
    PROVE  Fits(p, s.kind)
<1>1. p \in Patch /\ p.kind = "" /\ (p.period = Null \/ p.cron = 0)
  BY ConstantsAssumption DEF KindsKept
<1>2. CASE ~ScheduleFieldsSet(p)
  BY <1>2 DEF ScheduleFieldsSet, Fits
<1>3. CASE ScheduleFieldsSet(p)
  <2> DEFINE c == MergeScheduleConfig(s, p)
  <2>1. /\ c.kind = s.kind /\ c.grace = (IF p.grace = Null THEN s.grace ELSE p.grace)
        /\ c.period = (IF p.cron # 0 THEN 0 ELSE IF p.period = Null THEN s.period ELSE p.period)
        /\ c.cron = (IF p.cron # 0 THEN p.cron ELSE IF p.period # Null THEN 0 ELSE s.cron)
    BY <1>1 DEF MergeScheduleConfig, Coalesce
  <2>2. /\ c.grace > 0
        /\ \/ c.kind = "period" /\ c.cron = 0 /\ c.period > 0
           \/ c.kind = "cron" /\ c.period = 0 /\ c.cron > 0
    BY <1>3 DEF Validate
  <2> HIDE DEF c
  <2>3. p.cron \in Nat /\ p.grace \in Time /\ p.period \in Time
    BY <1>1 DEF Patch
  <2>4. p.grace = Null \/ p.grace > 0
    BY <2>1, <2>2
  <2>5. s.kind = "period" => p.cron = 0 /\ (p.period = Null \/ p.period > 0)
    BY <2>1, <2>2, <2>3
  <2>6. ASSUME s.kind = "cron" PROVE p.period = Null
    <3>1. c.cron > 0
      BY <2>1, <2>2, <2>6
    <3>2. CASE p.cron # 0
      BY <1>1, <3>2
    <3>3. CASE p.cron = 0
      <4>1. c.cron = IF p.period # Null THEN 0 ELSE s.cron
        BY <2>1, <3>3
      <4>2. p.period # Null => c.cron = 0
        BY <4>1
      <4> QED BY <3>1, <4>2
    <3> QED BY <3>2, <3>3
  <2> QED BY <2>4, <2>5, <2>6 DEF Fits
<1> QED BY <1>2, <1>3

(* ... and may be merged into any other row of the same kind.              *)
LEMMA FitsAnyRow ==
    ASSUME KindsKept, NEW p, NEW s \in Schedule, Fits(p, s.kind), Validate(s)
    PROVE  StoreSchedule(s, p).kind = s.kind /\ Validate(StoreSchedule(s, p))
<1>1. p \in Patch /\ p.kind = ""
  BY ConstantsAssumption DEF KindsKept, Fits
<1> DEFINE c == StoreSchedule(s, p)
<1>2. /\ c.kind = s.kind /\ c.grace = (IF p.grace = Null THEN s.grace ELSE p.grace)
      /\ c.period = (IF p.period = Null THEN s.period ELSE p.period)
      /\ c.cron = (IF p.cron = 0 THEN s.cron ELSE p.cron)
  BY <1>1 DEF StoreSchedule, Coalesce
<1> HIDE DEF c
<1>3. p.cron \in Nat /\ p.grace \in Time /\ p.period \in Time
  BY <1>1 DEF Patch
<1>4. Validate(c)
  BY <1>2, <1>3 DEF Fits, Validate, Time, Null, Schedule
<1> QED BY <1>2, <1>4 DEF c

(* Every row's schedule validates, the blank ones included, and every      *)
(* patch in flight fits the row it is for, whatever was committed since    *)
(* the handler read it.                                                    *)
ScheduleInv ==
    /\ \A m \in Monitors : Validate(mon[m].schedule)
    /\ \A r \in Requests : req[r].pc = "patch" =>
         /\ status[req[r].m] # "unborn"
         /\ Stored(req[r].m) => Fits(req[r].patch, mon[req[r].m].schedule.kind)

LEMMA ScheduleInvHolds ==
    ASSUME KindsKept
    PROVE  Spec => []ScheduleInv
<1>1. Init => ScheduleInv
  <2>1. Validate(Blank.schedule)
    BY ConstantsAssumption DEF Blank, NewRow
  <2> QED BY <2>1 DEF Init, ScheduleInv, Idle
<1>2. TypeOK /\ ScheduleInv /\ [Next]_vars => ScheduleInv'
  <2> SUFFICES ASSUME TypeOK, ScheduleInv, [Next]_vars PROVE ScheduleInv'
    OBVIOUS
  <2>1. ASSUME NEW m \in Monitors
        PROVE  /\ mon[m].schedule \in Schedule /\ Validate(mon'[m].schedule)
               /\ Stored(m) /\ Stored(m)' => mon'[m].schedule.kind = mon[m].schedule.kind
    <3>1. mon[m].schedule \in Schedule /\ Validate(mon[m].schedule)
      BY DEF TypeOK, Row, ScheduleInv
    <3>2. CASE mon'[m].schedule = mon[m].schedule
      BY <3>1, <3>2
    <3>3. CASE /\ mon'[m].schedule \in Configs
               /\ status[m] = "unborn" \/ status'[m] = "deleted"
      BY <3>1, <3>3, ConstantsAssumption DEF Stored
    <3>4. ASSUME NEW r \in Requests, req[r].pc = "patch", req[r].m = m, Stored(m),
                 mon'[m].schedule = StoreSchedule(mon[m].schedule, req[r].patch)
          PROVE  Validate(mon'[m].schedule) /\ mon'[m].schedule.kind = mon[m].schedule.kind
      <4>1. Fits(req[r].patch, mon[m].schedule.kind)
        BY <3>4 DEF ScheduleInv
      <4> QED BY <3>1, <3>4, <4>1, FitsAnyRow
    <3> QED BY <3>1, <3>2, <3>3, <3>4, ScheduleMoves
  <2>2. ASSUME NEW r \in Requests, req'[r].pc = "patch"
        PROVE  /\ status'[req'[r].m] # "unborn"
               /\ status'[req'[r].m] = "stored" => Fits(req'[r].patch, mon'[req'[r].m].schedule.kind)
    <3>1. CASE req'[r] = req[r]
      <4>1. PICK m \in Monitors : req[r].m = m /\ req'[r].m = m /\ req'[r].patch = req[r].patch
        BY <2>2, <3>1, JobShape DEF TypeOK
      <4>2. status[m] # "unborn" /\ (Stored(m) => Fits(req[r].patch, mon[m].schedule.kind))
        BY <2>2, <3>1, <4>1 DEF ScheduleInv
      <4>3. status'[m] # "unborn" /\ (Stored(m)' => Stored(m))
        BY <4>1, <4>2, StatusMoves DEF TypeOK, Stored
      <4> QED BY <2>1, <4>1, <4>2, <4>3 DEF Stored
    <3>2. ASSUME NEW m \in Monitors, NEW p \in Patches, UpdateRead(r, m, p)
          PROVE  /\ status'[req'[r].m] # "unborn"
                 /\ status'[req'[r].m] = "stored" => Fits(req'[r].patch, mon'[req'[r].m].schedule.kind)
      <4>1. /\ req'[r].m = m /\ req'[r].patch = p /\ status[m] = "stored"
            /\ status' = status /\ mon' = mon
            /\ ScheduleFieldsSet(p) => Validate(MergeScheduleConfig(mon[m].schedule, p))
        BY <3>2 DEF UpdateRead, Stored, TypeOK
      <4>2. Fits(p, mon[m].schedule.kind)
        BY <2>1, <4>1, ValidatedFits
      <4> QED BY <4>1, <4>2
    <3> QED BY <2>2, <3>1, <3>2, PatchMoves
  <2> QED BY <2>1, <2>2 DEF ScheduleInv, Stored
<1> QED BY <1>1, <1>2, TypeCorrect, PTL DEF Spec

(* Stored schedules validate, so the next ping can always compute a        *)
(* deadline, although every PATCH is validated against a row that other    *)
(* PATCHes change before it commits: the columns of one kind do not        *)
(* constrain each other.  A PATCH that sets the kind leaves the other      *)
(* column behind (TLC finds the schedule that does not validate), and so   *)
(* does one that sets both columns.                                        *)
THEOREM SchedulesStayValid ==
    ASSUME KindsKept
    PROVE  Spec => []StoredScheduleValidates
<1>1. ScheduleInv => StoredScheduleValidates
  BY DEF ScheduleInv, StoredScheduleValidates
<1> QED BY <1>1, ScheduleInvHolds, PTL

(* If no PATCH sets a schedule field, the schedule of a monitor is the one *)
(* it was created with.                                                    *)
LEMMA FixedMoves ==
    ASSUME SchedulesFixed, TypeOK, ScheduleInv, [Next]_vars, NEW m \in Monitors
    PROVE  \/ mon'[m].schedule = mon[m].schedule
           \/ /\ mon'[m].schedule \in Configs
              /\ \/ status[m] = "unborn" /\ status'[m] = "stored" /\ checkins'[m] = checkins[m]
                 \/ status'[m] = "deleted" /\ checkins'[m] = {}
<1>1. ASSUME NEW r \in Requests, req[r].pc = "patch", req[r].m = m, Stored(m),
             mon'[m].schedule = StoreSchedule(mon[m].schedule, req[r].patch)
      PROVE  mon'[m].schedule = mon[m].schedule
  <2>1. req[r].patch \in Patches /\ mon[m].schedule \in Schedule
    BY <1>1 DEF ScheduleInv, Fits, TypeOK, Row
  <2>2. ASSUME NEW s \in Schedule, NEW p \in Patches PROVE StoreSchedule(s, p) = s
    BY DEF SchedulesFixed, ScheduleFieldsSet, StoreSchedule, Coalesce, Schedule
  <2> QED BY <1>1, <2>1, <2>2
<1> QED BY <1>1, ScheduleMoves

LEMMA FixedKeepsKinds == SchedulesFixed => KindsKept
BY DEF SchedulesFixed, KindsKept, ScheduleFieldsSet

----------------------------------------------------------------------------
(* Lateness.  Two pings in flight may commit in the other order than they  *)
(* arrived, and the deadline then follows the older one, so this is about  *)
(* requests one after another; schedulers and replicas interleave freely.  *)

OneRequest == \A q, r \in Requests : q = r

(* Later check-ins have later deadlines.                                   *)
LEMMA DivGrows ==
    ASSUME NEW a \in Nat, NEW b \in Nat, NEW c \in Nat, c > 0, a =< b
    PROVE  a \div c \in Nat /\ b \div c \in Nat /\ a \div c =< b \div c
<1> DEFINE x == a \div c
           y == b \div c
<1>1. x \in Nat /\ x * c =< a /\ y \in Nat /\ b < (y + 1) * c
  BY SMTT(20)
<1> HIDE DEF x, y
<1>2. x * c < (y + 1) * c
  BY <1>1, SMTT(20)
<1>3. x < y + 1
  BY <1>1, <1>2, SMTT(20)
<1> QED BY <1>1, <1>3 DEF x, y

LEMMA NextOccurrenceGrows ==
    ASSUME NEW s \in Schedule, Validate(s), NEW a \in Nat, NEW b \in Nat, a =< b
    PROVE  NextOccurrence(s, a) =< NextOccurrence(s, b)
<1>1. CASE s.kind = "period"
  BY <1>1 DEF NextOccurrence, Schedule
<1>2. CASE s.kind = "cron"
  <2> DEFINE c == s.cron
             x == (a \div c) + 1
             y == (b \div c) + 1
  <2>1. c \in Nat /\ c > 0
    BY <1>2 DEF Schedule, Validate
  <2>2. x \in Nat /\ y \in Nat /\ x =< y
    <3> HIDE DEF c
    <3>1. a \div c \in Nat /\ b \div c \in Nat /\ a \div c =< b \div c
      BY <2>1, DivGrows
    <3> QED BY <3>1
  <2>3. NextOccurrence(s, a) = x * c /\ NextOccurrence(s, b) = y * c
    BY <1>2 DEF NextOccurrence
  <2> HIDE DEF c, x, y
  <2>4. x * c =< y * c
    BY <2>1, <2>2, SMTT(20)
  <2> QED BY <2>3, <2>4
<1> QED BY <1>1, <1>2 DEF Schedule

(* Check-ins and claims are of the past, and a ping in flight is the       *)
(* latest of its monitor.                                                  *)
PastInv ==
    /\ \A m \in Monitors : ~Stored(m) => checkins[m] = {}
    /\ \A m \in Monitors : \A c \in checkins[m] : c.at =< clock
    /\ \A r \in Requests : req[r].pc \in {"ping", "locked"} =>
         /\ req[r].now =< clock
         /\ \A c \in checkins[req[r].m] : c.at =< req[r].now
    /\ \A s \in Schedulers, m \in Monitors :
         claim[s][m] # Unclaimed => claim[s][m].deadline < clock

LEMMA PastStep ==
    ASSUME OneRequest, TypeOK, DecisionsAreCurrent, PastInv, [Next]_vars
    PROVE  PastInv'
<1> USE DEF TypeOK
<1>1. CASE Tick
  <2>1. clock' = clock + 1 /\ clock \in Nat
    BY <1>1 DEF Tick
  <2>2. UNCHANGED <<status, checkins, req, claim>>
    BY <1>1 DEF Tick
  <2>3. \A m \in Monitors : \A c \in checkins[m] : c.at \in Nat
    BY DEF Checkin
  <2>4. \A r \in Requests : req[r].pc \in {"ping", "locked"} => req[r].now \in Nat
    BY JobShape
  <2>5. \A s \in Schedulers, m \in Monitors :
          claim[s][m] # Unclaimed => claim[s][m].deadline \in Int
    BY DEF Row, Time, Null
  <2> QED BY <2>1, <2>2, <2>3, <2>4, <2>5 DEF PastInv, Stored
<1>2. ASSUME NEW m \in Monitors, NEW s \in Configs, NEW a \in BOOLEAN, CreateMonitor(m, s, a)
      PROVE  PastInv'
  BY <1>2 DEF CreateMonitor, PastInv, Stored
<1>3. ASSUME NEW m \in Monitors, DeleteMonitor(m)
      PROVE  PastInv'
  <2>1. \A n \in Monitors : checkins'[n] \subseteq checkins[n]
    BY <1>3 DEF DeleteMonitor
  <2>2. \A n \in Monitors : ~Stored(n)' => checkins'[n] = {}
    BY <1>3 DEF DeleteMonitor, PastInv, Stored
  <2>3. UNCHANGED <<clock, req, claim>>
    BY <1>3 DEF DeleteMonitor
  <2>4. \A r \in Requests : req[r].pc \in {"ping", "locked"} => req[r].m \in Monitors
    BY JobShape
  <2> QED BY <2>1, <2>2, <2>3, <2>4 DEF PastInv
<1>4. ASSUME NEW m \in Monitors, PauseMonitor(m)
      PROVE  PastInv'
  BY <1>4 DEF PauseMonitor, PastInv, Stored
<1>5. ASSUME NEW r \in Requests, UNCHANGED <<clock, status, checkins, claim>>,
             \/ req'[r].pc \notin {"ping", "locked"}
             \/ /\ req[r].pc \in {"ping", "locked"}
                /\ req'[r].m = req[r].m /\ req'[r].now = req[r].now
      PROVE  PastInv'
  <2>1. \A q \in Requests : q = r
    BY DEF OneRequest
  <2> QED BY <1>5, <2>1 DEF PastInv, Stored
<1>6. ASSUME NEW r \in Requests, NEW m \in Monitors, ResumeRead(r, m)
      PROVE  PastInv'
  <2>1. req'[r].pc = "resume"
    BY <1>6 DEF ResumeRead
  <2> QED BY <1>5, <1>6, <2>1 DEF ResumeRead
<1>7. ASSUME NEW r \in Requests, NEW m \in Monitors, NEW p \in Patches, UpdateRead(r, m, p)
      PROVE  PastInv'
  <2>1. req'[r].pc = "patch"
    BY <1>7 DEF UpdateRead
  <2> QED BY <1>5, <1>7, <2>1 DEF UpdateRead
<1>8. ASSUME NEW r \in Requests, NEW m \in Monitors, NEW k \in Kind, PingArrives(r, m, k)
      PROVE  PastInv'
  <2>1. /\ req'[r].m = m /\ req'[r].now = clock
        /\ UNCHANGED <<clock, status, checkins, claim>>
    BY <1>8 DEF PingArrives
  <2>2. \A q \in Requests : q = r
    BY DEF OneRequest
  <2> QED BY <2>1, <2>2 DEF PastInv, Stored
<1>9. ASSUME NEW r \in Requests, PingLocks(r)
      PROVE  PastInv'
  <2>1. req'[r].m = req[r].m /\ req'[r].now = req[r].now /\ req[r].pc = "ping"
    BY <1>9 DEF PingLocks
  <2> QED BY <1>5, <1>9, <2>1 DEF PingLocks
<1>10. ASSUME NEW r \in Requests, StartCommit(r) \/ ApplySuccess(r) \/ ApplyFail(r)
       PROVE  PastInv'
  <2>1. /\ req[r].pc = "locked" /\ InsertCheckin(req[r]) /\ Finish(r)
        /\ UNCHANGED <<clock, status, claim>>
    BY <1>10 DEF StartCommit, ApplySuccess, ApplyFail
  <2>2. req[r].m \in Monitors /\ req[r].now =< clock /\ status[req[r].m] = "stored"
    BY <2>1, JobShape DEF PastInv, DecisionsAreCurrent, Stored
  <2>3. req'[r].pc = "idle" /\ \A q \in Requests : q = r
    BY <2>1 DEF Finish, Idle, OneRequest
  <2>4. \A m \in Monitors : m # req[r].m => checkins'[m] = checkins[m]
    BY <2>1 DEF InsertCheckin
  <2>5. \A c \in checkins'[req[r].m] : c \in checkins[req[r].m] \/ c.at = req[r].now
    BY <2>1, <2>2 DEF InsertCheckin
  <2> QED BY <2>1, <2>2, <2>3, <2>4, <2>5 DEF PastInv, Stored
<1>11. ASSUME NEW r \in Requests, ResumeCommit(r) \/ UpdateCommit(r) \/ RequestAborts(r)
       PROVE  PastInv'
  <2>1. Finish(r) /\ UNCHANGED <<clock, status, checkins, claim>>
    BY <1>11 DEF ResumeCommit, UpdateCommit, RequestAborts
  <2>2. req'[r].pc = "idle"
    BY <2>1 DEF Finish, Idle
  <2> QED BY <1>5, <2>1, <2>2
<1>12. ASSUME NEW s \in Schedulers, Claim(s)
       PROVE  PastInv'
  <2>1. PICK rows \in SUBSET {m \in Monitors : Due(m) /\ Unlocked(m)} :
          claim' = [claim EXCEPT ![s] =
               [m \in Monitors |-> IF m \in rows THEN mon[m] ELSE Unclaimed]]
    BY <1>12 DEF Claim
  <2>2. \A m \in rows : mon[m].deadline < clock
    BY DEF Due
  <2>3. UNCHANGED <<clock, status, checkins, req>>
    BY <1>12 DEF Claim
  <2>4. \A t \in Schedulers, m \in Monitors : claim'[t][m] # Unclaimed =>
          claim'[t][m] = claim[t][m] \/ (m \in rows /\ claim'[t][m] = mon[m])
    BY <2>1
  <2>5. \A t \in Schedulers, m \in Monitors :
          claim'[t][m] # Unclaimed => claim'[t][m].deadline < clock'
    BY <2>2, <2>3, <2>4 DEF PastInv
  <2> QED BY <2>3, <2>5 DEF PastInv, Stored
<1>13. ASSUME NEW s \in Schedulers, EvaluateDueMonitors(s) \/ SchedulerAborts(s)
       PROVE  PastInv'
  <2>1. claim' = [claim EXCEPT ![s] = NoRows] /\ UNCHANGED <<clock, status, checkins, req>>
    BY <1>13 DEF EvaluateDueMonitors, SchedulerAborts
  <2>2. \A t \in Schedulers, m \in Monitors :
          claim'[t][m] # Unclaimed => claim'[t][m] = claim[t][m]
    BY <2>1 DEF NoRows
  <2> QED BY <2>1, <2>2 DEF PastInv, Stored
<1>14. CASE UNCHANGED vars
  BY <1>14 DEF vars, PastInv, Stored
<1> QED
  BY <1>1, <1>2, <1>3, <1>4, <1>6, <1>7, <1>8, <1>9, <1>10, <1>11, <1>12, <1>13, <1>14
  DEF Next, RequestStep

(* The occurrence after every successful check-in of cs is at most t.      *)
Covered(cs, schedule, t) ==
    \A c \in cs : c.kind = "success" => NextOccurrence(schedule, c.at) =< t

(* The deadline of a monitor that is up, and of a resume in flight, covers *)
(* every check-in; a late monitor is late by all of them.                  *)
PromiseInv ==
    /\ \A m \in Monitors : Stored(m) /\ mon[m].state = "up" =>
         Covered(checkins[m], mon[m].schedule, mon[m].deadline)
    /\ \A m \in Monitors : Stored(m) /\ mon[m].state = "late" =>
         Covered(checkins[m], mon[m].schedule, clock - 1)
    /\ \A r \in Requests : req[r].pc = "resume" =>
         Covered(checkins[req[r].m], mon[req[r].m].schedule, req[r].deadline)

(* Without a new check-in, what a time covers it goes on covering.         *)
LEMMA CoverKept ==
    ASSUME SchedulesFixed, TypeOK, ScheduleInv, PastInv, [Next]_vars, NEW m \in Monitors,
           \A c \in checkins'[m] : c.kind = "success" => c \in checkins[m],
           NEW t, Covered(checkins[m], mon[m].schedule, t)
    PROVE  Covered(checkins'[m], mon'[m].schedule, t)
<1>1. mon'[m].schedule = mon[m].schedule \/ checkins'[m] = {}
  BY FixedMoves DEF ScheduleInv, PastInv, Stored
<1> QED BY <1>1 DEF Covered

(* Steps that arm no deadline and make nothing late.                       *)
LEMMA QuietStep ==
    ASSUME SchedulesFixed, TypeOK, ScheduleInv, PastInv, PromiseInv, [Next]_vars,
           clock' = clock,
           \A m \in Monitors : \A c \in checkins'[m] : c.kind = "success" => c \in checkins[m],
           \A m \in Monitors : status'[m] = "stored" =>
             \/ mon'[m].state \notin {"up", "late"}
             \/ /\ status[m] = "stored"
                /\ mon'[m].state = mon[m].state /\ mon'[m].deadline = mon[m].deadline,
           \A r \in Requests : req'[r].pc = "resume" => req'[r] = req[r]
    PROVE  PromiseInv'
<1>1. \A m \in Monitors : \A t : Covered(checkins[m], mon[m].schedule, t) =>
                                 Covered(checkins'[m], mon'[m].schedule, t)
  BY CoverKept
<1>2. \A r \in Requests : req[r].pc = "resume" => req[r].m \in Monitors
  BY JobShape DEF TypeOK
<1> QED BY <1>1, <1>2 DEF PromiseInv, Stored

(* A time not before any check-in has an occurrence that covers them all.  *)
LEMMA OccurrenceCovers ==
    ASSUME NEW cs \in SUBSET Checkin, NEW s \in Schedule, Validate(s), NEW now \in Nat,
           \A c \in cs : c.at =< now
    PROVE  Covered(cs, s, NextOccurrence(s, now))
<1> SUFFICES ASSUME NEW c \in cs PROVE NextOccurrence(s, c.at) =< NextOccurrence(s, now)
  BY DEF Covered
<1>1. c.at \in Nat /\ c.at =< now
  BY DEF Checkin
<1> QED BY <1>1, NextOccurrenceGrows

LEMMA OccurrenceType ==
    ASSUME NEW s \in Schedule, Validate(s), NEW now \in Nat
    PROVE  NextOccurrence(s, now) \in Nat
<1>1. CASE s.kind = "period"
  BY <1>1 DEF NextOccurrence, Schedule
<1>2. CASE s.kind = "cron"
  <2>1. s.cron \in Nat /\ s.cron > 0
    BY <1>2 DEF Schedule, Validate
  <2>2. now \div s.cron \in Nat
    BY <2>1, DivGrows
  <2> QED BY <1>2, <2>1, <2>2 DEF NextOccurrence
<1> QED BY <1>1, <1>2 DEF Schedule

LEMMA PromiseStep ==
    ASSUME SchedulesFixed, OneRequest, TypeOK, DecisionsAreCurrent, ScheduleInv, PastInv,
           PromiseInv, [Next]_vars
    PROVE  PromiseInv'
<1> USE DEF TypeOK
<1>1. CASE Tick
  <2>1. UNCHANGED <<status, mon, checkins, req>> /\ clock' = clock + 1 /\ clock \in Nat
    BY <1>1 DEF Tick
  <2>2. \A m \in Monitors : \A c \in checkins[m] : NextOccurrence(mon[m].schedule, c.at) \in Nat
    BY OccurrenceType DEF ScheduleInv, Row, Checkin
  <2>3. \A m \in Monitors : Covered(checkins[m], mon[m].schedule, clock - 1) =>
                            Covered(checkins[m], mon[m].schedule, clock)
    BY <2>1, <2>2 DEF Covered
  <2>4. clock' - 1 = clock
    BY <2>1
  <2> QED BY <2>1, <2>3, <2>4 DEF PromiseInv, Stored
<1>2. ASSUME NEW m \in Monitors, NEW s \in Configs, NEW a \in BOOLEAN, CreateMonitor(m, s, a)
      PROVE  PromiseInv'
  <2>1. clock' = clock /\ checkins' = checkins /\ req' = req
    BY <1>2 DEF CreateMonitor
  <2>2. mon'[m].state = "new"
    BY <1>2 DEF CreateMonitor, NewRow
  <2>3. \A n \in Monitors : n # m => mon'[n] = mon[n] /\ status'[n] = status[n]
    BY <1>2 DEF CreateMonitor
  <2> QED BY <2>1, <2>2, <2>3, QuietStep
<1>3. ASSUME NEW m \in Monitors, DeleteMonitor(m)
      PROVE  PromiseInv'
  <2>1. clock' = clock /\ req' = req /\ status'[m] = "deleted"
    BY <1>3 DEF DeleteMonitor
  <2>2. \A n \in Monitors : n # m => mon'[n] = mon[n] /\ status'[n] = status[n]
    BY <1>3 DEF DeleteMonitor
  <2>3. \A n \in Monitors : checkins'[n] \subseteq checkins[n]
    BY <1>3 DEF DeleteMonitor
  <2> QED BY <2>1, <2>2, <2>3, QuietStep
<1>4. ASSUME NEW m \in Monitors, PauseMonitor(m)
      PROVE  PromiseInv'
  <2>1. clock' = clock /\ req' = req /\ status' = status /\ checkins' = checkins
    BY <1>4 DEF PauseMonitor
  <2>2. \A n \in Monitors : mon'[n].state = mon[n].state /\ mon'[n].deadline = mon[n].deadline
    BY <1>4 DEF PauseMonitor, Row
  <2> QED BY <2>1, <2>2, QuietStep
<1>5. ASSUME NEW r \in Requests, NEW m \in Monitors, ResumeRead(r, m)
      PROVE  PromiseInv'
  <2>1. /\ UNCHANGED <<clock, status, mon, checkins>> /\ req'[r].m = m
        /\ req'[r].deadline = NextOccurrence(mon[m].schedule, clock)
    BY <1>5 DEF ResumeRead
  <2>2. \A q \in Requests : q = r
    BY DEF OneRequest
  <2>3. Covered(checkins[m], mon[m].schedule, NextOccurrence(mon[m].schedule, clock))
    BY OccurrenceCovers DEF ScheduleInv, PastInv, Row
  <2> QED BY <2>1, <2>2, <2>3 DEF PromiseInv, Stored
<1>6. ASSUME UNCHANGED <<clock, status, mon, checkins>>,
             \A r \in Requests : req'[r].pc = "resume" => req'[r] = req[r]
      PROVE  PromiseInv'
  BY <1>6, QuietStep
<1>7. ASSUME NEW r \in Requests, NEW m \in Monitors, NEW p \in Patches, UpdateRead(r, m, p)
      PROVE  PromiseInv'
  BY <1>6, <1>7 DEF UpdateRead
<1>8. ASSUME NEW r \in Requests, NEW m \in Monitors, NEW k \in Kind, PingArrives(r, m, k)
      PROVE  PromiseInv'
  BY <1>6, <1>8 DEF PingArrives
<1>9. ASSUME NEW r \in Requests, PingLocks(r)
      PROVE  PromiseInv'
  BY <1>6, <1>9 DEF PingLocks
<1>10. ASSUME NEW r \in Requests, StartCommit(r)
       PROVE  PromiseInv'
  <2>1. UNCHANGED <<clock, status, mon>> /\ InsertCheckin(req[r]) /\ Finish(r)
        /\ req[r].kind = "start"
    BY <1>10 DEF StartCommit
  <2>2. \A m \in Monitors : \A c \in checkins'[m] : c \in checkins[m] \/ c.kind = "start"
    BY <2>1 DEF InsertCheckin
  <2>3. \A q \in Requests : req'[q].pc = "resume" => req'[q] = req[q]
    BY <2>1 DEF Finish, Idle
  <2> QED BY <2>1, <2>2, <2>3, QuietStep
<1>11. ASSUME NEW r \in Requests, ApplyFail(r)
       PROVE  PromiseInv'
  <2>1. UNCHANGED <<clock, status>> /\ InsertCheckin(req[r]) /\ Finish(r) /\ req[r].kind = "fail"
    BY <1>11 DEF ApplyFail
  <2>2. \A m \in Monitors : \A c \in checkins'[m] : c \in checkins[m] \/ c.kind = "fail"
    BY <2>1 DEF InsertCheckin
  <2>3. \A q \in Requests : req'[q].pc = "resume" => req'[q] = req[q]
    BY <2>1 DEF Finish, Idle
  <2>4. \A m \in Monitors : mon'[m] = mon[m] \/ mon'[m].state = "down"
    BY <1>11 DEF ApplyFail, UpdateOnCheckin, Row
  <2> QED BY <2>1, <2>2, <2>3, <2>4, QuietStep
<1>12. ASSUME NEW r \in Requests, ApplySuccess(r)
       PROVE  PromiseInv'
  <2> DEFINE j == req[r]
             d == NextOccurrence(j.row.schedule, j.now)
  <2>1. /\ UNCHANGED <<clock, status>> /\ InsertCheckin(j) /\ Finish(r) /\ j.pc = "locked"
        /\ mon' = [mon EXCEPT ![j.m] = UpdateOnCheckin(@, "up", j.now, d, 0)]
    BY <1>12 DEF ApplySuccess
  <2>2. /\ j.m \in Monitors /\ j.now \in Nat /\ j.row = mon[j.m]
        /\ \A c \in checkins[j.m] : c.at =< j.now
    BY <2>1, JobShape DEF PastInv, DecisionsAreCurrent
  <2> HIDE DEF d
  <2>3. \A row \in Row : \A n : /\ UpdateOnCheckin(row, "up", n, d, 0).state = "up"
                                /\ UpdateOnCheckin(row, "up", n, d, 0).deadline = d
                                /\ UpdateOnCheckin(row, "up", n, d, 0).schedule = row.schedule
    BY DEF UpdateOnCheckin, Row
  <2>4. /\ mon'[j.m].state = "up" /\ mon'[j.m].deadline = d
        /\ mon'[j.m].schedule = j.row.schedule
    BY <2>1, <2>2, <2>3
  <2>5. checkins'[j.m] \in SUBSET Checkin /\ \A c \in checkins'[j.m] : c.at =< j.now
    <3>1. checkins'[j.m] = checkins[j.m] \cup {[kind |-> j.kind, at |-> j.now]}
      BY <2>1, <2>2 DEF InsertCheckin
    <3>2. [kind |-> j.kind, at |-> j.now] \in Checkin
      BY <2>1, CheckinFields, JobShape DEF Checkin
    <3> QED BY <2>2, <3>1, <3>2
  <2>6. Covered(checkins'[j.m], j.row.schedule, d)
    <3>1. j.row.schedule \in Schedule /\ Validate(j.row.schedule)
      BY <2>2 DEF ScheduleInv, Row
    <3> QED BY <2>2, <2>5, <3>1, OccurrenceCovers DEF d
  <2>7. \A m \in Monitors : m # j.m => checkins'[m] = checkins[m] /\ mon'[m] = mon[m]
    BY <2>1 DEF InsertCheckin
  <2>8. \A q \in Requests : req'[q].pc # "resume"
    BY <2>1 DEF OneRequest, Finish, Idle
  <2> HIDE DEF j
  <2> QED BY <2>1, <2>4, <2>6, <2>7, <2>8 DEF PromiseInv, Stored
<1>13. ASSUME NEW r \in Requests, ResumeCommit(r)
       PROVE  PromiseInv'
  <2> DEFINE m == req[r].m
             d == req[r].deadline
  <2>1. /\ UNCHANGED <<clock, status, checkins>> /\ Finish(r) /\ req[r].pc = "resume"
        /\ mon' = [mon EXCEPT ![m] = ResumeRow(@, d)]
    BY <1>13 DEF ResumeCommit
  <2>2. m \in Monitors /\ Covered(checkins[m], mon[m].schedule, d)
    BY <2>1, JobShape DEF PromiseInv
  <2> HIDE DEF m, d
  <2>3. \A row \in Row : /\ ResumeRow(row, d).state = "up" /\ ResumeRow(row, d).deadline = d
                         /\ ResumeRow(row, d).schedule = row.schedule
    BY DEF ResumeRow, Row
  <2>4. mon'[m].state = "up" /\ mon'[m].deadline = d /\ mon'[m].schedule = mon[m].schedule
    BY <2>1, <2>2, <2>3
  <2>5. \A n \in Monitors : n # m => mon'[n] = mon[n]
    BY <2>1
  <2>6. \A q \in Requests : req'[q].pc # "resume"
    BY <2>1 DEF OneRequest, Finish, Idle
  <2> QED BY <2>1, <2>2, <2>4, <2>5, <2>6 DEF PromiseInv, Stored
<1>14. ASSUME NEW r \in Requests, UpdateCommit(r)
       PROVE  PromiseInv'
  <2>1. UNCHANGED <<clock, status, checkins>> /\ Finish(r)
    BY <1>14 DEF UpdateCommit
  <2>2. \A row \in Row : \A p : /\ UpdateRow(row, p).state = row.state
                                /\ UpdateRow(row, p).deadline = row.deadline
    BY DEF UpdateRow, Row
  <2>3. \A m \in Monitors : mon'[m].state = mon[m].state /\ mon'[m].deadline = mon[m].deadline
    BY <1>14, <2>2 DEF UpdateCommit
  <2>4. \A q \in Requests : req'[q].pc = "resume" => req'[q] = req[q]
    BY <2>1 DEF Finish, Idle
  <2> QED BY <2>1, <2>3, <2>4, QuietStep
<1>15. ASSUME NEW r \in Requests, RequestAborts(r)
       PROVE  PromiseInv'
  <2>1. UNCHANGED <<clock, status, mon, checkins>> /\ Finish(r)
    BY <1>15 DEF RequestAborts
  <2> QED BY <1>6, <2>1 DEF Finish, Idle
<1>16. ASSUME NEW s \in Schedulers, Claim(s) \/ SchedulerAborts(s)
       PROVE  PromiseInv'
  BY <1>6, <1>16 DEF Claim, SchedulerAborts
<1>17. ASSUME NEW s \in Schedulers, EvaluateDueMonitors(s)
       PROVE  PromiseInv'
  <2>1. UNCHANGED <<clock, status, checkins, req>>
    BY <1>17 DEF EvaluateDueMonitors
  <2>2. ASSUME NEW m \in Monitors, claim[s][m] # Unclaimed, mon[m].state = "up"
        PROVE  Covered(checkins[m], mon[m].schedule, clock - 1)
    <3>1. /\ mon[m].deadline < clock /\ Stored(m)
          /\ Covered(checkins[m], mon[m].schedule, mon[m].deadline)
      BY <2>2 DEF PastInv, DecisionsAreCurrent, PromiseInv
    <3>2. mon[m].deadline \in Int /\ clock \in Nat
      BY DEF Row, Time, Null
    <3>3. \A c \in checkins[m] : NextOccurrence(mon[m].schedule, c.at) \in Nat
      BY OccurrenceType DEF ScheduleInv, Row, Checkin
    <3> QED BY <3>1, <3>2, <3>3 DEF Covered
  <2>3. \A row \in Row : \A seen :
          /\ EvaluateRow(seen, row).schedule = row.schedule
          /\ EvaluateRow(seen, row).state = IF seen.state = "up" THEN "late" ELSE "down"
    BY DEF EvaluateRow, Row
  <2>4. ASSUME NEW m \in Monitors
        PROVE  /\ mon'[m].schedule = mon[m].schedule
               /\ \/ mon'[m] = mon[m]
                  \/ mon'[m].state = "down"
                  \/ mon'[m].state = "late" /\ claim[s][m] # Unclaimed /\ mon[m].state = "up"
    <3>1. CASE claim[s][m] = Unclaimed
      BY <1>17, <3>1 DEF EvaluateDueMonitors
    <3>2. CASE claim[s][m] # Unclaimed
      <4>1. mon'[m] = EvaluateRow(mon[m], mon[m])
        BY <1>17, <3>2 DEF EvaluateDueMonitors, DecisionsAreCurrent
      <4>2. mon[m] \in Row
        OBVIOUS
      <4>3. /\ mon'[m].schedule = mon[m].schedule
            /\ mon'[m].state = IF mon[m].state = "up" THEN "late" ELSE "down"
        BY <2>3, <4>1, <4>2
      <4> QED BY <3>2, <4>3
    <3> QED BY <3>1, <3>2
  <2>5. \A r \in Requests : req[r].pc = "resume" => req[r].m \in Monitors
    BY JobShape
  <2> QED BY <2>1, <2>2, <2>4, <2>5 DEF PromiseInv, Stored
<1>18. CASE UNCHANGED vars
  BY <1>6, <1>18 DEF vars
<1> QED
  BY <1>1, <1>2, <1>3, <1>4, <1>5, <1>7, <1>8, <1>9, <1>10, <1>11, <1>12, <1>13, <1>14, <1>15,
     <1>16, <1>17, <1>18
  DEF Next, RequestStep

(* No monitor is late before the occurrence that follows each of its       *)
(* successful check-ins has passed, whatever the schedulers interleave,    *)
(* when requests come one after another and no PATCH moves a schedule.     *)
THEOREM LateIsLate ==
    ASSUME SchedulesFixed, OneRequest
    PROVE  Spec => []LateOnlyAfterOccurrence
<1>1. Init => PastInv /\ PromiseInv
  BY DEF Init, PastInv, PromiseInv, Stored, Idle, NoRows
<1>2. TypeOK /\ DecisionsAreCurrent /\ PastInv /\ [Next]_vars => PastInv'
  BY PastStep
<1>3. TypeOK /\ DecisionsAreCurrent /\ ScheduleInv /\ PastInv /\ PromiseInv /\ [Next]_vars
        => PromiseInv'
  BY PromiseStep
<1>4. TypeOK /\ ScheduleInv /\ PromiseInv => LateOnlyAfterOccurrence
  <2> SUFFICES ASSUME TypeOK, ScheduleInv, PromiseInv, NEW m \in Monitors, Stored(m),
                      mon[m].state = "late", NEW c \in checkins[m], c.kind = "success"
               PROVE  NextOccurrence(mon[m].schedule, c.at) < clock
    BY DEF LateOnlyAfterOccurrence
  <2>1. NextOccurrence(mon[m].schedule, c.at) =< clock - 1
    BY DEF PromiseInv, Covered
  <2>2. NextOccurrence(mon[m].schedule, c.at) \in Nat /\ clock \in Nat
    BY OccurrenceType DEF TypeOK, ScheduleInv, Row, Checkin
  <2> QED BY <2>1, <2>2
<1>5. Spec => []ScheduleInv
  BY FixedKeepsKinds, ScheduleInvHolds
<1> QED
  BY <1>1, <1>2, <1>3, <1>4, <1>5, TypeCorrect, DecisionsCurrent, PTL DEF Spec
==============================================================================
