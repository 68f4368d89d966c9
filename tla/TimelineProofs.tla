--------------------------- MODULE TimelineProofs ----------------------------
(***************************************************************************)
(* Heartbeat implements Timeline, for any number of monitors, requests and *)
(* scheduler replicas.  The proof rests on DecisionsAreCurrent (what a     *)
(* ping or a tick decides on is the stored row) and on the outbox naming   *)
(* events that exist.                                                      *)
(***************************************************************************)
EXTENDS HeartbeatProofs, SequenceTheorems

----------------------------------------------------------------------------
(* What the two ways to write a log do to the notices in it.               *)

(* Every outbox row names an event of the log.                             *)
NamesEvents(l) == \A j \in DOMAIN l.alerts : l.alerts[j] \in 1 .. Len(l.events)

(* The notices of such a log are a sequence of event types.                *)
LEMMA NoticesType ==
    ASSUME NEW l \in Log, NamesEvents(l)
    PROVE  /\ NoticesIn(l) \in Seq(EventType)
           /\ Len(NoticesIn(l)) = Len(l.alerts)
           /\ \A j \in 1 .. Len(l.alerts) : NoticesIn(l)[j] = l.events[l.alerts[j]]
<1>1. Len(l.alerts) \in Nat /\ DOMAIN l.alerts = 1 .. Len(l.alerts)
  BY DEF Log
<1>2. \A j \in 1 .. Len(l.alerts) : l.events[l.alerts[j]] \in EventType
  BY <1>1 DEF Log, NamesEvents
<1>3. NoticesIn(l) = [j \in 1 .. Len(l.alerts) |-> l.events[l.alerts[j]]]
  BY <1>1 DEF NoticesIn
<1>4. NoticesIn(l) \in [1 .. Len(l.alerts) -> EventType]
  BY <1>2, <1>3
<1>5. NoticesIn(l) \in Seq(EventType)
  BY <1>1, <1>4, SeqDef
<1> QED BY <1>1, <1>3, <1>5

(* An event without an outbox row leaves the notices alone.                *)
LEMMA EventNotices ==
    ASSUME NEW l \in Log, NEW t \in EventType, NamesEvents(l)
    PROVE  NamesEvents(RecordEvent(l, t)) /\ NoticesIn(RecordEvent(l, t)) = NoticesIn(l)
<1> DEFINE k == RecordEvent(l, t)
<1>1. k.alerts = l.alerts /\ k.events = Append(l.events, t)
  BY DEF RecordEvent, Log
<1>2. /\ Len(l.events) \in Nat /\ Len(k.events) = Len(l.events) + 1
      /\ \A i \in 1 .. Len(l.events) : k.events[i] = l.events[i]
  BY <1>1 DEF Log
<1> HIDE DEF k
<1>3. NamesEvents(k)
  BY <1>1, <1>2 DEF NamesEvents
<1>4. NoticesIn(k) = NoticesIn(l)
  BY <1>1, <1>2 DEF NoticesIn, NamesEvents
<1> QED BY <1>3, <1>4 DEF k

(* A transition appends its own type to the notices.                       *)
LEMMA TransitionNotices ==
    ASSUME NEW l \in Log, NEW t \in {"up", "down"}, NamesEvents(l)
    PROVE  /\ NamesEvents(RecordTransition(l, t))
           /\ NoticesIn(RecordTransition(l, t)) = Append(NoticesIn(l), t)
<1> DEFINE k == RecordTransition(l, t)
           n == Len(l.events)
           q == Len(l.alerts)
<1>1. k.alerts = Append(l.alerts, n + 1) /\ k.events = Append(l.events, t) /\ k \in Log
  BY LogType DEF RecordTransition, EventType
<1>2. n \in Nat /\ Len(k.events) = n + 1 /\ k.events[n + 1] = t
      /\ \A i \in 1 .. n : k.events[i] = l.events[i]
  BY <1>1 DEF Log, EventType
<1>3. /\ q \in Nat /\ DOMAIN l.alerts = 1 .. q /\ DOMAIN k.alerts = 1 .. q + 1
      /\ Len(k.alerts) = q + 1 /\ k.alerts[q + 1] = n + 1
      /\ \A j \in 1 .. q : k.alerts[j] = l.alerts[j] /\ l.alerts[j] \in 1 .. n
  BY <1>1 DEF Log, NamesEvents
<1>4. \A j \in 1 .. q + 1 : j = q + 1 \/ j \in 1 .. q
  BY <1>3
<1> HIDE DEF k, n, q
<1>5. NamesEvents(k)
  BY <1>2, <1>3, <1>4 DEF NamesEvents
<1>6. /\ NoticesIn(l) \in Seq(EventType) /\ Len(NoticesIn(l)) = q
      /\ \A j \in 1 .. q : NoticesIn(l)[j] = l.events[l.alerts[j]]
  BY NoticesType DEF q
<1>7. /\ NoticesIn(k) \in Seq(EventType) /\ Len(NoticesIn(k)) = q + 1
      /\ \A j \in 1 .. q + 1 : NoticesIn(k)[j] = k.events[k.alerts[j]]
  BY <1>1, <1>3, <1>5, NoticesType
<1> DEFINE a == Append(NoticesIn(l), t)
<1>8. a \in Seq(EventType) /\ Len(a) = q + 1 /\ a[q + 1] = t
      /\ \A j \in 1 .. q : a[j] = NoticesIn(l)[j]
  BY <1>3, <1>6 DEF EventType
<1> HIDE DEF a
<1>9. \A j \in 1 .. q + 1 : NoticesIn(k)[j] = a[j]
  <2> SUFFICES ASSUME NEW j \in 1 .. q + 1
               PROVE  NoticesIn(k)[j] = a[j]
    OBVIOUS
  <2>1. NoticesIn(k)[j] = k.events[k.alerts[j]]
    BY <1>7
  <2>2. CASE j \in 1 .. q
    <3>1. k.events[k.alerts[j]] = l.events[l.alerts[j]]
      BY <1>2, <1>3, <2>2
    <3> QED BY <1>6, <1>8, <2>1, <2>2, <3>1
  <2>3. CASE j = q + 1
    BY <1>2, <1>3, <1>8, <2>1, <2>3
  <2> QED BY <1>4, <2>2, <2>3
<1>10. NoticesIn(k) = a
  BY <1>7, <1>8, <1>9, SeqEqual
<1> QED BY <1>5, <1>10 DEF k, a

(* A log nobody has written to has no notices.                             *)
LEMMA EmptyNotices == NamesEvents(EmptyLog) /\ NoticesIn(EmptyLog) = <<>>
BY DEF NamesEvents, NoticesIn, EmptyLog

----------------------------------------------------------------------------
(* The refinement.                                                         *)

(* The moves a step can make with one monitor.                             *)
NoMove(m) ==
    /\ PhaseOf(m)' = PhaseOf(m)
    /\ log'[m] = log[m] \/ \E t \in EventType : log'[m] = RecordEvent(log[m], t)

Move(m) ==
    \/ NoMove(m)
    \/ PhaseOf(m) = "absent" /\ PhaseOf(m)' = "ok" /\ log'[m] = log[m]
    \/ PhaseOf(m) = "ok" /\ PhaseOf(m)' = "out" /\ log'[m] = RecordTransition(log[m], "down")
    \/ PhaseOf(m) = "out" /\ PhaseOf(m)' = "ok" /\ log'[m] = RecordTransition(log[m], "up")
    \/ PhaseOf(m) = "out" /\ PhaseOf(m)' = "ok" /\ log'[m] = RecordEvent(log[m], "resume")
    \/ PhaseOf(m) \in {"ok", "out"} /\ PhaseOf(m)' = "gone" /\ log'[m] = EmptyLog

(* Every step of Heartbeat makes one of them with each monitor.            *)
LEMMA Moves ==
    ASSUME TypeOK, DecisionsAreCurrent, [Next]_vars, NEW m \in Monitors
    PROVE  Move(m)
<1> USE DEF TypeOK
<1>same. ASSUME status'[m] = status[m], mon'[m].state = mon[m].state,
                log'[m] = log[m] \/ \E t \in EventType : log'[m] = RecordEvent(log[m], t)
         PROVE  Move(m)
  BY <1>same DEF Move, NoMove, PhaseOf
<1>0. /\ mon[m].state \in State
      /\ status[m] = "stored" => PhaseOf(m) = IF mon[m].state = "down" THEN "out" ELSE "ok"
      /\ status'[m] = "stored" => PhaseOf(m)' = IF mon'[m].state = "down" THEN "out" ELSE "ok"
  BY DEF Row, PhaseOf
<1>1. ASSUME NEW n \in Monitors, NEW s \in Configs, NEW a \in BOOLEAN, CreateMonitor(n, s, a)
      PROVE  Move(m)
  <2>1. CASE m = n
    <3>1. status[m] = "unborn" /\ status'[m] = "stored" /\ log'[m] = log[m] /\ mon'[m].state = "new"
      BY <1>1, <2>1 DEF CreateMonitor, NewRow
    <3>2. PhaseOf(m) = "absent" /\ PhaseOf(m)' = "ok"
      BY <3>1 DEF PhaseOf
    <3> QED BY <3>1, <3>2 DEF Move
  <2>2. CASE m # n
    BY <1>same, <1>1, <2>2 DEF CreateMonitor
  <2> QED BY <2>1, <2>2
<1>2. ASSUME NEW n \in Monitors, DeleteMonitor(n)
      PROVE  Move(m)
  <2>1. CASE m = n
    <3>1. status[m] = "stored" /\ status'[m] = "deleted" /\ log'[m] = EmptyLog
      BY <1>2, <2>1 DEF DeleteMonitor, Stored
    <3>2. PhaseOf(m) \in {"ok", "out"} /\ PhaseOf(m)' = "gone"
      BY <1>0, <3>1 DEF PhaseOf
    <3> QED BY <3>1, <3>2 DEF Move
  <2>2. CASE m # n
    BY <1>same, <1>2, <2>2 DEF DeleteMonitor
  <2> QED BY <2>1, <2>2
<1>3. ASSUME NEW n \in Monitors, PauseMonitor(n)
      PROVE  Move(m)
  <2>1. status' = status /\ mon'[m].state = mon[m].state
    BY <1>3 DEF PauseMonitor, Row
  <2>2. log'[m] = log[m] \/ log'[m] = RecordEvent(log[m], "pause")
    BY <1>3 DEF PauseMonitor
  <2> QED BY <1>same, <2>1, <2>2 DEF EventType
<1>4. ASSUME NEW r \in Requests, ApplySuccess(r)
      PROVE  Move(m)
  <2>1. req[r].m \in Monitors /\ req[r].pc = "locked" /\ status' = status
    BY <1>4, JobShape DEF ApplySuccess
  <2>2. status[req[r].m] = "stored" /\ req[r].row = mon[req[r].m]
    BY <2>1 DEF DecisionsAreCurrent, Stored
  <2>3. CASE m = req[r].m
    <3>1. mon'[m].state = "up" /\ PhaseOf(m)' = "ok"
      BY <1>0, <1>4, <2>1, <2>2, <2>3, CheckinFields DEF ApplySuccess
    <3>2. CASE mon[m].state = "down"
      <4>1. log'[m] = RecordTransition(log[m], "up")
        BY <1>4, <2>1, <2>2, <2>3, <3>2 DEF ApplySuccess
      <4> QED BY <1>0, <2>2, <2>3, <3>1, <3>2, <4>1 DEF Move
    <3>3. CASE mon[m].state # "down"
      <4>1. log'[m] = log[m]
        BY <1>4, <2>2, <2>3, <3>3 DEF ApplySuccess
      <4> QED BY <1>0, <2>2, <2>3, <3>1, <3>3, <4>1 DEF Move, NoMove
    <3> QED BY <3>2, <3>3
  <2>4. CASE m # req[r].m
    <3>1. mon'[m] = mon[m] /\ log'[m] = log[m]
      BY <1>4, <2>4 DEF ApplySuccess
    <3> QED BY <1>same, <2>1, <3>1
  <2> QED BY <2>3, <2>4
<1>5. ASSUME NEW r \in Requests, ApplyFail(r)
      PROVE  Move(m)
  <2>1. req[r].m \in Monitors /\ req[r].pc = "locked" /\ status' = status
    BY <1>5, JobShape DEF ApplyFail
  <2>2. status[req[r].m] = "stored" /\ req[r].row = mon[req[r].m]
    BY <2>1 DEF DecisionsAreCurrent, Stored
  <2>3. CASE m = req[r].m
    <3>1. mon'[m].state = "down" /\ PhaseOf(m)' = "out"
      BY <1>0, <1>5, <2>1, <2>2, <2>3, CheckinFields DEF ApplyFail
    <3>2. CASE mon[m].state # "down"
      <4>1. log'[m] = RecordTransition(log[m], "down")
        BY <1>5, <2>1, <2>2, <2>3, <3>2 DEF ApplyFail
      <4> QED BY <1>0, <2>2, <2>3, <3>1, <3>2, <4>1 DEF Move
    <3>3. CASE mon[m].state = "down"
      <4>1. log'[m] = log[m]
        BY <1>5, <2>2, <2>3, <3>3 DEF ApplyFail
      <4> QED BY <1>0, <2>2, <2>3, <3>1, <3>3, <4>1 DEF Move, NoMove
    <3> QED BY <3>2, <3>3
  <2>4. CASE m # req[r].m
    <3>1. mon'[m] = mon[m] /\ log'[m] = log[m]
      BY <1>5, <2>4 DEF ApplyFail
    <3> QED BY <1>same, <2>1, <3>1
  <2> QED BY <2>3, <2>4
<1>6. ASSUME NEW r \in Requests, ResumeCommit(r)
      PROVE  Move(m)
  <2>1. req[r].m \in Monitors /\ status' = status
    BY <1>6, JobShape DEF ResumeCommit
  <2>2. CASE m = req[r].m
    <3>1. status[m] = "stored" /\ log'[m] = RecordEvent(log[m], "resume")
      BY <1>6, <2>1, <2>2 DEF ResumeCommit, Stored
    <3>2. mon'[m].state = "up"
      BY <1>6, <2>2 DEF ResumeCommit, ResumeRow, Row
    <3> QED BY <1>0, <2>1, <3>1, <3>2 DEF Move, NoMove, EventType
  <2>3. CASE m # req[r].m
    <3>1. mon'[m] = mon[m] /\ log'[m] = log[m]
      BY <1>6, <2>3 DEF ResumeCommit
    <3> QED BY <1>same, <2>1, <3>1
  <2> QED BY <2>2, <2>3
<1>7. ASSUME NEW r \in Requests, UpdateCommit(r)
      PROVE  Move(m)
  <2>1. req[r].m \in Monitors /\ req[r].patch \in Patch /\ status' = status
    BY <1>7, JobShape DEF UpdateCommit
  <2>2. \A row \in Row, p \in Patch : UpdateRow(row, p).state = row.state
    BY DEF UpdateRow, Row
  <2>3. mon'[m].state = mon[m].state
    BY <1>7, <2>1, <2>2 DEF UpdateCommit
  <2>4. log'[m] = log[m] \/ log'[m] = RecordEvent(log[m], "config_change")
    BY <1>7 DEF UpdateCommit
  <2> QED BY <1>same, <2>1, <2>3, <2>4 DEF EventType
<1>8. ASSUME NEW s \in Schedulers, EvaluateDueMonitors(s)
      PROVE  Move(m)
  <2>1. status' = status
    BY <1>8 DEF EvaluateDueMonitors
  <2>2. CASE claim[s][m] # Unclaimed
    <3>1. claim[s][m] = mon[m] /\ status[m] = "stored" /\ mon[m].state \in {"up", "late"}
      BY <2>2 DEF DecisionsAreCurrent, Stored
    <3>2. mon'[m] = EvaluateRow(mon[m], mon[m]) /\ log'[m] = EvaluateLog(mon[m], log[m])
      BY <1>8, <2>2, <3>1 DEF EvaluateDueMonitors
    <3>3. CASE mon[m].state = "up"
      <4>1. mon'[m].state = "late" /\ log'[m] = RecordEvent(log[m], "late")
        BY <3>2, <3>3 DEF EvaluateRow, EvaluateLog, Row
      <4> QED BY <1>0, <2>1, <3>1, <3>3, <4>1 DEF Move, NoMove, EventType
    <3>4. CASE mon[m].state = "late"
      <4>1. mon'[m].state = "down" /\ log'[m] = RecordTransition(log[m], "down")
        BY <3>2, <3>4 DEF EvaluateRow, EvaluateLog, Row
      <4> QED BY <1>0, <2>1, <3>1, <3>4, <4>1 DEF Move
    <3> QED BY <3>1, <3>3, <3>4
  <2>3. CASE claim[s][m] = Unclaimed
    <3>1. mon'[m] = mon[m] /\ log'[m] = log[m]
      BY <1>8, <2>3 DEF EvaluateDueMonitors
    <3> QED BY <1>same, <2>1, <3>1
  <2> QED BY <2>2, <2>3
<1>9. ASSUME mon' = mon, status' = status, log' = log
      PROVE  Move(m)
  BY <1>same, <1>9
<1> QED
  BY <1>1, <1>2, <1>3, <1>4, <1>5, <1>6, <1>7, <1>8, <1>9
  DEF Next, vars, RequestStep, Tick, ResumeRead, PingArrives, UpdateRead, PingLocks, StartCommit,
      RequestAborts, Claim, SchedulerAborts

(* Outbox rows always name events.                                         *)
OutboxNamesEvents == \A m \in Monitors : NamesEvents(log[m])

(* What a move does to the notices, and that it keeps the outbox's rows    *)
(* naming events.                                                          *)
LEMMA MoveNotices ==
    ASSUME TypeOK, NEW m \in Monitors, NamesEvents(log[m]), Move(m)
    PROVE  /\ NamesEvents(log'[m])
           /\ LET n == NoticesIn(log[m])
                  k == NoticesIn(log'[m]) IN
              \/ PhaseOf(m)' = PhaseOf(m) /\ k = n
              \/ PhaseOf(m) = "absent" /\ PhaseOf(m)' = "ok" /\ k = n
              \/ PhaseOf(m) = "ok" /\ PhaseOf(m)' = "out" /\ k = Append(n, "down")
              \/ PhaseOf(m) = "out" /\ PhaseOf(m)' = "ok" /\ k = Append(n, "up")
              \/ PhaseOf(m) = "out" /\ PhaseOf(m)' = "ok" /\ k = n
              \/ PhaseOf(m) \in {"ok", "out"} /\ PhaseOf(m)' = "gone" /\ k = <<>>
<1>1. log[m] \in Log
  BY DEF TypeOK
<1>2. "resume" \in EventType
  BY DEF EventType
<1> QED BY <1>1, <1>2, EventNotices, TransitionNotices, EmptyNotices DEF Move, NoMove

(* Heartbeat implements Timeline: for any number of monitors, concurrent   *)
(* requests and scheduler replicas, each change of a monitor's outage and  *)
(* the outbox row that tells the owner of it are one step, in order and    *)
(* exactly once, and only a resume ends an outage without one.             *)
THEOREM HeartbeatKeepsPromise == Spec => ImplementsTimeline
<1> DEFINE Inv == TypeOK /\ DecisionsAreCurrent /\ OutboxNamesEvents
<1>1. Init => Inv /\ Promise!Init
  <2>1. Init => OutboxNamesEvents
    BY EmptyNotices DEF Init, OutboxNamesEvents
  <2>2. Init => Promise!Init
    BY EmptyNotices DEF Init, Promise!Init, PhaseOf
  <2> QED BY <2>1, <2>2, TypeInit, DecisionsInit
<1>2. Inv /\ [Next]_vars => Inv' /\ [Promise!Next]_(Promise!vars)
  <2> SUFFICES ASSUME TypeOK, DecisionsAreCurrent, OutboxNamesEvents, [Next]_vars
               PROVE  OutboxNamesEvents' /\ Promise!Next
    BY TypeStep, DecisionsStep
  <2>1. OutboxNamesEvents'
    BY Moves, MoveNotices DEF OutboxNamesEvents
  <2>2. ASSUME NEW m \in Monitors
        PROVE  \/ Promise!Create(m) \/ Promise!GoesDown(m) \/ Promise!ComesUp(m)
               \/ Promise!Dismiss(m) \/ Promise!Delete(m) \/ Promise!Stays(m)
    <3>1. NamesEvents(log[m]) /\ Move(m)
      BY Moves DEF OutboxNamesEvents
    <3> QED BY <3>1, MoveNotices
        DEF Promise!Create, Promise!GoesDown, Promise!ComesUp, Promise!Dismiss,
            Promise!Delete, Promise!Stays, Promise!Becomes
  <2> QED BY <2>1, <2>2 DEF Promise!Next
<1> QED BY <1>1, <1>2, PTL DEF Spec, ImplementsTimeline, Promise!Spec
==============================================================================
