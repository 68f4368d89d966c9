---------------------------- MODULE RollupProofs -----------------------------
(***************************************************************************)
(* Proofs about Rollup: pruning spares the rows within the retention and   *)
(* the events of transitions still to be notified, and a day that counts   *)
(* as rolled up has all its rows, for any number of replicas, any batch    *)
(* limit, any retention and any faults.                                    *)
(***************************************************************************)
EXTENDS Rollup, FiniteSetTheorems, TLAPS

----------------------------------------------------------------------------
(* Retention.                                                              *)

(* The DELETE under way has selected events before its cutoff.             *)
BatchOld(w) ==
    worker[w].pc = "delete" =>
      \A m \in Monitors, e \in Event : <<m, e>> \in worker[w].batch =>
        e.at < Cutoff(worker[w].today)

(* A tick prunes by the day it started on, which is never a day to come.   *)
RetentionInv ==
    /\ clock \in Nat
    /\ events \in [Monitors -> SUBSET Event]
    /\ raw \in [Monitors -> SUBSET Raw]
    /\ \A w \in Workers : worker[w].today \in Nat /\ worker[w].today =< Day(clock)
    /\ DOMAIN mon = Monitors /\ DOMAIN worker = Workers
    /\ \A w \in Workers : DOMAIN worker[w] = {"pc", "last", "today", "todo", "batch"}
    /\ \A w \in Workers : BatchOld(w)

(* The steps of the replicas, apart from deletions ...                     *)
Working(w) ==
    \/ StartTick(w) \/ RollupDone(w) \/ RollupFails(w)
    \/ \E m \in Monitors : UpsertDailyStat(w, m)
    \/ SelectEvents(w) \/ PruneFails(w) \/ Restart(w)

(* ... and the deletions.                                                  *)
Pruning(w) == PruneRaw(w) \/ DeleteEvents(w)

(* Euclidean division.                                                     *)
LEMMA DayBounds ==
  ASSUME NEW t \in Nat
  PROVE  Day(t) \in Nat /\ Day(t) * DayLength =< t /\ t < Day(t) * DayLength + DayLength
  BY ConstantsAssumption, SMTT(20) DEF Day

(* Days do not go back.                                                    *)
LEMMA DayGrows ==
  ASSUME NEW t \in Nat
  PROVE  Day(t) =< Day(t + 1)
  BY ConstantsAssumption, SMTT(20) DEF Day

(* What lies before the start of a day belongs to an earlier day.          *)
LEMMA DayBefore ==
  ASSUME NEW t \in Nat, NEW d \in Int, t < DayStart(d)
  PROVE  Day(t) < d
<1>1. Day(t) \in Nat /\ DayLength \in Nat /\ DayLength > 0
  BY DayBounds, ConstantsAssumption
<1>2. Day(t) * DayLength =< t
  BY DayBounds
<1>3. t < d * DayLength
  BY DEF DayStart
<1>4. Day(t) * DayLength < d * DayLength
  BY <1>1, <1>2, <1>3, SMTT(20)
<1>5. QED
  BY <1>1, <1>4, SMTT(20)

(* What a deletion does to its replica.                                    *)
LEMMA PruningReplica ==
  ASSUME RetentionInv, NEW w \in Workers, Pruning(w)
  PROVE  /\ worker' = [worker EXCEPT ![w] = worker'[w]]
         /\ DOMAIN worker'[w] = {"pc", "last", "today", "todo", "batch"}
         /\ worker'[w].pc \in {"idle"} \cup {Tables[i] : i \in 1 .. 3}
         /\ worker'[w].last = worker[w].last
         /\ worker'[w].today \in {worker[w].today, 0}
         /\ worker'[w].todo \in {worker[w].todo, NoStats}
         /\ worker'[w].batch \in {worker[w].batch, {}}
<1> DEFINE At(pc) == [worker[w] EXCEPT !.pc = pc]
           Again == [worker[w] EXCEPT !.pc = "events", !.batch = {}]
<1>1. DOMAIN worker = Workers /\ DOMAIN worker[w] = {"pc", "last", "today", "todo", "batch"}
  BY DEF RetentionInv
<1>2. CASE PruneRaw(w)
  <2>1. PICK i \in 1 .. 2 : \E batch :
          /\ worker[w].pc = Tables[i]
          /\ worker' = [worker EXCEPT ![w].pc =
               IF Cardinality(batch) = BatchLimit THEN @ ELSE Tables[i + 1]]
    BY <1>2 DEF PruneRaw
  <2>2. i \in 1 .. 3 /\ i + 1 \in 1 .. 3
    OBVIOUS
  <2>3. PICK p \in {Tables[j] : j \in 1 .. 3} : worker' = [worker EXCEPT ![w] = At(p)]
    BY <2>1, <2>2
  <2>4. worker'[w] = At(p) /\ worker' = [worker EXCEPT ![w] = worker'[w]]
    BY <1>1, <2>3
  <2>5. QED
    BY <1>1, <2>4
<1>3. CASE DeleteEvents(w)
  <2>1. worker' = [worker EXCEPT ![w] = Again] \/ worker' = [worker EXCEPT ![w] = Idle(worker[w].last)]
    BY <1>3 DEF DeleteEvents
  <2>2. "events" \in {Tables[i] : i \in 1 .. 3}
    <3>1. Tables[3] = "events" /\ 3 \in 1 .. 3
      BY DEF Tables
    <3>2. QED
      BY <3>1
  <2>3. CASE worker' = [worker EXCEPT ![w] = Again]
    <3>1. worker'[w] = Again /\ worker' = [worker EXCEPT ![w] = worker'[w]]
      BY <1>1, <2>3
    <3>2. QED
      BY <1>1, <2>2, <3>1
  <2>4. CASE worker' = [worker EXCEPT ![w] = Idle(worker[w].last)]
    <3>1. Idle(worker[w].last) = [pc |-> "idle", last |-> worker[w].last, today |-> 0,
                                  todo |-> NoStats, batch |-> {}]
      BY DEF Idle
    <3>2. worker'[w] = Idle(worker[w].last) /\ worker' = [worker EXCEPT ![w] = worker'[w]]
      BY <1>1, <2>4
    <3>3. QED
      BY <3>1, <3>2
  <2>5. QED
    BY <2>1, <2>3, <2>4
<1>4. QED
  BY <1>2, <1>3 DEF Pruning

(* What a deletion leaves alone.                                           *)
LEMMA PruningKeeps ==
  ASSUME NEW w \in Workers, Pruning(w)
  PROVE  /\ UNCHANGED <<clock, mon, daily, history, faults, ops>>
         /\ raw' = [m \in Monitors |-> raw'[m]] \/ raw' = raw
         /\ events' = [m \in Monitors |-> events'[m]] \/ events' = events
         /\ \A m \in Monitors : raw'[m] \subseteq raw[m] /\ events'[m] \subseteq events[m]
         /\ pending' \subseteq pending /\ torn \subseteq torn'
<1>1. CASE PruneRaw(w)
  <2>1. /\ UNCHANGED <<clock, mon, events, pending, daily, history, torn, faults, ops>>
        /\ \E batch : raw' = [m \in Monitors |-> {r \in raw[m] : <<m, r>> \notin batch}]
    BY <1>1 DEF PruneRaw
  <2>2. QED
    BY <2>1
<1>2. CASE DeleteEvents(w)
  <2>1. /\ UNCHANGED <<clock, mon, raw, daily, history, faults, ops>>
        /\ events' = [m \in Monitors |-> Left(m, worker[w].batch)]
        /\ pending' \subseteq pending /\ torn \subseteq torn'
    BY <1>2 DEF DeleteEvents
  <2>2. \A m \in Monitors : Left(m, worker[w].batch) \subseteq events[m]
    BY DEF Left
  <2>3. QED
    BY <2>1, <2>2
<1>3. QED
  BY <1>1, <1>2 DEF Pruning

(* What a deletion takes is older than its cutoff.                         *)
LEMMA PruneTakesOlder ==
  ASSUME RetentionInv, NEW w \in Workers, Pruning(w), NEW m \in Monitors
  PROVE  \A r \in (raw[m] \ raw'[m]) \cup (events[m] \ events'[m]) :
           r.at \in Nat /\ r.at < Cutoff(worker[w].today)
<1>1. \A r \in raw[m] \cup events[m] : r.at \in Nat
  BY DEF RetentionInv, Raw, Event
<1>2. CASE PruneRaw(w)
  <2>1. PICK i \in 1 .. 2 : \E batch \in Batches(OldRaw(Tables[i], Cutoff(worker[w].today))) :
          raw' = [n \in Monitors |-> {r \in raw[n] : <<n, r>> \notin batch}]
    BY <1>2 DEF PruneRaw
  <2>2. PICK batch \in SUBSET OldRaw(Tables[i], Cutoff(worker[w].today)) :
          raw' = [n \in Monitors |-> {r \in raw[n] : <<n, r>> \notin batch}]
    BY <2>1 DEF Batches, kSubset
  <2>3. ASSUME NEW r \in raw[m] \ raw'[m] PROVE r.at < Cutoff(worker[w].today)
    <3>1. <<m, r>> \in OldRaw(Tables[i], Cutoff(worker[w].today))
      BY <2>2
    <3>2. QED
      BY <3>1 DEF OldRaw
  <2>4. events' = events
    BY <1>2 DEF PruneRaw
  <2>5. QED
    BY <1>1, <2>3, <2>4
<1>3. CASE DeleteEvents(w)
  <2>1. /\ worker[w].pc = "delete" /\ raw' = raw
        /\ events' = [n \in Monitors |-> Left(n, worker[w].batch)]
    BY <1>3 DEF DeleteEvents
  <2>2. ASSUME NEW e \in events[m] \ events'[m] PROVE e.at < Cutoff(worker[w].today)
    <3>1. e \in Event /\ <<m, e>> \in worker[w].batch
      BY <2>1 DEF Left, RetentionInv
    <3>2. QED
      BY <2>1, <3>1 DEF RetentionInv, BatchOld
  <2>3. QED
    BY <1>1, <2>1, <2>2
<1>4. QED
  BY <1>2, <1>3 DEF Pruning

(* The subquery takes old events without a pending alert.                  *)
LEMMA SelectTakes ==
  ASSUME NEW w \in Workers, SelectEvents(w)
  PROVE  \E batch : /\ worker' = [worker EXCEPT ![w].pc = "delete", ![w].batch = batch]
                    /\ \A m \in Monitors : \A e : <<m, e>> \in batch =>
                         e \in OldEvents(m, Cutoff(worker[w].today))
<1> DEFINE old == UNION {{<<m, e>> : e \in OldEvents(m, Cutoff(worker[w].today))} : m \in Monitors}
<1>1. PICK batch \in Batches(old) :
        worker' = [worker EXCEPT ![w].pc = "delete", ![w].batch = batch]
  BY DEF SelectEvents
<1>2. batch \subseteq old
  BY <1>1 DEF Batches, kSubset
<1> HIDE DEF old
<1>3. ASSUME NEW m \in Monitors, NEW e, <<m, e>> \in batch
      PROVE  e \in OldEvents(m, Cutoff(worker[w].today))
  BY <1>2, <1>3 DEF old
<1>4. QED
  BY <1>1, <1>3

(* A step of one replica that gives it another row.                        *)
LEMMA ReplicaMoves ==
  ASSUME RetentionInv, NEW w \in Workers, worker' = [worker EXCEPT ![w] = worker'[w]],
         DOMAIN worker'[w] = {"pc", "last", "today", "todo", "batch"},
         worker'[w].today \in Nat, worker'[w].today =< Day(clock),
         BatchOld(w)',
         clock' = clock, mon' = mon,
         events' \in [Monitors -> SUBSET Event], raw' \in [Monitors -> SUBSET Raw]
  PROVE  RetentionInv'
<1>1. DOMAIN worker' = Workers /\ \A v \in Workers : (v # w => worker'[v] = worker[v])
  BY DEF RetentionInv
<1>2. ASSUME NEW v \in Workers
      PROVE  /\ worker'[v].today \in Nat /\ worker'[v].today =< Day(clock')
             /\ DOMAIN worker'[v] = {"pc", "last", "today", "todo", "batch"}
             /\ BatchOld(v)'
  <2>1. CASE v = w
    BY <2>1
  <2>2. CASE v # w
    <3>1. worker'[v] = worker[v]
      BY <1>1, <2>2
    <3>2. QED
      BY <3>1 DEF RetentionInv, BatchOld
  <2>3. QED
    BY <2>1, <2>2
<1>3. QED
  BY <1>1, <1>2 DEF RetentionInv

(* Every other step of a replica than SelectEvents leaves it without a     *)
(* DELETE under way.                                                       *)
LEMMA WorkingReplica ==
  ASSUME RetentionInv, NEW w \in Workers, Working(w), ~SelectEvents(w)
  PROVE  /\ worker' = [worker EXCEPT ![w] = worker'[w]]
         /\ DOMAIN worker'[w] = {"pc", "last", "today", "todo", "batch"}
         /\ worker'[w].today \in {worker[w].today, Day(clock), 0} /\ worker'[w].pc # "delete"
<1> DEFINE Goal == /\ worker' = [worker EXCEPT ![w] = worker'[w]]
                   /\ DOMAIN worker'[w] = {"pc", "last", "today", "todo", "batch"}
                   /\ worker'[w].today \in {worker[w].today, Day(clock), 0}
                   /\ worker'[w].pc # "delete"
<1>1. DOMAIN worker = Workers /\ DOMAIN worker[w] = {"pc", "last", "today", "todo", "batch"}
  BY DEF RetentionInv
<1>2. ASSUME NEW row, worker' = [worker EXCEPT ![w] = row],
             DOMAIN row = {"pc", "last", "today", "todo", "batch"},
             row.today \in {worker[w].today, Day(clock), 0}, row.pc # "delete"
      PROVE  Goal
  <2>1. worker'[w] = row
    BY <1>1, <1>2
  <2>2. QED
    BY <1>2, <2>1
<1> HIDE DEF Goal
<1>3. ASSUME StartTick(w) PROVE Goal
  <2> DEFINE todo == [m \in Monitors |-> RolledUp(m, Day(clock) - 1)]
             a == [worker[w] EXCEPT !.pc = "checkins", !.today = Day(clock)]
             b == [worker[w] EXCEPT !.pc = "upsert", !.today = Day(clock), !.todo = todo]
  <2>1. worker' = [worker EXCEPT ![w] = a] \/ worker' = [worker EXCEPT ![w] = b]
    BY <1>3 DEF StartTick
  <2> HIDE DEF todo
  <2>2. /\ DOMAIN a = {"pc", "last", "today", "todo", "batch"} /\ a.today = Day(clock)
        /\ DOMAIN b = {"pc", "last", "today", "todo", "batch"} /\ b.today = Day(clock)
        /\ a.pc = "checkins" /\ b.pc = "upsert"
    BY <1>1
  <2> HIDE DEF a, b
  <2>3. QED
    BY <1>2, <2>1, <2>2
<1>4. ASSUME RollupDone(w) PROVE Goal
  <2> DEFINE a == [worker[w] EXCEPT !.pc = "checkins", !.last = worker[w].today - 1]
  <2>1. worker' = [worker EXCEPT ![w] = a]
    BY <1>4 DEF RollupDone
  <2>2. /\ DOMAIN a = {"pc", "last", "today", "todo", "batch"} /\ a.today = worker[w].today
        /\ a.pc = "checkins"
    BY <1>1
  <2> HIDE DEF a
  <2>3. QED
    BY <1>2, <2>1, <2>2
<1>5. ASSUME RollupFails(w) PROVE Goal
  <2> DEFINE a == [worker[w] EXCEPT !.pc = "checkins", !.todo = NoStats]
  <2>1. worker' = [worker EXCEPT ![w] = a]
    BY <1>5 DEF RollupFails
  <2>2. /\ DOMAIN a = {"pc", "last", "today", "todo", "batch"} /\ a.today = worker[w].today
        /\ a.pc = "checkins"
    BY <1>1
  <2> HIDE DEF a
  <2>3. QED
    BY <1>2, <2>1, <2>2
<1>6. ASSUME NEW m \in Monitors, UpsertDailyStat(w, m) PROVE Goal
  <2> DEFINE a == [worker[w] EXCEPT !.todo[m] = NoStat]
  <2>1. worker' = [worker EXCEPT ![w] = a] /\ worker[w].pc = "upsert"
    BY <1>6 DEF UpsertDailyStat
  <2>2. /\ DOMAIN a = {"pc", "last", "today", "todo", "batch"} /\ a.today = worker[w].today
        /\ a.pc = "upsert"
    BY <1>1, <2>1
  <2> HIDE DEF a
  <2>3. QED
    BY <1>2, <2>1, <2>2
<1>7. ASSUME PruneFails(w) \/ Restart(w) PROVE Goal
  <2>1. PICK last : worker' = [worker EXCEPT ![w] = Idle(last)]
    BY <1>7 DEF PruneFails, Restart
  <2>2. /\ DOMAIN Idle(last) = {"pc", "last", "today", "todo", "batch"}
        /\ Idle(last).today = 0 /\ Idle(last).pc = "idle"
    BY DEF Idle
  <2>3. QED
    BY <1>2, <2>1, <2>2
<1>8. Goal
  BY <1>3, <1>4, <1>5, <1>6, <1>7 DEF Working
<1>9. QED
  BY <1>8 DEF Goal

(* A step of a worker leaves the clock alone and its day in the past.      *)
LEMMA WorkerDays ==
  ASSUME RetentionInv, NEW w \in Workers, Working(w)
  PROVE  RetentionInv' /\ UNCHANGED <<clock, mon, events, raw, pending, torn>>
<1>1. /\ Day(clock) \in Nat /\ DOMAIN worker[w] = {"pc", "last", "today", "todo", "batch"}
      /\ worker[w].today \in Nat /\ worker[w].today =< Day(clock)
  BY DayBounds DEF RetentionInv
<1>2. UNCHANGED <<clock, mon, events, raw, pending, torn>>
  BY DEF Working, StartTick, RollupDone, RollupFails, UpsertDailyStat, SelectEvents, PruneFails,
     Restart
<1>3. /\ clock' = clock /\ mon' = mon
      /\ events' \in [Monitors -> SUBSET Event] /\ raw' \in [Monitors -> SUBSET Raw]
  BY <1>2 DEF RetentionInv
<1>4. CASE ~SelectEvents(w)
  <2>1. /\ worker' = [worker EXCEPT ![w] = worker'[w]]
        /\ DOMAIN worker'[w] = {"pc", "last", "today", "todo", "batch"}
        /\ worker'[w].today \in {worker[w].today, Day(clock), 0} /\ worker'[w].pc # "delete"
    BY <1>4, WorkingReplica
  <2>2. worker'[w].today \in Nat /\ worker'[w].today =< Day(clock)
    BY <1>1, <2>1
  <2>3. QED
    BY <1>2, <1>3, <2>1, <2>2, ReplicaMoves DEF BatchOld
<1>5. CASE SelectEvents(w)
  <2>1. PICK batch : /\ worker' = [worker EXCEPT ![w].pc = "delete", ![w].batch = batch]
                     /\ \A m \in Monitors : \A e : <<m, e>> \in batch =>
                          e \in OldEvents(m, Cutoff(worker[w].today))
    BY <1>5, SelectTakes
  <2>2. /\ worker' = [worker EXCEPT ![w] = worker'[w]]
        /\ DOMAIN worker'[w] = {"pc", "last", "today", "todo", "batch"}
        /\ worker'[w].today = worker[w].today /\ worker'[w].batch = batch
    BY <1>1, <2>1 DEF RetentionInv
  <2>3. BatchOld(w)'
    BY <2>1, <2>2 DEF OldEvents, BatchOld
  <2>4. QED
    BY <1>1, <1>2, <1>3, <2>2, <2>3, ReplicaMoves
<1>6. QED
  BY <1>2, <1>4, <1>5

(* The inductive step, and what it says about removed rows.                *)
LEMMA RetentionStep ==
  ASSUME RetentionInv, [Next]_vars
  PROVE  /\ RetentionInv'
         /\ \A m \in Monitors : mon'[m].stored =>
              \A r \in (raw[m] \ raw'[m]) \cup (events[m] \ events'[m]) :
                Day(r.at) + Retention < Day(clock)
<1> DEFINE Kept == \A m \in Monitors : mon'[m].stored =>
                     \A r \in (raw[m] \ raw'[m]) \cup (events[m] \ events'[m]) :
                       Day(r.at) + Retention < Day(clock)
<1>1. CASE UNCHANGED vars
  BY <1>1 DEF RetentionInv, BatchOld, vars
<1>2. CASE Tick
  <2>1. Day(clock) =< Day(clock') /\ clock' \in Nat /\ Day(clock) \in Nat /\ Day(clock') \in Nat
    BY <1>2, DayGrows, DayBounds DEF Tick, RetentionInv
  <2>2. UNCHANGED <<mon, events, raw, worker>>
    BY <1>2 DEF Tick
  <2>3. QED
    BY <2>1, <2>2 DEF RetentionInv, BatchOld
<1>3. CASE \E a \in pending : ResolveAlert(a)
  BY <1>3 DEF ResolveAlert, RetentionInv, BatchOld
<1>4. ASSUME NEW m \in Monitors, \/ Transition(m) \/ ResumeMonitor(m)
      PROVE  RetentionInv' /\ Kept
  <2>1. PICK type \in {"down", "up", "resume"} : Write(m, type)
    BY <1>4 DEF Transition, ResumeMonitor
  <2>2. UNCHANGED <<clock, raw, worker>> /\ DOMAIN mon' = DOMAIN mon
    BY <1>4 DEF Transition, ResumeMonitor, Operation
  <2>3. /\ events' \in [Monitors -> SUBSET Event]
        /\ \A n \in Monitors : events[n] \subseteq events'[n]
    BY <2>1 DEF Write, RetentionInv, Event
  <2>4. QED
    BY <2>2, <2>3 DEF RetentionInv, BatchOld
<1>5. ASSUME NEW m \in Monitors, Remind(m) PROVE RetentionInv' /\ Kept
  BY <1>5 DEF Remind, Operation, RetentionInv, BatchOld
<1>6. ASSUME NEW m \in Monitors, NEW kind \in RowKinds, InsertRaw(m, kind)
      PROVE  RetentionInv' /\ Kept
  <2>1. PICK row \in Raw : raw' = [raw EXCEPT ![m] = @ \cup {row}]
    <3>1. [table |-> kind[1], failed |-> kind[2], at |-> clock] \in Raw
      BY ConstantsAssumption DEF Raw, RetentionInv
    <3>2. QED
      BY <3>1, <1>6 DEF InsertRaw
  <2>2. UNCHANGED <<clock, mon, events, worker>>
    BY <1>6 DEF InsertRaw, Operation
  <2>3. QED
    BY <2>1, <2>2 DEF RetentionInv, BatchOld
<1>7. ASSUME NEW m \in Monitors, DeleteMonitor(m) PROVE RetentionInv' /\ Kept
  BY <1>7 DEF DeleteMonitor, RetentionInv, BatchOld
<1>8. ASSUME NEW w \in Workers, Pruning(w) PROVE RetentionInv' /\ Kept
  <2>1. /\ events' \in [Monitors -> SUBSET Event]
        /\ raw' \in [Monitors -> SUBSET Raw]
        /\ clock' = clock /\ mon' = mon
        /\ \A m \in Monitors : \A r \in (raw[m] \ raw'[m]) \cup (events[m] \ events'[m]) :
             r.at \in Nat /\ r.at < Cutoff(worker[w].today)
    BY <1>8, PruneTakesOlder, PruningKeeps DEF RetentionInv
  <2>2. Day(clock) \in Nat /\ Retention \in Nat
    BY DayBounds, ConstantsAssumption DEF RetentionInv
  <2>3. ASSUME NEW t \in Nat, t < Cutoff(worker[w].today)
        PROVE  Day(t) + Retention < Day(clock)
    <3>1. worker[w].today \in Nat /\ worker[w].today =< Day(clock)
      BY DEF RetentionInv
    <3>2. Day(t) < worker[w].today - Retention
      BY <2>2, <2>3, <3>1, DayBefore DEF Cutoff
    <3>3. Day(t) \in Nat
      BY DayBounds
    <3>4. QED
      BY <2>2, <3>1, <3>2, <3>3
  <2>4. /\ worker' = [worker EXCEPT ![w] = worker'[w]]
        /\ DOMAIN worker'[w] = {"pc", "last", "today", "todo", "batch"}
        /\ worker'[w].pc # "delete" /\ worker'[w].today \in {worker[w].today, 0}
    <3>1. \A i \in 1 .. 3 : Tables[i] # "delete"
      BY DEF Tables
    <3>2. QED
      BY <1>8, <3>1, PruningReplica
  <2>5. worker'[w].today \in Nat /\ worker'[w].today =< Day(clock)
    BY <2>2, <2>4 DEF RetentionInv
  <2>6. RetentionInv'
    BY <2>1, <2>4, <2>5, ReplicaMoves DEF BatchOld
  <2>7. QED
    BY <2>1, <2>3, <2>6
<1>9. ASSUME NEW w \in Workers, Working(w) PROVE RetentionInv' /\ Kept
  BY <1>9, WorkerDays
<1>10. QED
  BY <1>1, <1>2, <1>3, <1>4, <1>5, <1>6, <1>7, <1>8, <1>9 DEF Next, Working, Pruning

LEMMA RetentionInit == Init => RetentionInv
<1>1. Day(0) \in Nat
  BY DayBounds
<1>2. QED
  BY <1>1 DEF Init, Idle, RetentionInv, BatchOld

(* Whatever replicas, batches and faults do, and however long a tick       *)
(* takes, PruneOldData removes nothing of the last Retention days.         *)
THEOREM RetentionHonoured == Spec => RetentionKept
<1>1. Init => RetentionInv
  BY RetentionInit
<1>2. RetentionInv /\ [Next]_vars => RetentionInv'
  BY RetentionStep
<1>3. RetentionInv /\ [Next]_vars =>
        [\A m \in Monitors : mon'[m].stored =>
           \A r \in (raw[m] \ raw'[m]) \cup (events[m] \ events'[m]) :
             Day(r.at) + Retention < Day(clock)]_vars
  BY RetentionStep
<1>4. QED
  BY <1>1, <1>2, <1>3, PTL DEF Spec, RetentionKept

----------------------------------------------------------------------------
(* Alerts.                                                                 *)

(* No DELETE under way is about to take the event of a transition that is  *)
(* still to be notified.                                                   *)
AlertInv ==
    /\ RetentionInv
    /\ pending \subseteq Alert
    /\ \A w \in Workers : worker[w].pc = "delete" =>
         \A m \in Monitors, e \in Event : <<m, e>> \in worker[w].batch =>
           [monitor |-> m, at |-> e.at, reminder |-> FALSE] \notin pending

(* What a DELETE has selected is not of today.                             *)
LEMMA BatchIsPast ==
  ASSUME RetentionInv, NEW w \in Workers, worker[w].pc = "delete",
         NEW m \in Monitors, NEW e \in Event, <<m, e>> \in worker[w].batch
  PROVE  e.at # clock
<1>1. /\ clock \in Nat /\ worker[w].today \in Nat /\ worker[w].today =< Day(clock)
      /\ e.at < Cutoff(worker[w].today) /\ e.at \in Nat /\ Retention \in Nat
  BY ConstantsAssumption DEF RetentionInv, BatchOld, Event
<1>2. Day(e.at) < worker[w].today - Retention /\ Day(e.at) \in Nat /\ Day(clock) \in Nat
  BY <1>1, DayBefore, DayBounds DEF Cutoff
<1>3. Day(e.at) # Day(clock)
  BY <1>1, <1>2
<1>4. QED
  BY <1>3

(* The inductive step, and what it says about removed events.  An alert    *)
(* that joins a batch under way is a reminder; one that a transition adds  *)
(* is of today.                                                            *)
LEMMA AlertStep ==
  ASSUME AlertInv, [Next]_vars
  PROVE  /\ AlertInv'
         /\ \A m \in Monitors : mon'[m].stored =>
              \A e \in events[m] \ events'[m] :
                [monitor |-> m, at |-> e.at, reminder |-> FALSE] \notin pending
<1> DEFINE Kept == \A m \in Monitors : mon'[m].stored =>
                     \A e \in events[m] \ events'[m] :
                       [monitor |-> m, at |-> e.at, reminder |-> FALSE] \notin pending
           Safe(row, alerts) == row.pc = "delete" =>
             \A m \in Monitors, e \in Event : <<m, e>> \in row.batch =>
               [monitor |-> m, at |-> e.at, reminder |-> FALSE] \notin alerts
           Inv == pending' \subseteq Alert /\ \A w \in Workers : Safe(worker'[w], pending')
<1>1. /\ RetentionInv /\ RetentionInv' /\ pending \subseteq Alert
      /\ \A w \in Workers : Safe(worker[w], pending)
      /\ DOMAIN worker = Workers /\ DOMAIN events = Monitors
  BY RetentionStep DEF AlertInv, RetentionInv
<1>2. ASSUME pending' \subseteq pending, worker' = worker PROVE Inv
  BY <1>1, <1>2
<1>3. ASSUME \A n \in Monitors : events[n] \subseteq events'[n] PROVE Kept
  BY <1>3
<1>4. ASSUME NEW w \in Workers, worker' = [worker EXCEPT ![w] = worker'[w]],
             pending' \subseteq pending, Safe(worker'[w], pending)
      PROVE  Inv
  <2>1. \A v \in Workers : v # w => worker'[v] = worker[v]
    BY <1>1, <1>4
  <2>2. ASSUME NEW v \in Workers PROVE Safe(worker'[v], pending)
    <3>1. CASE v = w
      BY <1>4, <2>1, <3>1
    <3>2. CASE v # w
      BY <1>1, <2>1, <3>2
    <3>3. QED
      BY <3>1, <3>2
  <2>3. QED
    BY <1>1, <1>4, <2>2
<1>5. ASSUME NEW a \in Alert, pending' = pending \cup {a}, worker' = worker, a.reminder \/ a.at = clock
      PROVE  Inv
  <2>1. ASSUME NEW w \in Workers, worker[w].pc = "delete", NEW m \in Monitors, NEW e \in Event,
               <<m, e>> \in worker[w].batch
        PROVE  [monitor |-> m, at |-> e.at, reminder |-> FALSE] # a
    <3>1. e.at # clock
      BY <1>1, <2>1, BatchIsPast
    <3>2. QED
      BY <1>5, <3>1
  <2>2. QED
    BY <1>1, <1>5, <2>1
<1>6. ASSUME UNCHANGED vars \/ Tick \/ \E a \in pending : ResolveAlert(a) PROVE Inv /\ Kept
  <2>1. pending' \subseteq pending /\ worker' = worker /\ events' = events
    BY <1>6 DEF vars, Tick, ResolveAlert
  <2>2. QED
    BY <1>2, <1>3, <2>1
<1>7. ASSUME NEW m \in Monitors, Transition(m) \/ ResumeMonitor(m) PROVE Inv /\ Kept
  <2>1. Kept
    <3>1. \A n \in Monitors : events[n] \subseteq events'[n]
      BY <1>1, <1>7 DEF Transition, ResumeMonitor, Write
    <3>2. QED
      BY <1>3, <3>1
  <2>2. CASE ResumeMonitor(m)
    BY <1>2, <2>1, <2>2 DEF ResumeMonitor, Operation
  <2>3. CASE Transition(m)
    <3> DEFINE a == [monitor |-> m, at |-> clock, reminder |-> FALSE]
    <3>1. pending' = pending \cup {a} /\ worker' = worker
      BY <2>3 DEF Transition, Operation
    <3>2. a \in Alert /\ a.at = clock
      BY <1>1 DEF Alert, RetentionInv
    <3> HIDE DEF a
    <3>3. QED
      BY <1>5, <2>1, <3>1, <3>2
  <2>4. QED
    BY <1>7, <2>2, <2>3
<1>8. ASSUME NEW m \in Monitors, Remind(m) PROVE Inv /\ Kept
  <2>1. PICK e \in events[m] :
          pending' = pending \cup {[monitor |-> m, at |-> e.at, reminder |-> TRUE]}
    BY <1>8 DEF Remind
  <2> DEFINE a == [monitor |-> m, at |-> e.at, reminder |-> TRUE]
  <2>2. a \in Alert /\ a.reminder
    BY <1>1 DEF Alert, RetentionInv, Event
  <2>3. pending' = pending \cup {a} /\ worker' = worker /\ events' = events
    BY <1>8, <2>1 DEF Remind, Operation
  <2> HIDE DEF a
  <2>4. QED
    BY <1>3, <1>5, <2>2, <2>3
<1>9. ASSUME NEW m \in Monitors, NEW kind \in RowKinds, InsertRaw(m, kind) PROVE Inv /\ Kept
  <2>1. UNCHANGED <<pending, worker, events>>
    BY <1>9 DEF InsertRaw, Operation
  <2>2. QED
    BY <1>2, <1>3, <2>1
<1>10. ASSUME NEW m \in Monitors, DeleteMonitor(m) PROVE Inv /\ Kept
  <2>1. pending' \subseteq pending /\ worker' = worker /\ ~mon'[m].stored
        /\ events' = [events EXCEPT ![m] = {}]
    BY <1>10 DEF DeleteMonitor, AlertInv, RetentionInv
  <2>2. \A n \in Monitors : mon'[n].stored => events'[n] = events[n]
    BY <1>1, <2>1
  <2>3. Kept
    BY <2>2
  <2>4. QED
    BY <1>2, <2>1, <2>3
<1>11. ASSUME NEW w \in Workers, Working(w) PROVE Inv /\ Kept
  <2>1. UNCHANGED <<pending, events>>
    BY <1>1, <1>11, WorkerDays
  <2>2. Kept
    BY <1>3, <2>1
  <2>3. CASE SelectEvents(w)
    <3>1. PICK batch : /\ worker' = [worker EXCEPT ![w].pc = "delete", ![w].batch = batch]
                       /\ \A m \in Monitors : \A e : <<m, e>> \in batch =>
                            e \in OldEvents(m, Cutoff(worker[w].today))
      BY <2>3, SelectTakes
    <3>2. worker' = [worker EXCEPT ![w] = worker'[w]] /\ worker'[w].batch = batch
      BY <1>1, <3>1 DEF RetentionInv
    <3>3. ASSUME NEW m \in Monitors, NEW e \in Event, <<m, e>> \in batch
          PROVE  [monitor |-> m, at |-> e.at, reminder |-> FALSE] \notin pending
      BY <3>1, <3>3 DEF OldEvents
    <3>4. Safe(worker'[w], pending)
      BY <3>2, <3>3
    <3>5. QED
      BY <1>4, <2>1, <2>2, <3>2, <3>4
  <2>4. CASE ~SelectEvents(w)
    <3>1. worker' = [worker EXCEPT ![w] = worker'[w]] /\ worker'[w].pc # "delete"
      BY <1>1, <1>11, <2>4, WorkingReplica
    <3>2. QED
      BY <1>4, <2>1, <2>2, <3>1
  <2>5. QED
    BY <2>3, <2>4
<1>12. ASSUME NEW w \in Workers, Pruning(w) PROVE Inv /\ Kept
  <2>1. pending' \subseteq pending
    BY <1>12, PruningKeeps
  <2>2. worker' = [worker EXCEPT ![w] = worker'[w]] /\ worker'[w].pc # "delete"
    <3>1. \A i \in 1 .. 3 : Tables[i] # "delete"
      BY DEF Tables
    <3>2. QED
      BY <1>1, <1>12, <3>1, PruningReplica
  <2>3. Inv
    BY <1>4, <2>1, <2>2
  <2>4. CASE PruneRaw(w)
    BY <1>3, <2>3, <2>4 DEF PruneRaw
  <2>5. CASE DeleteEvents(w)
    <3>1. worker[w].pc = "delete" /\ events' = [m \in Monitors |-> Left(m, worker[w].batch)]
      BY <2>5 DEF DeleteEvents
    <3>2. ASSUME NEW m \in Monitors, NEW e \in events[m] \ events'[m]
          PROVE  [monitor |-> m, at |-> e.at, reminder |-> FALSE] \notin pending
      <4>1. e \in Event /\ <<m, e>> \in worker[w].batch
        BY <1>1, <3>1 DEF Left, RetentionInv
      <4>2. QED
        BY <1>1, <3>1, <4>1
    <3>3. QED
      BY <2>3, <3>2
  <2>6. QED
    BY <1>12, <2>4, <2>5 DEF Pruning
<1> HIDE DEF Kept
<1>13. Inv /\ Kept
  <2> HIDE DEF Inv
  <2>1. QED
    BY <1>6, <1>7, <1>8, <1>9, <1>10, <1>11, <1>12 DEF Next, Working, Pruning
<1>14. QED
  BY <1>1, <1>13 DEF AlertInv, Kept

LEMMA AlertAlways == Spec => []AlertInv
<1>1. Init => AlertInv
  <2> SUFFICES ASSUME Init PROVE AlertInv
    OBVIOUS
  <2>1. RetentionInv
    BY RetentionInit
  <2>2. pending = {}
    BY DEF Init
  <2>3. QED
    BY <2>1, <2>2 DEF AlertInv
<1>2. AlertInv /\ [Next]_vars => AlertInv'
  BY AlertStep
<1>3. QED
  BY <1>1, <1>2, PTL DEF Spec

(* Although the subquery of DeleteOldEventsBatch sees the alerts of its    *)
(* snapshot only, and although the alerter may take for ever, no deletion  *)
(* takes the event of a transition that is still to be notified.           *)
THEOREM TransitionAlertsSurvive == Spec => TransitionAlertsKept
<1>1. AlertInv /\ [Next]_vars =>
        [\A m \in Monitors : mon'[m].stored =>
           \A e \in events[m] \ events'[m] :
             [monitor |-> m, at |-> e.at, reminder |-> FALSE] \notin pending]_vars
  BY AlertStep
<1>2. QED
  BY <1>1, AlertAlways, PTL DEF Spec, TransitionAlertsKept

----------------------------------------------------------------------------
(* Complete days.                                                          *)

(* The shapes of the variables the rollup reads and writes; what a         *)
(* statistic holds does not matter here.                                   *)
ShapeInv ==
    /\ RetentionInv
    /\ clock =< MaxTime
    /\ mon \in [Monitors -> [stored: BOOLEAN, down: BOOLEAN]]
    /\ history \in [Monitors -> [raw: SUBSET Raw, down: SUBSET Nat]]
    /\ DOMAIN daily = Monitors /\ \A m \in Monitors : DOMAIN daily[m] = Days
    /\ \A w \in Workers : DOMAIN worker[w].todo = Monitors
    /\ \A w \in Workers : worker[w].last \in Int /\ worker[w].last < Day(clock)

(* Events and downtime are of the past, and the rows of the last Retention *)
(* days are all there.                                                     *)
PastInv ==
    /\ \A m \in Monitors : \A e \in events[m] : e.at =< clock
    /\ \A m \in Monitors : \A t \in history[m].down : t < clock
    /\ \A m \in Monitors : mon[m].stored => \A r \in history[m].raw :
         Day(r.at) + Retention < Day(clock) \/ r \in raw[m]

(* The events tell, on the day of now, of the outage that began at s and   *)
(* was not over at t, unless it began before the retention.                *)
Told(evs, now, s, t) ==
    \/ Day(s) + Retention < Day(now)
    \/ /\ [type |-> "down", at |-> s] \in evs
       /\ \A e \in evs : e.type = "up" => e.at =< s \/ e.at > t

(* Each instant of downtime belongs to an outage that is told of, and so   *)
(* does the outage that a monitor is in.                                   *)
OutageInv ==
    \A m \in Monitors : mon[m].stored =>
      /\ \A t \in history[m].down : \E s \in 0 .. t :
           s .. t \subseteq history[m].down /\ Told(events[m], clock, s, t)
      /\ mon[m].down => \E s \in 0 .. clock :
           s .. clock - 1 \subseteq history[m].down /\ Told(events[m], clock, s, clock)

(* The monitor has something to show for the day.                          *)
Owed(m, d) ==
    /\ d >= 0 /\ mon[m].stored
    /\ \/ OfDay(history[m].raw, d) # {}
       \/ (\E t \in history[m].down : Day(t) = d) /\ ~BeyondRetention(m, d)

(* What the last day of a replica owes is stored; what the day it is       *)
(* rolling up owes is stored or to be stored.                              *)
CompleteInv ==
    \A w \in Workers, m \in Monitors :
      /\ Owed(m, worker[w].last) => daily[m][worker[w].last] # NoStat
      /\ worker[w].pc = "upsert" /\ Owed(m, worker[w].today - 1) =>
           worker[w].todo[m] # NoStat \/ daily[m][worker[w].today - 1] # NoStat

(* Days are monotone.                                                      *)
LEMMA DayMonotone ==
  ASSUME NEW s \in Nat, NEW t \in Nat, s =< t
  PROVE  Day(s) \in Nat /\ Day(t) \in Nat /\ Day(s) =< Day(t)
<1>1. /\ Day(s) \in Nat /\ Day(s) * DayLength =< s
      /\ Day(t) \in Nat /\ t < Day(t) * DayLength + DayLength
  BY DayBounds
<1> DEFINE x == Day(s)
           y == Day(t)
<1>2. x \in Nat /\ y \in Nat /\ x * DayLength < (y + 1) * DayLength /\ DayLength \in Nat /\ DayLength > 0
  BY <1>1, ConstantsAssumption, SMTT(20)
<1> HIDE DEF x, y
<1>3. x < y + 1
  BY <1>2, SMTT(20)
<1>4. QED
  BY <1>2, <1>3 DEF x, y

(* An instant lies between the start of its day and the start of the next. *)
LEMMA DayLies ==
  ASSUME NEW t \in Nat, NEW d \in Int
  PROVE  /\ DayStart(d) \in Int
         /\ Day(t) = d => DayStart(d) =< t /\ t < DayStart(d + 1)
         /\ t < DayStart(d) => Day(t) < d
         /\ Day(t) < d => t < DayStart(d)
<1>1. Day(t) \in Nat /\ Day(t) * DayLength =< t /\ t < Day(t) * DayLength + DayLength
  BY DayBounds
<1> DEFINE x == Day(t)
<1>2. DayLength \in Nat /\ DayLength > 0
  BY ConstantsAssumption
<1>3. DayStart(d) \in Int
  BY <1>2, SMTT(20) DEF DayStart
<1>4. Day(t) = d => DayStart(d) =< t /\ t < DayStart(d + 1)
  BY <1>1, <1>2, SMTT(20) DEF DayStart
<1>5. t < DayStart(d) => Day(t) < d
  BY DayBefore
<1>6. ASSUME x < d PROVE t < DayStart(d)
  <2>1. x \in Nat /\ t < (x + 1) * DayLength
    BY <1>1, <1>2, SMTT(20)
  <2> HIDE DEF x
  <2>2. (x + 1) * DayLength =< d * DayLength
    <3>1. x + 1 =< d
      BY <1>6, <2>1
    <3>2. QED
      BY <1>2, <2>1, <3>1, SMTT(20)
  <2> DEFINE a == (x + 1) * DayLength
             b == d * DayLength
  <2>3. a \in Int /\ b \in Int /\ t < a /\ a =< b
    BY <1>2, <2>1, <2>2, SMTT(20)
  <2> HIDE DEF a
  <2>4. t < b
    <3> HIDE DEF b
    <3>1. QED
      BY <2>3
  <2>5. QED
    BY <2>4 DEF DayStart
<1>7. QED
  BY <1>3, <1>4, <1>5, <1>6

(* What the steps do to one monitor and its history.                       *)
LEMMA MonitorMoves ==
  ASSUME ShapeInv, [Next]_vars
  PROVE  /\ mon' \in [Monitors -> [stored: BOOLEAN, down: BOOLEAN]]
         /\ history' \in [Monitors -> [raw: SUBSET Raw, down: SUBSET Nat]]
         /\ clock' \in Nat /\ clock =< clock' /\ clock' =< MaxTime
         /\ \A m \in Monitors : mon'[m].stored => mon[m].stored
         /\ \A m \in Monitors : \A t \in history'[m].down : t \in history[m].down \/ t = clock
         /\ \A m \in Monitors : history[m].down \subseteq history'[m].down
         /\ \A m \in Monitors : mon'[m].stored => \A r \in history'[m].raw :
              r \in history[m].raw \/ (r.at = clock /\ r \in raw'[m])
<1> DEFINE P == /\ mon' \in [Monitors -> [stored: BOOLEAN, down: BOOLEAN]]
                /\ history' \in [Monitors -> [raw: SUBSET Raw, down: SUBSET Nat]]
                /\ clock' \in Nat /\ clock =< clock' /\ clock' =< MaxTime
                /\ \A m \in Monitors : mon'[m].stored => mon[m].stored
                /\ \A m \in Monitors : \A t \in history'[m].down : t \in history[m].down \/ t = clock
                /\ \A m \in Monitors : history[m].down \subseteq history'[m].down
                /\ \A m \in Monitors : mon'[m].stored => \A r \in history'[m].raw :
                     r \in history[m].raw \/ (r.at = clock /\ r \in raw'[m])
<1>1. clock \in Nat /\ clock =< MaxTime /\ MaxTime \in Nat
  BY ConstantsAssumption DEF ShapeInv, RetentionInv
<1>2. CASE UNCHANGED <<clock, mon, history>>
  BY <1>1, <1>2 DEF ShapeInv
<1>3. CASE Tick
  <2>1. mon' = mon /\ clock' = clock + 1 /\ clock < MaxTime
    BY <1>3 DEF Tick
  <2>2. \A m \in Monitors : history'[m] = IF mon[m].down
          THEN [raw |-> history[m].raw, down |-> history[m].down \cup {clock}] ELSE history[m]
    <3>1. \A h \in [raw: SUBSET Raw, down: SUBSET Nat] :
            [h EXCEPT !.down = @ \cup {clock}] = [raw |-> h.raw, down |-> h.down \cup {clock}]
      OBVIOUS
    <3>2. \A m \in Monitors : history[m] \in [raw: SUBSET Raw, down: SUBSET Nat]
      BY DEF ShapeInv
    <3>3. QED
      BY <1>3, <3>1, <3>2 DEF Tick
  <2>3. history' \in [Monitors -> [raw: SUBSET Raw, down: SUBSET Nat]]
    <3>1. DOMAIN history' = Monitors /\ history' = [m \in Monitors |-> history'[m]]
      BY <1>3 DEF Tick
    <3>2. ASSUME NEW m \in Monitors PROVE history'[m] \in [raw: SUBSET Raw, down: SUBSET Nat]
      <4>1. history[m] \in [raw: SUBSET Raw, down: SUBSET Nat]
        BY DEF ShapeInv
      <4>2. history[m].raw \in SUBSET Raw /\ history[m].down \cup {clock} \in SUBSET Nat
        BY <1>1, <4>1
      <4>3. [raw |-> history[m].raw, down |-> history[m].down \cup {clock}]
              \in [raw: SUBSET Raw, down: SUBSET Nat]
        BY <4>2
      <4>4. QED
        BY <2>2, <4>1, <4>3
    <3>3. QED
      BY <3>1, <3>2
  <2>4. QED
    BY <1>1, <2>1, <2>2, <2>3 DEF ShapeInv
<1>4. ASSUME NEW m \in Monitors, Transition(m) \/ ResumeMonitor(m) \/ DeleteMonitor(m) PROVE P
  <2>1. UNCHANGED <<clock, history>>
    BY <1>4 DEF Transition, ResumeMonitor, DeleteMonitor, Operation
  <2>2. mon' \in [Monitors -> [stored: BOOLEAN, down: BOOLEAN]]
    <3>1. mon \in [Monitors -> [stored: BOOLEAN, down: BOOLEAN]]
      BY DEF ShapeInv
    <3>2. CASE Transition(m)
      BY <3>1, <3>2, Zenon DEF Transition
    <3>3. CASE ResumeMonitor(m)
      BY <3>1, <3>3, Zenon DEF ResumeMonitor
    <3>4. CASE DeleteMonitor(m)
      <4>1. mon' = [mon EXCEPT ![m] = [stored |-> FALSE, down |-> FALSE]]
        BY <3>4 DEF DeleteMonitor
      <4>2. [stored |-> FALSE, down |-> FALSE] \in [stored: BOOLEAN, down: BOOLEAN]
        BY Zenon
      <4>3. QED
        BY <3>1, <4>1, <4>2, Zenon
    <3>5. QED
      BY <1>4, <3>2, <3>3, <3>4
  <2>3. \A n \in Monitors : mon'[n].stored => mon[n].stored
    BY <1>4 DEF Transition, ResumeMonitor, DeleteMonitor, ShapeInv
  <2>4. QED
    BY <1>1, <2>1, <2>2, <2>3 DEF ShapeInv
<1>5. ASSUME NEW m \in Monitors, NEW kind \in RowKinds, InsertRaw(m, kind) PROVE P
  <2> DEFINE row == [table |-> kind[1], failed |-> kind[2], at |-> clock]
  <2>1. /\ UNCHANGED <<clock, mon>> /\ raw' = [raw EXCEPT ![m] = @ \cup {row}]
        /\ history' = [history EXCEPT ![m].raw = @ \cup {row}]
    BY <1>5 DEF InsertRaw, Operation
  <2>2. row \in Raw /\ row.at = clock
    BY <1>1, ConstantsAssumption DEF Raw
  <2> HIDE DEF row
  <2>3. history' \in [Monitors -> [raw: SUBSET Raw, down: SUBSET Nat]]
    BY <2>1, <2>2 DEF ShapeInv
  <2>4. \A n \in Monitors : history'[n].down = history[n].down
    BY <2>1 DEF ShapeInv
  <2>5. \A n \in Monitors : \A r \in history'[n].raw :
          r \in history[n].raw \/ (r.at = clock /\ r \in raw'[n])
    <3>1. row \in raw'[m]
      BY <2>1 DEF ShapeInv, RetentionInv
    <3>2. \A n \in Monitors : \A r \in history'[n].raw : r \in history[n].raw \/ (n = m /\ r = row)
      BY <2>1 DEF ShapeInv
    <3>3. QED
      BY <2>2, <3>1, <3>2
  <2>6. QED
    BY <1>1, <2>1, <2>3, <2>4, <2>5 DEF ShapeInv
<1>6. ASSUME NEW w \in Workers, Working(w) \/ Pruning(w)
      PROVE  UNCHANGED <<clock, mon, history>>
  BY <1>6, PruningKeeps DEF Working, StartTick, RollupDone, RollupFails, UpsertDailyStat,
     SelectEvents, PruneFails, Restart
<1>7. ASSUME NEW m \in Monitors, Remind(m) PROVE UNCHANGED <<clock, mon, history>>
  BY <1>7 DEF Remind, Operation
<1>8. CASE \E a \in pending : ResolveAlert(a)
  BY <1>2, <1>8 DEF ResolveAlert
<1> HIDE DEF P
<1>9. P
  BY <1>2, <1>3, <1>4, <1>5, <1>6, <1>7, <1>8 DEF Next, vars, Working, Pruning, P
<1>10. QED
  BY <1>9 DEF P

(* What the steps do to the events of a monitor that stays stored.         *)
LEMMA EventMoves ==
  ASSUME ShapeInv, [Next]_vars, NEW m \in Monitors, mon'[m].stored
  PROVE  /\ \A e \in events[m] \ events'[m] : Day(e.at) + Retention < Day(clock)
         /\ \A e \in events'[m] \ events[m] :
              e.at = clock /\ clock' = clock /\ (e.type = "up" => ~mon'[m].down)
         /\ mon'[m].down /\ ~mon[m].down =>
              [type |-> "down", at |-> clock] \in events'[m] /\ clock' = clock
<1> DEFINE P == /\ \A e \in events'[m] \ events[m] :
                     e.at = clock /\ clock' = clock /\ (e.type = "up" => ~mon'[m].down)
                /\ mon'[m].down /\ ~mon[m].down =>
                     [type |-> "down", at |-> clock] \in events'[m] /\ clock' = clock
<1>1. \A e \in events[m] \ events'[m] : Day(e.at) + Retention < Day(clock)
  BY RetentionStep DEF ShapeInv
<1>2. ASSUME UNCHANGED mon, \A n \in Monitors : events'[n] \subseteq events[n] PROVE P
  BY <1>2
<1>3. ASSUME NEW n \in Monitors, Transition(n) PROVE P
  <2> DEFINE type == IF mon[n].down THEN "up" ELSE "down"
  <2>1. /\ events' = [events EXCEPT ![n] = @ \cup {[type |-> type, at |-> clock]}]
        /\ mon' = [mon EXCEPT ![n].down = ~@] /\ clock' = clock
    BY <1>3 DEF Transition, Write, Operation
  <2>2. CASE n # m
    <3>1. mon'[m] = mon[m] /\ events'[m] = events[m]
      BY <2>1, <2>2 DEF ShapeInv, RetentionInv
    <3>2. QED
      BY <3>1
  <2>3. CASE n = m
    <3>1. events'[m] = events[m] \cup {[type |-> type, at |-> clock]}
      BY <2>1, <2>3 DEF ShapeInv, RetentionInv
    <3>2. mon'[m].down <=> ~mon[m].down
      BY <2>1, <2>3, Zenon DEF ShapeInv
    <3>3. CASE mon[m].down
      <4>1. events'[m] = events[m] \cup {[type |-> "up", at |-> clock]}
        BY <2>3, <3>1, <3>3
      <4>2. QED
        BY <2>1, <3>2, <3>3, <4>1
    <3>4. CASE ~mon[m].down
      <4>1. events'[m] = events[m] \cup {[type |-> "down", at |-> clock]}
        BY <2>3, <3>1, <3>4
      <4>2. QED
        BY <2>1, <4>1
    <3>5. QED
      BY <3>3, <3>4
  <2>4. QED
    BY <2>2, <2>3
<1>4. ASSUME NEW n \in Monitors, ResumeMonitor(n) PROVE P
  <2>1. /\ events' = [events EXCEPT ![n] = @ \cup {[type |-> "resume", at |-> clock]}]
        /\ mon' = [mon EXCEPT ![n].down = FALSE] /\ clock' = clock
    BY <1>4 DEF ResumeMonitor, Write, Operation
  <2>2. mon'[m].down => mon[m].down
    BY <2>1, Zenon DEF ShapeInv
  <2>3. \A e \in events'[m] \ events[m] : e = [type |-> "resume", at |-> clock]
    BY <2>1 DEF ShapeInv, RetentionInv
  <2>4. QED
    BY <2>1, <2>2, <2>3
<1>5. ASSUME NEW n \in Monitors, DeleteMonitor(n) PROVE P
  <2>1. n # m
    BY <1>5, Zenon DEF DeleteMonitor, ShapeInv
  <2>2. mon'[m] = mon[m] /\ events'[m] = events[m]
    BY <1>5, <2>1 DEF DeleteMonitor, ShapeInv, RetentionInv
  <2>3. QED
    BY <2>2
<1>6. ASSUME NEW w \in Workers, Pruning(w) PROVE P
  <2>1. mon' = mon
    BY <1>6, PruningKeeps
  <2>2. \A n \in Monitors : events'[n] \subseteq events[n]
    BY <1>6, PruningKeeps
  <2>3. QED
    BY <1>2, <2>1, <2>2
<1>7. ASSUME UNCHANGED <<mon, events>> PROVE P
  BY <1>2, <1>7
<1>8. ASSUME NEW w \in Workers, Working(w) PROVE P
  <2>1. UNCHANGED <<mon, events>>
    BY <1>8 DEF Working, StartTick, RollupDone, RollupFails, UpsertDailyStat, SelectEvents, PruneFails,
         Restart
  <2>2. QED
    BY <1>7, <2>1
<1>9. ASSUME NEW n \in Monitors, \/ Remind(n) \/ \E kind \in RowKinds : InsertRaw(n, kind)
      PROVE  P
  <2>1. UNCHANGED <<mon, events>>
    BY <1>9 DEF Remind, InsertRaw
  <2>2. QED
    BY <1>7, <2>1
<1> HIDE DEF P
<1>10. P
  BY <1>3, <1>4, <1>5, <1>6, <1>7, <1>8, <1>9 DEF Next, vars, Working, Pruning, Tick, ResolveAlert
<1>11. QED
  BY <1>1, <1>10 DEF P

(* The replicas: a day is done once it is over, and todo covers all        *)
(* monitors.                                                               *)
LEMMA ShapeStep ==
  ASSUME ShapeInv, [Next]_vars
  PROVE  ShapeInv'
<1>1. RetentionInv'
  BY RetentionStep DEF ShapeInv
<1>2. clock \in Nat /\ clock' \in Nat /\ clock =< clock' /\ clock' =< MaxTime
  BY MonitorMoves DEF ShapeInv, RetentionInv
<1>3. Day(clock) \in Nat /\ Day(clock') \in Nat /\ Day(clock) =< Day(clock')
  BY <1>2, DayMonotone
<1>4. DOMAIN daily' = Monitors /\ \A m \in Monitors : DOMAIN daily'[m] = Days
  <2>1. CASE daily' = daily
    BY <2>1 DEF ShapeInv
  <2>2. ASSUME NEW n \in Monitors, DeleteMonitor(n)
        PROVE  DOMAIN daily' = Monitors /\ \A m \in Monitors : DOMAIN daily'[m] = Days
    BY <2>2 DEF DeleteMonitor, ShapeInv
  <2>3. ASSUME NEW w \in Workers, NEW n \in Monitors, UpsertDailyStat(w, n)
        PROVE  DOMAIN daily' = Monitors /\ \A m \in Monitors : DOMAIN daily'[m] = Days
    BY <2>3 DEF UpsertDailyStat, ShapeInv
  <2>4. QED
    BY <2>1, <2>2, <2>3 DEF Next, vars, Tick, ResolveAlert, InsertRaw, Transition, ResumeMonitor,
       Remind, Operation, StartTick, RollupDone, RollupFails, PruneRaw, SelectEvents, DeleteEvents,
       PruneFails, Restart
<1>5. ASSUME NEW w \in Workers
      PROVE  /\ DOMAIN worker'[w].todo = Monitors
             /\ worker'[w].last \in Int /\ worker'[w].last < Day(clock')
  <2> DEFINE Q == /\ DOMAIN worker'[w].todo = Monitors
                  /\ worker'[w].last \in Int /\ worker'[w].last < Day(clock')
  <2>1. /\ DOMAIN worker[w].todo = Monitors
        /\ worker[w].last \in Int /\ worker[w].last < Day(clock')
    BY <1>3 DEF ShapeInv
  <2>2. /\ DOMAIN worker = Workers
        /\ \A v \in Workers : DOMAIN worker[v] = {"pc", "last", "today", "todo", "batch"}
        /\ \A v \in Workers : worker[v].today \in Nat /\ worker[v].today =< Day(clock)
    BY DEF ShapeInv, RetentionInv
  <2>3. CASE worker'[w] = worker[w]
    BY <2>1, <2>3
  <2>4. ASSUME NEW v \in Workers, StartTick(v) PROVE Q
    BY <2>1, <2>2, <2>4 DEF StartTick
  <2>5. ASSUME NEW v \in Workers, NEW m \in Monitors, UpsertDailyStat(v, m) PROVE Q
    BY <2>1, <2>2, <2>5 DEF UpsertDailyStat
  <2>6. ASSUME NEW v \in Workers, RollupDone(v) PROVE Q
    BY <1>3, <2>1, <2>2, <2>6 DEF RollupDone
  <2>7. ASSUME NEW v \in Workers, RollupFails(v) PROVE Q
    BY <2>1, <2>2, <2>7 DEF RollupFails, NoStats
  <2>8. ASSUME NEW v \in Workers, Pruning(v) PROVE Q
    <3>1. /\ worker' = [worker EXCEPT ![v] = worker'[v]] /\ worker'[v].last = worker[v].last
          /\ worker'[v].todo \in {worker[v].todo, NoStats}
      BY <2>8, PruningReplica DEF ShapeInv
    <3>2. QED
      BY <2>1, <2>2, <3>1 DEF NoStats
  <2>9. ASSUME NEW v \in Workers, PruneFails(v) PROVE Q
    BY <2>1, <2>2, <2>9 DEF PruneFails, Idle, NoStats
  <2>10. ASSUME NEW v \in Workers, Restart(v) PROVE Q
    BY <1>3, <2>1, <2>2, <2>10 DEF Restart, Idle, NoStats, Never
  <2>11. ASSUME NEW v \in Workers, SelectEvents(v) PROVE Q
    <3>1. PICK batch : worker' = [worker EXCEPT ![v].pc = "delete", ![v].batch = batch]
      BY <2>11, SelectTakes
    <3>2. QED
      BY <2>1, <2>2, <3>1
  <2>12. CASE worker' = worker
    BY <2>1, <2>12
  <2> HIDE DEF Q
  <2>13. Q
    BY <2>4, <2>5, <2>6, <2>7, <2>8, <2>9, <2>10, <2>11, <2>12 DEF Q, Next, vars, Pruning, Tick,
       ResolveAlert, InsertRaw, Transition, ResumeMonitor, Remind, Operation, DeleteMonitor
  <2>14. QED
    BY <2>13 DEF Q
<1>6. QED
  BY <1>1, <1>2, <1>4, <1>5, MonitorMoves DEF ShapeInv

LEMMA PastStep ==
  ASSUME ShapeInv, PastInv, [Next]_vars
  PROVE  PastInv'
<1>1. clock \in Nat /\ clock' \in Nat /\ clock =< clock' /\ Day(clock) =< Day(clock')
      /\ Day(clock) \in Nat /\ Day(clock') \in Nat /\ Retention \in Nat \ {0}
  BY MonitorMoves, DayMonotone, ConstantsAssumption DEF ShapeInv, RetentionInv
<1>2. ASSUME NEW m \in Monitors, NEW e \in events'[m] PROVE e.at =< clock'
  <2>1. CASE e \in events[m]
    <3>1. e.at \in Nat /\ e.at =< clock
      BY <2>1 DEF PastInv, ShapeInv, RetentionInv, Event
    <3>2. QED
      BY <1>1, <3>1
  <2>2. CASE e \notin events[m] /\ mon'[m].stored
    BY <1>1, <2>2, EventMoves
  <2>3. CASE e \notin events[m] /\ ~mon'[m].stored
    <3>1. ASSUME NEW n \in Monitors, Write(n, "up") \/ Write(n, "down") \/ Write(n, "resume"),
                 clock' = clock
          PROVE  e.at =< clock'
      <4>1. e.at = clock
        BY <2>3, <3>1 DEF Write, ShapeInv, RetentionInv
      <4>2. QED
        BY <1>1, <3>1, <4>1
    <3>2. ASSUME NEW n \in Monitors, Transition(n) \/ ResumeMonitor(n) PROVE e.at =< clock'
      BY <3>1, <3>2 DEF Transition, ResumeMonitor, Operation
    <3>3. ASSUME NEW w \in Workers, Pruning(w) PROVE FALSE
      BY <2>3, <3>3, PruningKeeps
    <3>4. ASSUME NEW w \in Workers, Working(w) PROVE FALSE
      BY <2>3, <3>4 DEF Working, StartTick, RollupDone, RollupFails, UpsertDailyStat, SelectEvents,
         PruneFails, Restart
    <3>5. ASSUME NEW n \in Monitors, DeleteMonitor(n) PROVE FALSE
      BY <2>3, <3>5 DEF DeleteMonitor, ShapeInv, RetentionInv
    <3>6. ASSUME NEW n \in Monitors, \/ Remind(n) \/ \E kind \in RowKinds : InsertRaw(n, kind)
          PROVE  FALSE
      BY <2>3, <3>6 DEF Remind, InsertRaw
    <3>7. QED
      BY <2>3, <3>2, <3>3, <3>4, <3>5, <3>6 DEF Next, vars, Working, Pruning, Tick, ResolveAlert
  <2>4. QED
    BY <2>1, <2>2, <2>3
<1>3. ASSUME NEW m \in Monitors, NEW t \in history'[m].down PROVE t < clock'
  <2>1. CASE t \in history[m].down
    <3>1. t \in Nat /\ t < clock
      BY <2>1 DEF PastInv, ShapeInv
    <3>2. QED
      BY <1>1, <3>1
  <2>2. CASE t \notin history[m].down
    <3>1. clock' = clock + 1
      <4>1. history' # history /\ history'[m].down # history[m].down
        BY <2>2
      <4>2. ASSUME NEW n \in Monitors, NEW kind \in RowKinds, InsertRaw(n, kind) PROVE FALSE
        <5>1. PICK row : history' = [history EXCEPT ![n].raw = @ \cup {row}]
          BY <4>2 DEF InsertRaw
        <5>2. QED
          BY <4>1, <5>1 DEF ShapeInv
      <4>3. QED
        BY <4>1, <4>2 DEF Next, vars, Tick, ResolveAlert, Transition, ResumeMonitor, Remind,
           DeleteMonitor, StartTick, RollupDone, RollupFails, UpsertDailyStat, PruneRaw,
           SelectEvents, DeleteEvents, PruneFails, Restart
    <3>2. t = clock
      BY <2>2, MonitorMoves
    <3>3. QED
      BY <1>1, <3>1, <3>2
  <2>3. QED
    BY <2>1, <2>2
<1>4. ASSUME NEW m \in Monitors, mon'[m].stored, NEW r \in history'[m].raw
      PROVE  Day(r.at) + Retention < Day(clock') \/ r \in raw'[m]
  <2>1. CASE r \notin history[m].raw
    BY <1>4, <2>1, MonitorMoves
  <2>2. CASE r \in history[m].raw
    <3>1. r.at \in Nat /\ Day(r.at) \in Nat
      BY <2>2, DayBounds DEF ShapeInv, Raw
    <3>2. Day(r.at) + Retention < Day(clock) \/ r \in raw[m]
      BY <1>4, <2>2, MonitorMoves DEF PastInv
    <3>3. r \in raw[m] => Day(r.at) + Retention < Day(clock) \/ r \in raw'[m]
      BY <1>4, RetentionStep DEF ShapeInv
    <3>4. QED
      BY <1>1, <3>1, <3>2, <3>3
  <2>3. QED
    BY <2>1, <2>2
<1>5. QED
  BY <1>2, <1>3, <1>4 DEF PastInv

(* What was told stays told.                                               *)
LEMMA ToldKept ==
  ASSUME ShapeInv, [Next]_vars, NEW m \in Monitors, mon'[m].stored,
         NEW s \in Nat, NEW t \in Int, NEW u \in Int, u =< t,
         u < clock \/ ~\E e \in events'[m] \ events[m] : e.type = "up",
         Told(events[m], clock, s, t)
  PROVE  Told(events'[m], clock', s, u)
<1>1. /\ clock \in Nat /\ clock' \in Nat /\ Day(clock) =< Day(clock') /\ Day(s) \in Nat
      /\ Day(clock) \in Nat /\ Day(clock') \in Nat /\ Retention \in Nat
  BY MonitorMoves, DayMonotone, ConstantsAssumption DEF ShapeInv, RetentionInv
<1>2. CASE Day(s) + Retention < Day(clock)
  BY <1>1, <1>2 DEF Told
<1> DEFINE e0 == [type |-> "down", at |-> s]
<1>3. CASE e0 \in events[m] /\ e0 \notin events'[m]
  <2>1. Day(e0.at) + Retention < Day(clock)
    BY <1>3, EventMoves
  <2>2. QED
    BY <1>2, <2>1
<1>4. CASE e0 \in events'[m] /\ \A e \in events[m] : e.type = "up" => e.at =< s \/ e.at > t
  <2>1. ASSUME NEW e \in events'[m], e.type = "up" PROVE e.at =< s \/ e.at > u
    <3>1. CASE e \in events[m]
      <4>1. e.at \in Nat
        BY <3>1 DEF ShapeInv, RetentionInv, Event
      <4>2. QED
        BY <1>4, <2>1, <3>1, <4>1
    <3>2. CASE e \notin events[m]
      <4>1. e.at = clock /\ u < clock
        BY <2>1, <3>2, EventMoves
      <4>2. QED
        BY <1>1, <4>1
    <3>3. QED
      BY <3>1, <3>2
  <2>2. QED
    BY <1>4, <2>1 DEF Told
<1>5. QED
  BY <1>2, <1>3, <1>4 DEF Told

LEMMA OutageStep ==
  ASSUME ShapeInv, PastInv, OutageInv, [Next]_vars
  PROVE  OutageInv'
<1> SUFFICES ASSUME NEW m \in Monitors, mon'[m].stored
             PROVE  /\ \A t \in history'[m].down : \E s \in 0 .. t :
                         s .. t \subseteq history'[m].down /\ Told(events'[m], clock', s, t)
                    /\ mon'[m].down => \E s \in 0 .. clock' :
                         s .. clock' - 1 \subseteq history'[m].down
                         /\ Told(events'[m], clock', s, clock')
  BY DEF OutageInv
<1>1. /\ clock \in Nat /\ clock' \in Nat /\ mon[m].stored
      /\ history[m].down \subseteq history'[m].down /\ history'[m].down \subseteq Nat
  BY MonitorMoves DEF ShapeInv, RetentionInv
<1>2. ASSUME NEW t \in history[m].down
      PROVE  \E s \in 0 .. t : s .. t \subseteq history'[m].down /\ Told(events'[m], clock', s, t)
  <2>1. t \in Nat /\ t < clock
    BY DEF ShapeInv, PastInv
  <2>2. PICK s \in 0 .. t : s .. t \subseteq history[m].down /\ Told(events[m], clock, s, t)
    BY <1>1 DEF OutageInv
  <2>3. s \in Nat /\ t \in Int /\ t =< t
    BY <2>1
  <2>4. Told(events'[m], clock', s, t)
    BY <2>1, <2>2, <2>3, ToldKept
  <2>5. QED
    BY <1>1, <2>2, <2>4
<1>3. CASE Tick
  <2>1. clock' = clock + 1 /\ mon' = mon /\ events' = events
    BY <1>3 DEF Tick
  <2>2. CASE ~mon[m].down
    <3>1. history'[m] = history[m]
      BY <1>3, <2>2 DEF Tick
    <3>2. QED
      BY <1>2, <2>1, <2>2, <3>1
  <2>3. CASE mon[m].down
    <3>1. history'[m].down = history[m].down \cup {clock}
      <4>1. history'[m] = [history[m] EXCEPT !.down = @ \cup {clock}]
        BY <1>3, <2>3 DEF Tick
      <4>2. QED
        BY <4>1 DEF ShapeInv
    <3>2. PICK s \in 0 .. clock : s .. clock - 1 \subseteq history[m].down
                                  /\ Told(events[m], clock, s, clock)
      BY <1>1, <2>3 DEF OutageInv
    <3>3. s \in Nat /\ s .. clock \subseteq history'[m].down /\ clock' - 1 = clock
      BY <1>1, <2>1, <3>1, <3>2
    <3>4. Told(events'[m], clock', s, clock)
      BY <1>1, <2>1, <3>2, <3>3, ToldKept
    <3>5. Told(events'[m], clock', s, clock')
      <4>1. \A e \in events[m] : e.at \in Nat /\ e.at =< clock
        BY DEF PastInv, ShapeInv, RetentionInv, Event
      <4>2. QED
        BY <1>1, <2>1, <3>4, <4>1 DEF Told
    <3>6. \E q \in 0 .. clock' : q .. clock' - 1 \subseteq history'[m].down
                                 /\ Told(events'[m], clock', q, clock')
      <4>1. s \in 0 .. clock'
        BY <1>1, <2>1, <3>3
      <4>2. QED
        BY <3>3, <3>5, <4>1
    <3>7. \E q \in 0 .. clock : q .. clock \subseteq history'[m].down
                                /\ Told(events'[m], clock', q, clock)
      BY <3>2, <3>3, <3>4
    <3>8. \A t \in history'[m].down : t \in history[m].down \/ t = clock
      BY <3>1
    <3>9. QED
      BY <1>2, <3>6, <3>7, <3>8
  <2>4. QED
    BY <2>2, <2>3
<1>4. CASE clock' = clock /\ history'[m].down = history[m].down
  <2>1. CASE ~mon'[m].down
    BY <1>2, <1>4, <2>1
  <2>2. CASE mon'[m].down /\ mon[m].down
    <3>1. PICK s \in 0 .. clock : s .. clock - 1 \subseteq history[m].down
                                  /\ Told(events[m], clock, s, clock)
      BY <1>1, <2>2 DEF OutageInv
    <3>2. s \in Nat /\ clock \in Int /\ clock =< clock
      BY <1>1
    <3>3. ~\E e \in events'[m] \ events[m] : e.type = "up"
      BY <2>2, EventMoves
    <3>4. Told(events'[m], clock', s, clock)
      BY <3>1, <3>2, <3>3, ToldKept
    <3>5. QED
      BY <1>2, <1>4, <3>1, <3>4
  <2>3. CASE mon'[m].down /\ ~mon[m].down
    <3>1. [type |-> "down", at |-> clock] \in events'[m]
      BY <2>3, EventMoves
    <3>2. \A e \in events'[m] : e.at \in Nat /\ e.at =< clock
      BY <1>4, PastStep, ShapeStep DEF PastInv, ShapeInv, RetentionInv, Event
    <3>3. Told(events'[m], clock', clock, clock)
      BY <3>1, <3>2 DEF Told
    <3>4. clock \in 0 .. clock /\ clock .. clock - 1 = {}
      BY <1>1
    <3>5. QED
      BY <1>2, <1>4, <3>3, <3>4
  <2>4. QED
    BY <2>1, <2>2, <2>3
<1>5. CASE ~Tick
  <2>1. clock' = clock
    BY <1>5 DEF Next, vars, ResolveAlert, InsertRaw, Transition, ResumeMonitor, Remind, Operation,
       DeleteMonitor, StartTick, RollupDone, RollupFails, UpsertDailyStat, PruneRaw,
       SelectEvents, DeleteEvents, PruneFails, Restart
  <2>2. clock \notin history'[m].down
    BY <1>1, <2>1, PastStep DEF PastInv
  <2>3. history'[m].down = history[m].down
    BY <1>1, <2>2, MonitorMoves
  <2>4. QED
    BY <1>4, <2>1, <2>3
<1>6. QED
  BY <1>3, <1>5

(* An outage that is told of is found by the query for each of its days.   *)
LEMMA OutageFound ==
  ASSUME ShapeInv, NEW m \in Monitors, NEW s \in Nat, NEW t \in Nat, s =< t,
         [type |-> "down", at |-> s] \in events[m],
         \A e \in events[m] : e.type = "up" => e.at =< s \/ e.at > t
  PROVE  Outages(m, Day(t)) # {}
<1> DEFINE d == Day(t)
           e == [type |-> "down", at |-> s]
           end == DayStart(d + 1)
           later == {f \in events[m] : f.type # "resume" /\ f.at > e.at /\ f.at < end}
           next == {f \in later : f.type = "up" /\ \A g \in later : f.at =< g.at}
<1>1. Day(t) \in Nat
  BY DayBounds
<1>2. DayStart(d) \in Int /\ end \in Int /\ DayStart(d) =< t /\ t < end
  BY <1>1, DayLies
<1>3. ResolvedAt(m, e, end) = IF next = {} THEN end ELSE (CHOOSE f \in next : TRUE).at
  BY DEF ResolvedAt
<1> HIDE DEF d, end
<1>4. ResolvedAt(m, e, end) > DayStart(d)
  <2>1. CASE next = {}
    BY <1>2, <1>3, <2>1
  <2>2. CASE next # {}
    <3>1. (CHOOSE f \in next : TRUE) \in next
      BY <2>2
    <3> DEFINE f == CHOOSE f \in next : TRUE
    <3>2. f \in next /\ ResolvedAt(m, e, end) = f.at
      BY <1>3, <2>2, <3>1
    <3> HIDE DEF f
    <3>3. f \in events[m] /\ f.type = "up" /\ f.at > s
      BY <3>2
    <3>4. f.at \in Nat /\ f.at > t
      BY <3>3 DEF ShapeInv, RetentionInv, Event
    <3>5. QED
      BY <1>2, <3>2, <3>4
  <2>3. QED
    BY <2>1, <2>2
<1>5. e \in Outages(m, d)
  BY <1>2, <1>4 DEF Outages, end
<1>6. QED
  BY <1>5 DEF d

(* An outage of yesterday that did not begin before the retention is told  *)
(* of by its "down".                                                       *)
LEMMA OutageKnown ==
  ASSUME ShapeInv, OutageInv, NEW m \in Monitors, mon[m].stored, NEW t \in history[m].down,
         Day(t) = Day(clock) - 1, ~BeyondRetention(m, Day(t))
  PROVE  \E s \in 0 .. t : /\ [type |-> "down", at |-> s] \in events[m]
                           /\ \A e \in events[m] : e.type = "up" => e.at =< s \/ e.at > t
<1> DEFINE d == Day(t)
<1>1. t \in Nat /\ d \in Nat /\ Day(clock) = d + 1 /\ Retention \in Nat \ {0}
  <2>1. t \in Nat /\ clock \in Nat
    BY DEF ShapeInv, RetentionInv
  <2>2. QED
    BY <2>1, DayBounds, ConstantsAssumption
<1>2. PICK s \in 0 .. t : s .. t \subseteq history[m].down /\ Told(events[m], clock, s, t)
  BY DEF OutageInv
<1>3. s \in Nat /\ s =< t
  BY <1>1, <1>2
<1>4. ASSUME Day(s) + Retention < Day(clock) PROVE FALSE
  <2>1. Day(s) \in Nat /\ d + 1 - Retention \in Int /\ Day(s) < d + 1 - Retention
    BY <1>1, <1>3, <1>4, DayBounds
  <2>2. s < DayStart(d + 1 - Retention) /\ DayStart(d + 1 - Retention) \in Int
    BY <1>3, <2>1, DayLies
  <2>3. DayStart(d) =< t /\ DayStart(d) \in Int
    BY <1>1, DayLies
  <2>4. DayStart(d + 1 - Retention) - 1 .. DayStart(d) - 1 \subseteq s .. t
    BY <1>1, <1>3, <2>2, <2>3
  <2>5. QED
    BY <1>2, <2>4 DEF BeyondRetention
<1>5. QED
  BY <1>2, <1>4 DEF Told

(* RollupDay has a row for every monitor that has something to show for    *)
(* the day before.                                                         *)
LEMMA RollupCovers ==
  ASSUME ShapeInv, PastInv, OutageInv, NEW m \in Monitors, Owed(m, Day(clock) - 1)
  PROVE  RolledUp(m, Day(clock) - 1) # NoStat
<1> DEFINE d == Day(clock) - 1
<1>1. clock \in Nat /\ Day(clock) \in Nat /\ d \in Nat /\ mon[m].stored /\ Retention \in Nat \ {0}
  BY DayBounds, ConstantsAssumption DEF ShapeInv, RetentionInv, Owed
<1>2. OfDay(raw[m], d) # {} \/ Outages(m, d) # {}
  <2>1. CASE OfDay(history[m].raw, d) # {}
    <3>1. PICK r \in history[m].raw : Day(r.at) = d
      BY <2>1 DEF OfDay
    <3>2. r \in raw[m]
      BY <1>1, <3>1 DEF PastInv
    <3>3. QED
      BY <3>1, <3>2 DEF OfDay
  <2>2. CASE (\E t \in history[m].down : Day(t) = d) /\ ~BeyondRetention(m, d)
    <3>1. PICK t \in history[m].down : Day(t) = d
      BY <2>2
    <3>2. t \in Nat
      BY DEF ShapeInv
    <3>3. PICK s \in 0 .. t :
            /\ [type |-> "down", at |-> s] \in events[m]
            /\ \A e \in events[m] : e.type = "up" => e.at =< s \/ e.at > t
      BY <1>1, <2>2, <3>1, OutageKnown
    <3>4. s \in Nat /\ s =< t
      BY <3>2, <3>3
    <3>5. QED
      BY <3>1, <3>2, <3>3, <3>4, OutageFound
  <2>3. QED
    BY <2>1, <2>2 DEF Owed
<1>3. \A a, b, c : [checkins |-> a, failures |-> b, downtime |-> c] # NoStat
  <2>1. ASSUME NEW a, NEW b, NEW c, [checkins |-> a, failures |-> b, downtime |-> c] = NoStat
        PROVE  FALSE
    <3>1. DOMAIN [checkins |-> a, failures |-> b, downtime |-> c] = DOMAIN NoStat
      BY <2>1
    <3>2. QED
      BY <3>1 DEF NoStat
  <2>2. QED
    BY <2>1
<1> HIDE DEF d
<1>4. RolledUp(m, d) # NoStat
  BY <1>2, <1>3 DEF RolledUp
<1>5. QED
  BY <1>4 DEF d

(* A past day owes nothing new.                                            *)
LEMMA OwedBefore ==
  ASSUME ShapeInv, [Next]_vars, NEW m \in Monitors, NEW d \in Int, d < Day(clock), Owed(m, d)'
  PROVE  Owed(m, d)
<1>1. mon[m].stored /\ d >= 0 /\ mon'[m].stored
  BY MonitorMoves DEF Owed
<1>2. CASE OfDay(history'[m].raw, d) # {}
  <2>1. PICK r \in history'[m].raw : Day(r.at) = d
    BY <1>2 DEF OfDay
  <2>2. r \in history[m].raw
    BY <1>1, <2>1, MonitorMoves
  <2>3. QED
    BY <1>1, <2>1, <2>2 DEF Owed, OfDay
<1>3. CASE (\E t \in history'[m].down : Day(t) = d) /\ ~BeyondRetention(m, d)'
  <2>1. PICK t \in history'[m].down : Day(t) = d
    BY <1>3
  <2>2. t \in history[m].down
    BY <2>1, MonitorMoves
  <2>3. ~BeyondRetention(m, d)
    BY <1>3, MonitorMoves DEF BeyondRetention
  <2>4. QED
    BY <1>1, <2>1, <2>2, <2>3 DEF Owed
<1>4. QED
  BY <1>2, <1>3 DEF Owed

(* No statistic of a stored monitor is lost.                               *)
LEMMA DailyKept ==
  ASSUME ShapeInv, [Next]_vars, NEW m \in Monitors, mon'[m].stored, NEW d \in Days,
         daily[m][d] # NoStat
  PROVE  daily'[m][d] # NoStat
<1>1. CASE daily' = daily
  BY <1>1
<1>2. ASSUME NEW n \in Monitors, DeleteMonitor(n) PROVE daily'[m][d] # NoStat
  <2>1. n # m
    BY <1>2, Zenon DEF DeleteMonitor, ShapeInv
  <2>2. daily'[m] = daily[m]
    BY <1>2, <2>1 DEF DeleteMonitor, ShapeInv
  <2>3. QED
    BY <2>2
<1>3. ASSUME NEW w \in Workers, NEW n \in Monitors, UpsertDailyStat(w, n)
      PROVE  daily'[m][d] # NoStat
  <2>1. PICK c, stat : daily' = [daily EXCEPT ![n][c] = stat] /\ stat # NoStat
    BY <1>3 DEF UpsertDailyStat
  <2>2. CASE n # m
    BY <2>1, <2>2 DEF ShapeInv
  <2>3. CASE n = m
    <3>1. daily'[m] = [daily[m] EXCEPT ![c] = stat]
      BY <2>1, <2>3 DEF ShapeInv
    <3>2. DOMAIN daily[m] = Days /\ DOMAIN daily'[m] = Days
      BY <3>1 DEF ShapeInv
    <3>3. QED
      BY <2>1, <3>1, <3>2
  <2>4. QED
    BY <2>2, <2>3
<1>4. QED
  BY <1>1, <1>2, <1>3 DEF Next, vars, Tick, ResolveAlert, InsertRaw, Transition, ResumeMonitor,
     Remind, Operation, StartTick, RollupDone, RollupFails, PruneRaw, SelectEvents, DeleteEvents,
     PruneFails, Restart

LEMMA CompleteStep ==
  ASSUME ShapeInv, PastInv, OutageInv, CompleteInv, [Next]_vars
  PROVE  CompleteInv'
<1>1. /\ clock \in Nat /\ Day(clock) \in Nat /\ Day(MaxTime) \in Nat /\ Day(clock) =< Day(MaxTime)
  BY DayMonotone, ConstantsAssumption DEF ShapeInv, RetentionInv
<1>2. /\ DOMAIN worker = Workers
      /\ \A v \in Workers : DOMAIN worker[v] = {"pc", "last", "today", "todo", "batch"}
      /\ \A v \in Workers : worker[v].today \in Nat /\ worker[v].today =< Day(clock)
      /\ \A v \in Workers : worker[v].last \in Int /\ worker[v].last < Day(clock)
      /\ \A v \in Workers : DOMAIN worker[v].todo = Monitors
  BY DEF ShapeInv, RetentionInv
<1>3. ASSUME NEW m \in Monitors, NEW d \in Int, d < Day(clock), Owed(m, d)',
             Owed(m, d) => daily[m][d] # NoStat
      PROVE  daily'[m][d] # NoStat
  <2>1. Owed(m, d)
    BY <1>3, OwedBefore
  <2>2. mon'[m].stored /\ d \in Days /\ daily[m][d] # NoStat
    BY <1>1, <1>3, <2>1 DEF Owed, Days
  <2>3. QED
    BY <2>2, DailyKept
<1> DEFINE Done(w, m) == Owed(m, worker[w].last) => daily[m][worker[w].last] # NoStat
           Doing(w, m) == worker[w].pc = "upsert" /\ Owed(m, worker[w].today - 1) =>
                            worker[w].todo[m] # NoStat \/ daily[m][worker[w].today - 1] # NoStat
<1>4. ASSUME NEW w \in Workers, NEW m \in Monitors,
             \/ worker'[w].last = worker[w].last
             \/ worker'[w].last < 0
             \/ /\ worker'[w].last = worker[w].today - 1
                /\ worker[w].pc = "upsert" /\ worker[w].todo[m] = NoStat
      PROVE  Done(w, m)'
  <2>1. CASE worker'[w].last = worker[w].last
    BY <1>2, <1>3, <2>1 DEF CompleteInv
  <2>2. CASE worker'[w].last < 0 /\ worker'[w].last # worker[w].last
    <3>1. worker'[w].last \in Int
      BY ShapeStep DEF ShapeInv
    <3>2. QED
      BY <2>2, <3>1 DEF Owed
  <2>3. CASE /\ worker'[w].last = worker[w].today - 1
             /\ worker[w].pc = "upsert" /\ worker[w].todo[m] = NoStat
    <3>1. worker[w].today - 1 \in Int /\ worker[w].today - 1 < Day(clock)
      BY <1>1, <1>2
    <3>2. QED
      BY <1>3, <2>3, <3>1 DEF CompleteInv
  <2>4. QED
    BY <1>4, <2>1, <2>2, <2>3
<1>5. ASSUME NEW w \in Workers, NEW m \in Monitors,
             \/ worker'[w].pc # "upsert"
             \/ /\ worker[w].pc = "upsert" /\ worker'[w].today = worker[w].today
                /\ worker'[w].todo[m] = worker[w].todo[m]
      PROVE  Doing(w, m)'
  <2>1. SUFFICES ASSUME worker'[w].pc = "upsert", Owed(m, worker[w].today - 1)',
                        worker'[w].todo[m] = NoStat
                 PROVE  daily'[m][worker'[w].today - 1] # NoStat
    OBVIOUS
  <2>2. worker'[w].today - 1 = worker[w].today - 1 /\ worker[w].todo[m] = NoStat
        /\ worker[w].pc = "upsert"
    BY <1>5, <2>1
  <2> DEFINE d == worker[w].today - 1
  <2>3. d \in Int /\ d < Day(clock) /\ (Owed(m, d) => daily[m][d] # NoStat)
    BY <1>1, <1>2, <2>2 DEF CompleteInv
  <2>4. Owed(m, d)'
    BY <2>1, <2>2 DEF Owed
  <2>5. QED
    BY <1>3, <2>2, <2>3, <2>4
<1>6. ASSUME NEW v \in Workers, StartTick(v), NEW w \in Workers, NEW m \in Monitors
      PROVE  Done(w, m)' /\ Doing(w, m)'
  <2>1. worker'[w].last = worker[w].last
    BY <1>2, <1>6 DEF StartTick
  <2>2. CASE w = v /\ worker'[w].pc = "upsert"
    <3>1. UNCHANGED <<clock, mon, events, raw, daily, history>>
      BY <1>6 DEF StartTick
    <3>2. worker[v].last # Day(clock) - 1
      BY <1>2, <1>6, <2>2 DEF StartTick
    <3>3. worker'[w].today = Day(clock) /\ worker'[w].todo[m] = RolledUp(m, Day(clock) - 1)
      BY <1>2, <1>6, <2>2, <3>2 DEF StartTick
    <3>4. Owed(m, Day(clock) - 1) => RolledUp(m, Day(clock) - 1) # NoStat
      BY RollupCovers
    <3>5. Owed(m, worker[w].today - 1)' => Owed(m, Day(clock) - 1)
      BY <3>1, <3>3 DEF Owed, BeyondRetention
    <3>6. Doing(w, m)'
      BY <3>3, <3>4, <3>5
    <3>7. QED
      BY <1>4, <2>1, <3>6
  <2>3. CASE w = v /\ worker'[w].pc # "upsert"
    BY <1>4, <1>5, <2>1, <2>3
  <2>4. CASE w # v
    <3>1. worker'[w] = worker[w]
      BY <1>2, <1>6, <2>4 DEF StartTick
    <3>2. QED
      BY <1>4, <1>5, <3>1
  <2>5. QED
    BY <2>2, <2>3, <2>4
<1>7. ASSUME NEW v \in Workers, NEW n \in Monitors, UpsertDailyStat(v, n),
             NEW w \in Workers, NEW m \in Monitors
      PROVE  Done(w, m)' /\ Doing(w, m)'
  <2>1. /\ worker' = [worker EXCEPT ![v].todo[n] = NoStat] /\ worker[v].pc = "upsert"
        /\ daily' = [daily EXCEPT ![n][worker[v].today - 1] = worker[v].todo[n]]
        /\ worker[v].todo[n] # NoStat
    BY <1>7 DEF UpsertDailyStat
  <2>2. /\ worker'[w].last = worker[w].last /\ worker'[w].pc = worker[w].pc
        /\ worker'[w].today = worker[w].today
    BY <1>2, <2>1
  <2>3. CASE w = v /\ m = n
    <3>1. ASSUME worker[v].today - 1 >= 0 PROVE daily'[m][worker[v].today - 1] # NoStat
      <4>1. worker[v].today - 1 \in Days
        BY <1>1, <1>2, <3>1 DEF Days
      <4>2. DOMAIN daily = Monitors /\ DOMAIN daily[n] = Days
        BY DEF ShapeInv
      <4>3. QED
        BY <2>1, <2>3, <4>1, <4>2
    <3>2. Doing(w, m)'
      BY <2>2, <2>3, <3>1 DEF Owed
    <3>3. QED
      BY <1>4, <2>2, <3>2
  <2>4. CASE ~(w = v /\ m = n)
    <3>1. worker'[w].todo[m] = worker[w].todo[m]
      BY <1>2, <2>1, <2>4
    <3>2. QED
      BY <1>4, <1>5, <2>2, <3>1
  <2>5. QED
    BY <2>3, <2>4
<1>8. ASSUME NEW v \in Workers, RollupDone(v), NEW w \in Workers, NEW m \in Monitors
      PROVE  Done(w, m)' /\ Doing(w, m)'
  <2>1. CASE w = v
    <3>1. /\ worker'[w].pc = "checkins" /\ worker'[w].last = worker[w].today - 1
          /\ worker[w].pc = "upsert" /\ worker[w].todo[m] = NoStat
      BY <1>2, <1>8, <2>1 DEF RollupDone, NoStats
    <3>2. QED
      BY <1>4, <1>5, <3>1
  <2>2. CASE w # v
    <3>1. worker'[w] = worker[w]
      BY <1>2, <1>8, <2>2 DEF RollupDone
    <3>2. QED
      BY <1>4, <1>5, <3>1
  <2>3. QED
    BY <2>1, <2>2
<1>9. ASSUME NEW v \in Workers,
             RollupFails(v) \/ Pruning(v) \/ SelectEvents(v) \/ PruneFails(v) \/ Restart(v),
             NEW w \in Workers, NEW m \in Monitors
      PROVE  Done(w, m)' /\ Doing(w, m)'
  <2>1. CASE worker'[w] = worker[w]
    BY <1>4, <1>5, <2>1
  <2>2. CASE worker'[w].pc # "upsert" /\ worker'[w].last \in {worker[w].last, -2}
    BY <1>4, <1>5, <2>2
  <2>3. CASE RollupFails(v)
    <3>1. worker'[w] = worker[w] \/ (worker'[w].pc = "checkins" /\ worker'[w].last = worker[w].last)
      BY <1>2, <2>3 DEF RollupFails
    <3>2. QED
      BY <2>1, <2>2, <3>1
  <2>4. CASE Pruning(v)
    <3>1. /\ worker' = [worker EXCEPT ![v] = worker'[v]] /\ worker'[v].last = worker[v].last
          /\ worker'[v].pc # "upsert"
      <4>1. \A i \in 1 .. 3 : Tables[i] # "upsert"
        BY DEF Tables
      <4>2. QED
        BY <2>4, <4>1, PruningReplica DEF ShapeInv
    <3>2. \/ worker'[w] = worker[w]
          \/ worker'[w].pc # "upsert" /\ worker'[w].last = worker[w].last
      BY <1>2, <3>1
    <3>3. QED
      BY <2>1, <2>2, <3>2
  <2>5. CASE PruneFails(v)
    <3>1. worker'[w] = worker[w] \/ (worker'[w].pc = "idle" /\ worker'[w].last = worker[w].last)
      BY <1>2, <2>5 DEF PruneFails, Idle
    <3>2. QED
      BY <2>1, <2>2, <3>1
  <2>6. CASE Restart(v)
    <3>1. worker'[w] = worker[w] \/ (worker'[w].pc = "idle" /\ worker'[w].last = -2)
      BY <1>2, <2>6 DEF Restart, Idle, Never
    <3>2. QED
      BY <2>1, <2>2, <3>1
  <2>7. CASE SelectEvents(v)
    <3>1. PICK batch : worker' = [worker EXCEPT ![v].pc = "delete", ![v].batch = batch]
      BY <2>7, SelectTakes
    <3>2. worker'[w] = worker[w] \/ (worker'[w].pc = "delete" /\ worker'[w].last = worker[w].last)
      BY <1>2, <3>1
    <3>3. QED
      BY <2>1, <2>2, <3>2
  <2>8. QED
    BY <1>9, <2>3, <2>4, <2>5, <2>6, <2>7
<1>10. ASSUME worker' = worker, NEW w \in Workers, NEW m \in Monitors
       PROVE  Done(w, m)' /\ Doing(w, m)'
  BY <1>4, <1>5, <1>10
<1> HIDE DEF Done, Doing
<1>11. ASSUME NEW w \in Workers, NEW m \in Monitors PROVE Done(w, m)' /\ Doing(w, m)'
  BY <1>6, <1>7, <1>8, <1>9, <1>10 DEF Next, vars, Pruning, Tick, ResolveAlert, InsertRaw,
     Transition, ResumeMonitor, Remind, Operation, DeleteMonitor
<1>12. QED
  BY <1>11 DEF CompleteInv, Done, Doing

LEMMA RollupInit == Init => ShapeInv /\ PastInv /\ OutageInv /\ CompleteInv
<1> SUFFICES ASSUME Init PROVE ShapeInv /\ PastInv /\ OutageInv /\ CompleteInv
  OBVIOUS
<1>1. Day(0) \in Nat
  BY DayBounds
<1>2. RetentionInv
  BY RetentionInit
<1>3. clock = 0 /\ clock =< MaxTime
  BY ConstantsAssumption DEF Init
<1>4. mon \in [Monitors -> [stored: BOOLEAN, down: BOOLEAN]]
  BY Zenon DEF Init
<1>5. history \in [Monitors -> [raw: SUBSET Raw, down: SUBSET Nat]]
  BY DEF Init
<1>6. DOMAIN daily = Monitors /\ \A m \in Monitors : DOMAIN daily[m] = Days
  BY DEF Init
<1>7. \A w \in Workers : /\ DOMAIN worker[w].todo = Monitors
                         /\ worker[w].last \in Int /\ worker[w].last < Day(clock)
                         /\ worker[w].pc = "idle" /\ worker[w].last < 0
  BY <1>1, <1>3 DEF Init, Idle, Never, NoStats
<1>8. ShapeInv
  BY <1>2, <1>3, <1>4, <1>5, <1>6, <1>7 DEF ShapeInv
<1>9. \A m \in Monitors : events[m] = {} /\ history[m].raw = {} /\ history[m].down = {}
                          /\ ~mon[m].down
  BY DEF Init
<1>10. PastInv /\ OutageInv
  BY <1>9 DEF PastInv, OutageInv
<1>11. CompleteInv
  BY <1>7, <1>9 DEF CompleteInv, Owed, OfDay
<1>12. QED
  BY <1>8, <1>10, <1>11

(* Once a replica's lastRolledDate says a day is done, every stored        *)
(* monitor with pings, probes or downtime on that day has its row, through *)
(* failed upserts, restarts, deletions and pruning, for any retention,     *)
(* batch limit and number of replicas.                                     *)
THEOREM DaysAreComplete == Spec => []RolledUpIsComplete
<1> DEFINE Inv == ShapeInv /\ PastInv /\ OutageInv /\ CompleteInv
<1>1. Init => Inv
  BY RollupInit
<1>2. Inv /\ [Next]_vars => Inv'
  BY ShapeStep, PastStep, OutageStep, CompleteStep
<1>3. Inv => RolledUpIsComplete
  <2> SUFFICES ASSUME CompleteInv, NEW w \in Workers, NEW m \in Monitors,
                      worker[w].last >= 0, mon[m].stored,
                      \/ OfDay(history[m].raw, worker[w].last) # {}
                      \/ Downtime(m, worker[w].last) > 0 /\ ~BeyondRetention(m, worker[w].last)
               PROVE  daily[m][worker[w].last] # NoStat
    BY DEF RolledUpIsComplete
  <2> DEFINE ts == {t \in history[m].down : Day(t) = worker[w].last}
  <2>1. Downtime(m, worker[w].last) > 0 => ts # {}
    BY FS_EmptySet DEF Downtime
  <2>2. Owed(m, worker[w].last)
    BY <2>1 DEF Owed
  <2>3. QED
    BY <2>2 DEF CompleteInv
<1> HIDE DEF Inv
<1>4. QED
  BY <1>1, <1>2, <1>3, PTL DEF Spec
==============================================================================
