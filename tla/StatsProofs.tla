----------------------------- MODULE StatsProofs -----------------------------
(***************************************************************************)
(* Proofs about the numbers in daily_stats: what the sum over a day's      *)
(* outages computes, that no statistic is negative, and that each one is   *)
(* exact when outages end with an "up" and are pruned in order.            *)
(***************************************************************************)
EXTENDS RollupProofs, WellFoundedInduction

----------------------------------------------------------------------------
(* Sums over finite sets.                                                  *)

(* Every nonempty set of naturals has a least member.                      *)
LEMMA LeastOf ==
  ASSUME NEW S, S \subseteq Nat, S # {}
  PROVE  \E x \in S : \A y \in S : x =< y
<1> DEFINE R == OpToRel(<, Nat)
<1>1. \A x, y \in Nat : y < x => <<y, x>> \in R
  BY DEF OpToRel
<1>2. IsWellFoundedOn(R, Nat)
  BY NatLessThanWellFounded
<1> HIDE DEF R
<1>3. PICK x \in S : \A y \in S : ~(<<y, x>> \in R)
  BY <1>2, WFMin
<1>4. x \in Nat /\ \A y \in S : y \in Nat /\ ~(y < x)
  BY <1>1, <1>3
<1>5. QED
  BY <1>4

(* Induction, for a set of naturals.                                       *)
LEMMA AllNaturals ==
  ASSUME NEW C, 0 \in C, \A n \in Nat : n \in C => n + 1 \in C
  PROVE  \A n \in Nat : n \in C
<1> SUFFICES ASSUME Nat \ C # {} PROVE FALSE
  OBVIOUS
<1>1. PICK n \in Nat \ C : \A k \in Nat \ C : n =< k
  BY LeastOf
<1>2. n \in Nat /\ n # 0
  OBVIOUS
<1>3. n - 1 \in Nat /\ n - 1 \in C
  BY <1>1, <1>2
<1>4. n - 1 + 1 = n
  BY <1>2
<1>5. QED
  BY <1>1, <1>3, <1>4

(* The member of a set that a fold takes next.                             *)
Pick(s) == CHOOSE x \in s : TRUE

(* g satisfies the equation of the sum of f at s.                          *)
Sums(f, g, s) == g[s] = IF s = {} THEN 0 ELSE f[Pick(s)] + g[s \ {Pick(s)}]

(* Taking a member leaves a smaller set.                                   *)
LEMMA PickShrinks ==
  ASSUME NEW S, IsFiniteSet(S), NEW s \in SUBSET S, s # {}
  PROVE  /\ Pick(s) \in s /\ s \ {Pick(s)} \in SUBSET S
         /\ Cardinality(s) \in Nat /\ Cardinality(s \ {Pick(s)}) = Cardinality(s) - 1
<1>1. Pick(s) \in s
  BY DEF Pick
<1>2. IsFiniteSet(s) /\ Cardinality(s) \in Nat
  BY FS_Subset, FS_CardinalityType
<1>3. QED
  BY <1>1, <1>2, FS_RemoveElement

(* The recursion of the sum has a solution.                                *)
LEMMA SumExists ==
  ASSUME NEW S, IsFiniteSet(S), NEW f \in [S -> Nat]
  PROVE  \E g \in [SUBSET S -> Nat] : \A s \in SUBSET S : Sums(f, g, s)
<1> DEFINE C == {n \in Nat : \E g \in [SUBSET S -> Nat] :
                   \A s \in SUBSET S : Cardinality(s) =< n => Sums(f, g, s)}
<1>1. 0 \in C
  <2> DEFINE g == [s \in SUBSET S |-> 0]
  <2>1. ASSUME NEW s \in SUBSET S, Cardinality(s) =< 0 PROVE Sums(f, g, s)
    <3>1. IsFiniteSet(s) /\ Cardinality(s) \in Nat
      BY FS_Subset, FS_CardinalityType
    <3>2. s = {}
      BY <2>1, <3>1, FS_EmptySet
    <3>3. QED
      BY <3>2 DEF Sums
  <2>2. g \in [SUBSET S -> Nat]
    OBVIOUS
  <2> HIDE DEF g
  <2>3. QED
    BY <2>1, <2>2
<1>2. ASSUME NEW n \in Nat, n \in C PROVE n + 1 \in C
  <2>1. PICK g \in [SUBSET S -> Nat] : \A s \in SUBSET S : Cardinality(s) =< n => Sums(f, g, s)
    BY <1>2
  <2> DEFINE h == [s \in SUBSET S |-> IF Cardinality(s) =< n THEN g[s]
                                      ELSE IF s = {} THEN 0 ELSE f[Pick(s)] + g[s \ {Pick(s)}]]
  <2>2. ASSUME NEW s \in SUBSET S PROVE h[s] \in Nat
    <3>1. CASE s = {}
      BY <3>1
    <3>2. CASE s # {}
      <4>1. f[Pick(s)] \in Nat /\ g[s \ {Pick(s)}] \in Nat /\ g[s] \in Nat
        BY <3>2, PickShrinks
      <4>2. QED
        BY <4>1
    <3>3. QED
      BY <3>1, <3>2
  <2>3. h \in [SUBSET S -> Nat]
    BY <2>2
  <2>4. ASSUME NEW s \in SUBSET S, Cardinality(s) =< n + 1 PROVE Sums(f, h, s)
    <3>1. CASE s = {}
      <4>1. Cardinality(s) =< n
        BY <3>1, FS_EmptySet
      <4>2. h[s] = 0
        BY <2>1, <3>1, <4>1 DEF Sums
      <4> HIDE DEF h
      <4>3. QED
        BY <3>1, <4>2 DEF Sums
    <3>2. CASE s # {}
      <4> DEFINE r == s \ {Pick(s)}
      <4>1. /\ r \in SUBSET S /\ Cardinality(s) \in Nat /\ Cardinality(r) = Cardinality(s) - 1
        BY <3>2, PickShrinks
      <4>2. h[r] = g[r]
        BY <2>4, <4>1
      <4>3. h[s] = f[Pick(s)] + g[r]
        BY <2>1, <3>2, <4>1 DEF Sums
      <4> HIDE DEF h
      <4>4. QED
        BY <3>2, <4>2, <4>3 DEF Sums
    <3>3. QED
      BY <3>1, <3>2
  <2> HIDE DEF h
  <2>5. QED
    BY <2>3, <2>4
<1>3. Cardinality(S) \in Nat
  BY FS_CardinalityType
<1>4. \A s \in SUBSET S : Cardinality(s) =< Cardinality(S)
  BY FS_Subset
<1>5. Cardinality(S) \in C
  <2> HIDE DEF C
  <2>1. QED
    BY <1>1, <1>2, <1>3, AllNaturals
<1>6. QED
  BY <1>4, <1>5

(* What the query sums up for a day.                                       *)
DowntimeOf(m, d) == MapThenSumSet(LAMBDA e : Overlap(m, e, d), Outages(m, d))
Shares(m, d) == [e \in Outages(m, d) |-> Overlap(m, e, d)]

(* It is a solution of that recursion.                                     *)
LEMMA SumUnfolds ==
  ASSUME NEW m, NEW d, IsFiniteSet(Outages(m, d)),
         \A e \in Outages(m, d) : Overlap(m, e, d) \in Nat
  PROVE  \E g : /\ \A s \in SUBSET Outages(m, d) : Sums(Shares(m, d), g, s)
                /\ DowntimeOf(m, d) = g[Outages(m, d)]
<1> DEFINE S == Outages(m, d)
           f == Shares(m, d)
           Iter(g) == g = [s \in SUBSET S |->
             IF s = {} THEN 0
             ELSE Overlap(m, CHOOSE x \in s : TRUE, d) + g[s \ {CHOOSE x \in s : TRUE}]]
           g0 == CHOOSE g : Iter(g)
<1>1. DowntimeOf(m, d) = g0[S]
  BY DEF DowntimeOf, MapThenSumSet, MapThenFoldSet
<1>2. f \in [S -> Nat] /\ \A e \in S : f[e] = Overlap(m, e, d)
  BY DEF Shares
<1> HIDE DEF S, f
<1>3. PICK g \in [SUBSET S -> Nat] : \A s \in SUBSET S : Sums(f, g, s)
  BY <1>2, SumExists DEF S
<1>4. \A s \in SUBSET S : s # {} => f[Pick(s)] = Overlap(m, CHOOSE x \in s : TRUE, d)
  BY <1>2, Zenon DEF Pick
<1>5. Iter(g)
  BY <1>3, <1>4, Zenon DEF Sums, Pick
<1>6. Iter(g0)
  <2> HIDE DEF Iter
  <2>1. QED
    BY <1>5, Zenon
<1> HIDE DEF g0
<1>7. \A s \in SUBSET S : Sums(f, g0, s)
  <2>1. \A s \in SUBSET S : g0[s] = IF s = {} THEN 0
          ELSE Overlap(m, CHOOSE x \in s : TRUE, d) + g0[s \ {CHOOSE x \in s : TRUE}]
    BY <1>6, Zenon
  <2>2. QED
    BY <1>4, <2>1 DEF Sums, Pick
<1>8. QED
  BY <1>1, <1>7 DEF S, f

(* It is a natural number.                                                 *)
LEMMA SumIsNatural ==
  ASSUME NEW S, IsFiniteSet(S), NEW f \in [S -> Nat], NEW g, \A s \in SUBSET S : Sums(f, g, s)
  PROVE  g[S] \in Nat
<1> DEFINE C == {n \in Nat : \A s \in SUBSET S : Cardinality(s) = n => g[s] \in Nat}
<1>1. 0 \in C
  <2>1. \A s \in SUBSET S : Cardinality(s) = 0 => s = {}
    BY FS_Subset, FS_EmptySet
  <2>2. g[{}] = 0
    BY DEF Sums
  <2>3. QED
    BY <2>1, <2>2
<1>2. ASSUME NEW n \in Nat, n \in C PROVE n + 1 \in C
  <2> SUFFICES ASSUME NEW s \in SUBSET S, Cardinality(s) = n + 1 PROVE g[s] \in Nat
    OBVIOUS
  <2>1. s # {}
    BY FS_EmptySet
  <2>2. /\ Pick(s) \in s /\ s \ {Pick(s)} \in SUBSET S
        /\ Cardinality(s \ {Pick(s)}) = n
    BY <2>1, PickShrinks
  <2>3. g[s] = f[Pick(s)] + g[s \ {Pick(s)}]
    BY <2>1 DEF Sums
  <2>4. g[s \ {Pick(s)}] \in Nat /\ f[Pick(s)] \in Nat
    BY <1>2, <2>2
  <2>5. QED
    BY <2>3, <2>4
<1>3. Cardinality(S) \in Nat
  BY FS_CardinalityType
<1>4. Cardinality(S) \in C
  <2> HIDE DEF C
  <2>1. QED
    BY <1>1, <1>2, <1>3, AllNaturals
<1>5. QED
  BY <1>4

----------------------------------------------------------------------------
(* Types.                                                                  *)

(* The tables are finite.                                                  *)
FiniteInv == \A m \in Monitors : IsFiniteSet(events[m]) /\ IsFiniteSet(raw[m])

(* An outage that overlaps a day does so for a positive time.              *)
LEMMA OverlapPositive ==
  ASSUME ShapeInv, NEW m \in Monitors, NEW d \in Int, NEW e \in Outages(m, d)
  PROVE  /\ ResolvedAt(m, e, DayStart(d + 1)) \in Int
         /\ ResolvedAt(m, e, DayStart(d + 1)) =< DayStart(d + 1)
         /\ e.at < ResolvedAt(m, e, DayStart(d + 1))
         /\ Max({e.at, DayStart(d)}) = IF e.at < DayStart(d) THEN DayStart(d) ELSE e.at
         /\ Overlap(m, e, d) \in Nat
<1> DEFINE start == DayStart(d)
           end == DayStart(d + 1)
           later == {f \in events[m] : f.type # "resume" /\ f.at > e.at /\ f.at < end}
           next == {f \in later : f.type = "up" /\ \A g \in later : f.at =< g.at}
           at == ResolvedAt(m, e, end)
<1>1. start \in Int /\ end \in Int
  BY ConstantsAssumption, SMTT(20) DEF DayStart
<1>2. e.at \in Nat /\ e.at < end /\ at > start /\ \A f \in events[m] : f.at \in Nat
  BY DEF Outages, ShapeInv, RetentionInv, Event
<1>3. at = IF next = {} THEN end ELSE (CHOOSE f \in next : TRUE).at
  BY DEF ResolvedAt
<1>4. next # {} => (CHOOSE f \in next : TRUE) \in next
  OBVIOUS
<1> HIDE DEF start, end, at
<1>5. at \in Int /\ at =< end /\ e.at < at
  <2>1. CASE next = {}
    BY <1>1, <1>2, <1>3, <2>1
  <2>2. CASE next # {}
    <3> DEFINE f == CHOOSE f \in next : TRUE
    <3>1. f \in next /\ at = f.at
      BY <1>3, <1>4, <2>2
    <3> HIDE DEF f
    <3>2. f \in events[m] /\ f.at > e.at /\ f.at < end
      BY <3>1
    <3>3. QED
      BY <1>1, <1>2, <3>1, <3>2
  <2>3. QED
    BY <2>1, <2>2
<1>6. ASSUME NEW a \in Int, NEW b \in Int PROVE Max({a, b}) = IF a < b THEN b ELSE a
  BY DEF Max
<1>7. Max({e.at, start}) = IF e.at < start THEN start ELSE e.at
  BY <1>1, <1>2, <1>6
<1>8. at - Max({e.at, start}) \in Nat
  BY <1>1, <1>2, <1>5, <1>7
<1>9. QED
  BY <1>5, <1>7, <1>8 DEF Overlap, start, end, at

LEMMA DowntimeNatural ==
  ASSUME ShapeInv, FiniteInv, NEW m \in Monitors, NEW d \in Int
  PROVE  DowntimeOf(m, d) \in Nat
<1>1. IsFiniteSet(Outages(m, d))
  BY FS_Subset DEF FiniteInv, Outages
<1>2. \A e \in Outages(m, d) : Overlap(m, e, d) \in Nat
  BY OverlapPositive
<1>3. PICK g : /\ \A s \in SUBSET Outages(m, d) : Sums(Shares(m, d), g, s)
               /\ DowntimeOf(m, d) = g[Outages(m, d)]
  BY <1>1, <1>2, SumUnfolds
<1>4. Shares(m, d) \in [Outages(m, d) -> Nat]
  BY <1>2 DEF Shares
<1>5. QED
  BY <1>1, <1>3, <1>4, SumIsNatural

LEMMA RolledUpType ==
  ASSUME ShapeInv, FiniteInv, NEW m \in Monitors, NEW d \in Int
  PROVE  RolledUp(m, d) \in DailyStat \cup {NoStat}
<1>1. IsFiniteSet(Counted(raw[m], d)) /\ IsFiniteSet(Failures(Counted(raw[m], d)))
  <2>1. Counted(raw[m], d) \in SUBSET raw[m] /\ Failures(Counted(raw[m], d)) \in SUBSET raw[m]
    BY DEF Counted, OfDay, Failures
  <2>2. QED
    BY <2>1, FS_Subset DEF FiniteInv
<1>2. /\ Cardinality(Counted(raw[m], d)) \in Nat
      /\ Cardinality(Failures(Counted(raw[m], d))) \in Nat
  BY <1>1, FS_CardinalityType
<1>3. DowntimeOf(m, d) \in Nat
  BY DowntimeNatural
<1>4. \/ RolledUp(m, d) = NoStat
      \/ RolledUp(m, d) = [checkins |-> Cardinality(Counted(raw[m], d)),
                           failures |-> Cardinality(Failures(Counted(raw[m], d))),
                           downtime |-> DowntimeOf(m, d)]
  BY Zenon DEF RolledUp, DowntimeOf
<1>5. QED
  BY <1>2, <1>3, <1>4 DEF DailyStat

LEMMA FiniteStep ==
  ASSUME ShapeInv, FiniteInv, [Next]_vars
  PROVE  FiniteInv'
<1> SUFFICES ASSUME NEW n \in Monitors PROVE IsFiniteSet(events'[n]) /\ IsFiniteSet(raw'[n])
  BY DEF FiniteInv
<1>1. /\ IsFiniteSet(events[n]) /\ IsFiniteSet(raw[n])
      /\ DOMAIN events = Monitors /\ DOMAIN raw = Monitors
  BY DEF FiniteInv, ShapeInv, RetentionInv
<1> DEFINE P == IsFiniteSet(events'[n]) /\ IsFiniteSet(raw'[n])
<1>2. ASSUME events'[n] \subseteq events[n], raw'[n] \subseteq raw[n] PROVE P
  BY <1>1, <1>2, FS_Subset
<1>3. ASSUME NEW m \in Monitors, NEW e, events' = [events EXCEPT ![m] = @ \cup {e}], raw' = raw
      PROVE  P
  <2>1. events'[n] = events[n] \/ events'[n] = events[n] \cup {e}
    BY <1>1, <1>3
  <2>2. QED
    BY <1>1, <1>3, <2>1, FS_AddElement
<1>4. ASSUME NEW m \in Monitors, Transition(m) \/ ResumeMonitor(m) PROVE P
  <2>1. PICK e : events' = [events EXCEPT ![m] = @ \cup {e}] /\ raw' = raw
    BY <1>4 DEF Transition, ResumeMonitor, Write
  <2>2. QED
    BY <1>3, <2>1
<1>5. ASSUME NEW m \in Monitors, NEW kind \in RowKinds, InsertRaw(m, kind) PROVE P
  <2>1. PICK r : raw' = [raw EXCEPT ![m] = @ \cup {r}] /\ events' = events
    BY <1>5 DEF InsertRaw
  <2>2. raw'[n] = raw[n] \/ raw'[n] = raw[n] \cup {r}
    BY <1>1, <2>1
  <2>3. QED
    BY <1>1, <2>1, <2>2, FS_AddElement
<1>6. ASSUME NEW m \in Monitors, DeleteMonitor(m) PROVE P
  <2>1. events'[n] \subseteq events[n] /\ raw'[n] \subseteq raw[n]
    BY <1>1, <1>6 DEF DeleteMonitor
  <2>2. QED
    BY <1>2, <2>1
<1>7. ASSUME NEW w \in Workers, Pruning(w) PROVE P
  BY <1>2, <1>7, PruningKeeps
<1>8. CASE UNCHANGED <<events, raw>>
  BY <1>1, <1>8
<1> HIDE DEF P
<1>9. P
  BY <1>4, <1>5, <1>6, <1>7, <1>8 DEF P, Next, vars, Pruning, Tick, ResolveAlert, Remind, StartTick,
     RollupDone, RollupFails, UpsertDailyStat, SelectEvents, PruneFails, Restart
<1>10. QED
  BY <1>9 DEF P

(* The parts of TypeOK that the invariants so far do not give.             *)
Stat == DailyStat \cup {NoStat}
Phase == {"idle", "upsert", "delete"} \cup {Tables[i] : i \in 1 .. 3}
Replica == [pc: Phase, last: {Never, -1} \cup Days, today: Days, todo: [Monitors -> Stat],
            batch: SUBSET (Monitors \X Event)]

StatTypes ==
    /\ daily \in [Monitors -> [Days -> Stat]]
    /\ worker \in [Workers -> Replica]
    /\ torn \subseteq Monitors
    /\ faults \in Nat /\ ops \in Nat

LEMMA ReplicaFields ==
  ASSUME NEW r \in Replica
  PROVE  /\ r.last \in {Never, -1} \cup Days /\ r.today \in Days /\ r.today - 1 \in {-1} \cup Days
         /\ Idle(r.last) \in Replica
         /\ NoStats \in [Monitors -> Stat] /\ r.todo \in [Monitors -> Stat]
         /\ "checkins" \in Phase
<1>1. r.last \in {Never, -1} \cup Days /\ r.today \in Days /\ r.todo \in [Monitors -> Stat]
  BY DEF Replica
<1>2. Day(MaxTime) \in Nat /\ Day(0) \in Nat
  BY DayBounds, ConstantsAssumption
<1>3. 0 \in Days /\ r.today - 1 \in {-1} \cup Days
  BY <1>1, <1>2 DEF Days
<1>4. NoStats \in [Monitors -> Stat]
  BY DEF NoStats, Stat
<1>5. Tables[1] = "checkins"
  BY DEF Tables
<1>6. "checkins" \in Phase
  BY <1>5 DEF Phase
<1>7. Idle(r.last) \in Replica
  BY <1>1, <1>3, <1>4 DEF Idle, Replica, Phase
<1>8. QED
  BY <1>1, <1>3, <1>4, <1>6, <1>7

LEMMA StatTypesStep ==
  ASSUME ShapeInv, FiniteInv, StatTypes, [Next]_vars
  PROVE  StatTypes'
<1>1. /\ daily \in [Monitors -> [Days -> Stat]] /\ worker \in [Workers -> Replica]
      /\ torn \subseteq Monitors /\ faults \in Nat /\ ops \in Nat
  BY DEF StatTypes
<1>2. faults' \in Nat /\ ops' \in Nat
  <2> DEFINE P == faults' \in Nat /\ ops' \in Nat
  <2>1. ASSUME NEW m \in Monitors,
               \/ \E kind \in RowKinds : InsertRaw(m, kind)
               \/ Transition(m) \/ ResumeMonitor(m) \/ Remind(m) \/ DeleteMonitor(m)
        PROVE  P
    BY <1>1, <2>1 DEF InsertRaw, Transition, ResumeMonitor, Remind, Operation, DeleteMonitor
  <2>2. ASSUME NEW w \in Workers, Working(w) PROVE P
    BY <1>1, <2>2 DEF Working, StartTick, RollupDone, RollupFails, UpsertFails, Fault,
       UpsertDailyStat, SelectEvents, PruneFails, Restart
  <2>3. ASSUME NEW w \in Workers, Pruning(w) PROVE P
    BY <1>1, <2>3, PruningKeeps
  <2>4. ASSUME UNCHANGED <<faults, ops>> PROVE P
    BY <1>1, <2>4
  <2> HIDE DEF P
  <2>5. P
    BY <2>1, <2>2, <2>3, <2>4 DEF Next, vars, Working, Pruning, Tick, ResolveAlert
  <2>6. QED
    BY <2>5 DEF P
<1>3. daily' \in [Monitors -> [Days -> Stat]]
  <2>1. CASE daily' = daily
    BY <1>1, <2>1
  <2>2. ASSUME NEW m \in Monitors, DeleteMonitor(m) PROVE daily' \in [Monitors -> [Days -> Stat]]
    <3>1. [d \in Days |-> NoStat] \in [Days -> Stat]
      BY DEF Stat
    <3>2. QED
      BY <1>1, <2>2, <3>1 DEF DeleteMonitor
  <2>3. ASSUME NEW w \in Workers, NEW m \in Monitors, UpsertDailyStat(w, m)
        PROVE  daily' \in [Monitors -> [Days -> Stat]]
    <3>1. worker[w].todo[m] \in Stat
      BY <1>1, ReplicaFields
    <3>2. QED
      BY <1>1, <2>3, <3>1 DEF UpsertDailyStat
  <2>4. QED
    BY <2>1, <2>2, <2>3 DEF Next, vars, Tick, ResolveAlert, InsertRaw, Transition, ResumeMonitor,
       Remind, Operation, StartTick, RollupDone, RollupFails, PruneRaw, SelectEvents, DeleteEvents,
       PruneFails, Restart
<1>4. worker' \in [Workers -> Replica]
  <2>1. ASSUME NEW v \in Workers, NEW r \in Replica, worker' = [worker EXCEPT ![v] = r]
        PROVE  worker' \in [Workers -> Replica]
    BY <1>1, <2>1
  <2>2. ASSUME NEW v \in Workers PROVE worker[v] \in Replica
    BY <1>1
  <2>3. ASSUME NEW r \in Replica, NEW p \in Phase, NEW l \in {Never, -1} \cup Days,
               NEW t \in Days, NEW todo \in [Monitors -> Stat]
        PROVE  [r EXCEPT !.pc = p, !.last = l, !.today = t, !.todo = todo] \in Replica
    BY DEF Replica
  <2>4. ASSUME NEW v \in Workers, StartTick(v) PROVE worker' \in [Workers -> Replica]
    <3>1. Day(clock) \in Days
      BY DayMonotone, ConstantsAssumption DEF ShapeInv, RetentionInv, Days
    <3>2. \A m \in Monitors : RolledUp(m, Day(clock) - 1) \in Stat
      BY <3>1, RolledUpType DEF Stat, Days
    <3>3. [m \in Monitors |-> RolledUp(m, Day(clock) - 1)] \in [Monitors -> Stat]
      BY <3>2
    <3> DEFINE todo == [m \in Monitors |-> RolledUp(m, Day(clock) - 1)]
    <3> HIDE DEF todo
    <3>4. \/ worker' = [worker EXCEPT ![v].pc = "checkins", ![v].today = Day(clock)]
          \/ worker' = [worker EXCEPT ![v].pc = "upsert", ![v].today = Day(clock),
                                      ![v].todo = todo]
      BY <2>4 DEF StartTick, todo
    <3>5. "checkins" \in Phase /\ "upsert" \in Phase /\ todo \in [Monitors -> Stat]
      BY <2>2, <3>3, ReplicaFields DEF Phase, todo
    <3>6. CASE worker' = [worker EXCEPT ![v].pc = "checkins", ![v].today = Day(clock)]
      BY <1>1, <3>1, <3>5, <3>6 DEF Replica
    <3>7. CASE worker' = [worker EXCEPT ![v].pc = "upsert", ![v].today = Day(clock),
                                        ![v].todo = todo]
      <4> DEFINE r == [worker[v] EXCEPT !.pc = "upsert", !.today = Day(clock), !.todo = todo]
      <4>1. r \in Replica
        BY <2>2, <3>1, <3>5 DEF Replica
      <4>2. worker' = [worker EXCEPT ![v] = r]
        BY <3>7
      <4>3. QED
        BY <2>1, <4>1, <4>2
    <3>8. QED
      BY <3>4, <3>6, <3>7
  <2>5. ASSUME NEW v \in Workers, NEW m \in Monitors, UpsertDailyStat(v, m)
        PROVE  worker' \in [Workers -> Replica]
    <3>1. worker' = [worker EXCEPT ![v].todo[m] = NoStat] /\ NoStat \in Stat
      BY <2>5 DEF UpsertDailyStat, Stat
    <3>2. QED
      BY <1>1, <3>1 DEF Replica
  <2>6. ASSUME NEW v \in Workers, RollupDone(v) PROVE worker' \in [Workers -> Replica]
    <3>1. worker[v].today - 1 \in {-1} \cup Days /\ "checkins" \in Phase
      BY <2>2, ReplicaFields
    <3>2. worker' = [worker EXCEPT ![v].pc = "checkins", ![v].last = worker[v].today - 1]
      BY <2>6 DEF RollupDone
    <3>3. QED
      BY <1>1, <3>1, <3>2 DEF Replica
  <2>7. ASSUME NEW v \in Workers, RollupFails(v) PROVE worker' \in [Workers -> Replica]
    <3>1. NoStats \in [Monitors -> Stat] /\ "checkins" \in Phase
      BY <2>2, ReplicaFields
    <3>2. worker' = [worker EXCEPT ![v].pc = "checkins", ![v].todo = NoStats]
      BY <2>7 DEF RollupFails
    <3>3. QED
      BY <1>1, <3>1, <3>2 DEF Replica
  <2>8. ASSUME NEW v \in Workers, Pruning(v) PROVE worker' \in [Workers -> Replica]
    <3> DEFINE At(pc) == [worker[v] EXCEPT !.pc = pc]
               Again == [worker[v] EXCEPT !.pc = "events", !.batch = {}]
    <3>1. ASSUME NEW p \in {Tables[i] : i \in 1 .. 3} PROVE At(p) \in Replica
      <4>1. p \in Phase
        BY DEF Phase
      <4>2. QED
        BY <2>2, <4>1 DEF Replica
    <3>2. Again \in Replica
      <4>1. Tables[3] = "events" /\ 3 \in 1 .. 3
        BY DEF Tables
      <4>2. "events" \in Phase
        BY <4>1 DEF Phase
      <4>3. QED
        BY <2>2, <4>2 DEF Replica
    <3>3. Idle(worker[v].last) \in Replica
      BY <2>2, ReplicaFields
    <3>4. CASE PruneRaw(v)
      <4>1. PICK i \in 1 .. 2 : \E batch :
              /\ worker[v].pc = Tables[i]
              /\ worker' = [worker EXCEPT ![v].pc =
                   IF Cardinality(batch) = BatchLimit THEN @ ELSE Tables[i + 1]]
        BY <3>4 DEF PruneRaw
      <4>2. i \in 1 .. 3 /\ i + 1 \in 1 .. 3
        OBVIOUS
      <4>3. PICK p \in {Tables[j] : j \in 1 .. 3} : worker' = [worker EXCEPT ![v] = At(p)]
        BY <4>1, <4>2
      <4> HIDE DEF At
      <4>4. QED
        BY <2>1, <3>1, <4>3
    <3>5. CASE DeleteEvents(v)
      <4>1. \/ worker' = [worker EXCEPT ![v] = Again]
            \/ worker' = [worker EXCEPT ![v] = Idle(worker[v].last)]
        BY <3>5 DEF DeleteEvents
      <4> HIDE DEF Again
      <4>2. QED
        BY <2>1, <3>2, <3>3, <4>1
    <3>6. QED
      BY <2>8, <3>4, <3>5 DEF Pruning
  <2>9. ASSUME NEW v \in Workers, PruneFails(v) PROVE worker' \in [Workers -> Replica]
    <3>1. worker' = [worker EXCEPT ![v] = Idle(@.last)] /\ Idle(worker[v].last) \in Replica
      BY <2>2, <2>9, ReplicaFields DEF PruneFails
    <3>2. QED
      BY <1>1, <2>1, <3>1
  <2>10. ASSUME NEW v \in Workers, Restart(v) PROVE worker' \in [Workers -> Replica]
    <3>1. worker' = [worker EXCEPT ![v] = Idle(Never)]
      BY <2>10 DEF Restart
    <3>2. Idle(Never) \in Replica
      <4>1. [worker[v] EXCEPT !.last = Never] \in Replica
        BY <2>2 DEF Replica
      <4>2. [worker[v] EXCEPT !.last = Never].last = Never
        BY <2>2 DEF Replica
      <4>3. QED
        BY <4>1, <4>2, ReplicaFields
    <3>3. QED
      BY <2>1, <3>1, <3>2
  <2>11. ASSUME NEW v \in Workers, SelectEvents(v) PROVE worker' \in [Workers -> Replica]
    <3> DEFINE old == UNION {{<<m, e>> : e \in OldEvents(m, Cutoff(worker[v].today))} : m \in Monitors}
    <3>1. PICK batch \in SUBSET old :
            worker' = [worker EXCEPT ![v].pc = "delete", ![v].batch = batch]
      BY <2>11 DEF SelectEvents, Batches, kSubset
    <3>2. batch \in SUBSET (Monitors \X Event) /\ "delete" \in Phase
      <4>1. \A m \in Monitors : OldEvents(m, Cutoff(worker[v].today)) \subseteq Event
        BY DEF OldEvents, ShapeInv, RetentionInv
      <4>2. QED
        BY <3>1, <4>1 DEF Phase
    <3> HIDE DEF old
    <3>3. QED
      BY <1>1, <3>1, <3>2 DEF Replica
  <2>12. CASE worker' = worker
    BY <1>1, <2>12
  <2>13. QED
    BY <2>4, <2>5, <2>6, <2>7, <2>8, <2>9, <2>10, <2>11, <2>12 DEF Next, vars, Pruning, Tick,
       ResolveAlert, InsertRaw, Transition, ResumeMonitor, Remind, Operation, DeleteMonitor
<1>5. torn' \subseteq Monitors
  BY <1>1 DEF Next, vars, Tick, ResolveAlert, InsertRaw, Transition, ResumeMonitor, Remind, Operation,
     DeleteMonitor, StartTick, RollupDone, RollupFails, UpsertDailyStat, PruneRaw, SelectEvents,
     DeleteEvents, PruneFails, Restart
<1>6. QED
  BY <1>2, <1>3, <1>4, <1>5 DEF StatTypes

LEMMA FiniteInit == Init => FiniteInv /\ StatTypes
<1> SUFFICES ASSUME Init PROVE FiniteInv /\ StatTypes
  OBVIOUS
<1>1. FiniteInv
  BY FS_EmptySet DEF Init, FiniteInv
<1>2. Day(MaxTime) \in Nat /\ 0 \in Days /\ NoStat \in Stat
  BY DayBounds, ConstantsAssumption DEF Days, Stat
<1>3. Idle(Never) \in Replica
  <2>1. NoStats \in [Monitors -> Stat]
    BY <1>2 DEF NoStats
  <2>2. QED
    BY <1>2, <2>1 DEF Idle, Replica, Phase
<1>4. daily \in [Monitors -> [Days -> Stat]]
  BY <1>2 DEF Init
<1>5. worker \in [Workers -> Replica] /\ torn \subseteq Monitors /\ faults \in Nat /\ ops \in Nat
  BY <1>3 DEF Init
<1>6. QED
  BY <1>1, <1>4, <1>5 DEF StatTypes

(* All invariants of Rollup so far hold.                                   *)
LEMMA Shapes == Spec => [](ShapeInv /\ PastInv /\ OutageInv /\ FiniteInv /\ StatTypes)
<1>1. ShapeInv /\ PastInv /\ OutageInv /\ FiniteInv /\ StatTypes /\ [Next]_vars
        => (ShapeInv /\ PastInv /\ OutageInv /\ FiniteInv /\ StatTypes)'
  BY ShapeStep, PastStep, OutageStep, FiniteStep, StatTypesStep
<1>2. QED
  BY <1>1, RollupInit, FiniteInit, PTL DEF Spec

(* Every variable keeps its type; in particular no daily statistic is      *)
(* negative, although downtime is a sum of differences of times.           *)
THEOREM RollupTypeCorrect == Spec => []TypeOK
<1>1. ShapeInv /\ StatTypes /\ AlertInv => TypeOK
  <2> SUFFICES ASSUME ShapeInv, StatTypes, AlertInv PROVE TypeOK
    OBVIOUS
  <2>1. clock \in 0 .. MaxTime
    BY ConstantsAssumption DEF ShapeInv, RetentionInv
  <2>2. /\ mon \in [Monitors -> [stored: BOOLEAN, down: BOOLEAN]]
        /\ events \in [Monitors -> SUBSET Event] /\ raw \in [Monitors -> SUBSET Raw]
        /\ history \in [Monitors -> [raw: SUBSET Raw, down: SUBSET Nat]]
        /\ pending \subseteq Alert
    BY DEF ShapeInv, RetentionInv, AlertInv
  <2>3. QED
    BY <2>1, <2>2, Zenon DEF TypeOK, StatTypes, Stat, Replica, Phase
<1>2. QED
  BY <1>1, Shapes, AlertAlways, PTL

----------------------------------------------------------------------------
(* Exact statistics.  A resume that ends an outage leaves no "up", and     *)
(* pruning out of order may leave a "down" without its "up"; the           *)
(* statistics are exact without either.                                    *)

(* Downs and ups take turns, the latest of them is the monitor's state,    *)
(* and an outage lasts from its "down" to its "up".                        *)
Turns(evs, row, now, downs) ==
    /\ row.down => \A f \in evs : f.type = "up" =>
         \E e \in evs : e.type = "down" /\ e.at > f.at
    /\ ~row.down => \A e \in evs : e.type = "down" =>
         \E f \in evs : f.type = "up" /\ f.at > e.at
    /\ \A e, g \in evs : e.type = "down" /\ g.type = "down" /\ e.at < g.at =>
         \E f \in evs : f.type = "up" /\ e.at < f.at /\ f.at < g.at
    /\ \A e \in evs : e.type = "down" => \A t \in e.at .. now - 1 :
         \/ t \in downs
         \/ \E f \in evs : f.type = "up" /\ e.at < f.at /\ f.at =< t

TurnsInv ==
    \A m \in Monitors \ torn : mon[m].stored => Turns(events[m], mon[m], clock, history[m].down)

(* The statistic is the truth about a day of the past, its downtime only   *)
(* if whole.                                                               *)
Exact(past, d, stat, whole) ==
    LET rows == Counted(past.raw, d) IN
    stat # NoStat =>
      /\ stat.checkins = Cardinality(rows)
      /\ stat.failures = Cardinality(Failures(rows))
      /\ whole /\ ~(DayStart(d + 1 - Retention) - 1 .. DayStart(d) - 1 \subseteq past.down) =>
           stat.downtime = Cardinality({t \in past.down : Day(t) = d})

(* What is stored is exact, and so is what a replica is about to store.    *)
ExactInv ==
    /\ \A m \in Monitors : raw[m] \subseteq history[m].raw
    /\ \A m \in Monitors, d \in Days : daily[m][d] # NoStat =>
         d < Day(clock) /\ Exact(history[m], d, daily[m][d], m \notin torn)
    /\ \A w \in Workers, m \in Monitors : worker[w].pc = "upsert" /\ mon[m].stored =>
         Exact(history[m], worker[w].today - 1, worker[w].todo[m], m \notin torn)

(* Who is torn stays so.                                                   *)
LEMMA TornStays ==
  ASSUME [Next]_vars
  PROVE  torn \subseteq torn'
  BY DEF Next, vars, Tick, ResolveAlert, InsertRaw, Transition, ResumeMonitor, Remind, Operation,
     DeleteMonitor, StartTick, RollupDone, RollupFails, UpsertDailyStat, PruneRaw, SelectEvents,
     DeleteEvents, PruneFails, Restart

(* Unless it tears a monitor, pruning keeps the order of its transitions:  *)
(* one stays as long as an earlier one.                                    *)
LEMMA PruneInOrder ==
  ASSUME NEW w \in Workers, Pruning(w), NEW m \in Monitors, m \notin torn',
         NEW e \in events'[m], NEW f \in events[m], e.at < f.at,
         e.type # "resume", f.type # "resume"
  PROVE  f \in events'[m]
<1>1. CASE PruneRaw(w)
  BY <1>1 DEF PruneRaw
<1>2. CASE DeleteEvents(w)
  <2>1. /\ events' = [n \in Monitors |-> Left(n, worker[w].batch)]
        /\ torn' = torn \cup {n \in Monitors : OutOfOrder(n, worker[w].batch)}
    BY <1>2 DEF DeleteEvents
  <2>2. ~OutOfOrder(m, worker[w].batch) /\ events'[m] = Left(m, worker[w].batch)
    BY <2>1
  <2>3. QED
    BY <2>2 DEF OutOfOrder
<1>3. QED
  BY <1>1, <1>2 DEF Pruning

(* What a step does to the events of a stored monitor.                     *)
LEMMA TurnMoves ==
  ASSUME ShapeInv, ~ResumeEndsOutage, [Next]_vars, NEW m \in Monitors, mon'[m].stored
  PROVE  \/ /\ events'[m] = events[m] /\ mon'[m] = mon[m] /\ clock' = clock
            /\ history'[m].down = history[m].down
         \/ Tick \/ Transition(m) \/ ResumeMonitor(m) \/ \E w \in Workers : Pruning(w)
<1>1. /\ DOMAIN events = Monitors /\ DOMAIN mon = Monitors /\ DOMAIN history = Monitors
      /\ \A n \in Monitors : DOMAIN history[n] = {"raw", "down"}
  BY DEF ShapeInv, RetentionInv
<1> DEFINE Same == /\ events'[m] = events[m] /\ mon'[m] = mon[m] /\ clock' = clock
                   /\ history'[m].down = history[m].down
<1>2. ASSUME NEW n \in Monitors, Transition(n) \/ ResumeMonitor(n), n # m PROVE Same
  <2>1. PICK type : Write(n, type)
    BY <1>2 DEF Transition, ResumeMonitor
  <2>2. events'[m] = events[m]
    BY <1>1, <1>2, <2>1 DEF Write
  <2>3. PICK row : mon' = [mon EXCEPT ![n].down = row]
    BY <1>2 DEF Transition, ResumeMonitor
  <2>4. mon'[m] = mon[m]
    BY <1>1, <1>2, <2>3
  <2>5. QED
    BY <1>2, <2>2, <2>4 DEF Transition, ResumeMonitor, Operation
<1>3. ASSUME NEW n \in Monitors, Remind(n) \/ \E kind \in RowKinds : InsertRaw(n, kind) PROVE Same
  <2>1. events' = events /\ mon' = mon /\ clock' = clock
    BY <1>3 DEF Remind, InsertRaw, Operation
  <2>2. CASE Remind(n)
    BY <2>1, <2>2 DEF Remind
  <2>3. CASE \E kind \in RowKinds : InsertRaw(n, kind)
    <3>1. PICK r : history' = [history EXCEPT ![n].raw = r]
      BY <2>3 DEF InsertRaw
    <3>2. history'[m].down = history[m].down
      BY <1>1, <3>1
    <3>3. QED
      BY <2>1, <3>2
  <2>4. QED
    BY <1>3, <2>2, <2>3
<1>4. ASSUME NEW n \in Monitors, DeleteMonitor(n) PROVE Same
  <2>1. n # m
    BY <1>1, <1>4 DEF DeleteMonitor
  <2>2. QED
    BY <1>1, <1>4, <2>1 DEF DeleteMonitor
<1>5. ASSUME NEW w \in Workers, Working(w) PROVE Same
  BY <1>5 DEF Working, StartTick, RollupDone, RollupFails, UpsertDailyStat, SelectEvents, PruneFails,
     Restart
<1>6. ASSUME (\E a \in pending : ResolveAlert(a)) \/ UNCHANGED vars PROVE Same
  BY <1>6 DEF ResolveAlert, vars
<1> HIDE DEF Same
<1>7. QED
  BY <1>2, <1>3, <1>4, <1>5, <1>6 DEF Next, Working, Pruning, Same

(* The turns go on.                                                        *)
LEMMA TurnsStep ==
  ASSUME ~ResumeEndsOutage, ShapeInv, PastInv, TurnsInv, [Next]_vars
  PROVE  TurnsInv'
<1> SUFFICES ASSUME NEW m \in Monitors \ torn', mon'[m].stored
             PROVE  Turns(events'[m], mon'[m], clock', history'[m].down)
  BY DEF TurnsInv
<1>1. Turns(events[m], mon[m], clock, history[m].down)
  BY MonitorMoves, TornStays DEF TurnsInv
<1>2. /\ clock \in Nat /\ \A e \in events[m] : e.at \in Nat /\ e.at =< clock
      /\ DOMAIN events = Monitors /\ DOMAIN mon = Monitors /\ DOMAIN history = Monitors
      /\ \A n \in Monitors : DOMAIN mon[n] = {"stored", "down"}
  BY DEF PastInv, ShapeInv, RetentionInv, Event
<1>3. CASE /\ events'[m] = events[m] /\ mon'[m] = mon[m] /\ clock' = clock
           /\ history'[m].down = history[m].down
  BY <1>1, <1>3
<1>4. CASE Tick
  <2>1. events' = events /\ mon' = mon /\ clock' = clock + 1
    BY <1>4 DEF Tick
  <2>2. /\ history[m].down \subseteq history'[m].down
        /\ mon[m].down => clock \in history'[m].down
    BY <1>4, MonitorMoves DEF Tick, ShapeInv
  <2>3. ASSUME NEW e \in events[m], e.type = "down", NEW t \in e.at .. clock
        PROVE  \/ t \in history'[m].down
               \/ \E f \in events[m] : f.type = "up" /\ e.at < f.at /\ f.at =< t
    <3>1. CASE t = clock /\ ~mon[m].down
      <4>1. PICK f \in events[m] : f.type = "up" /\ f.at > e.at
        BY <1>1, <2>3, <3>1 DEF Turns
      <4>2. QED
        BY <1>2, <3>1, <4>1
    <3>2. CASE t = clock /\ mon[m].down
      BY <2>2, <3>2
    <3>3. CASE t # clock
      <4>1. t \in e.at .. clock - 1
        BY <1>2, <3>3
      <4>2. QED
        BY <1>1, <2>2, <2>3, <4>1 DEF Turns
    <3>4. QED
      BY <3>1, <3>2, <3>3
  <2>4. clock' - 1 = clock
    BY <1>2, <2>1
  <2>5. QED
    BY <1>1, <2>1, <2>3, <2>4 DEF Turns
<1>5. CASE ResumeMonitor(m)
  <2>1. /\ clock' = clock /\ history' = history
        /\ events' = [events EXCEPT ![m] = @ \cup {[type |-> "resume", at |-> clock]}]
        /\ ~mon[m].down /\ mon' = [mon EXCEPT ![m].down = FALSE]
    BY <1>5 DEF ResumeMonitor, Operation, Write
  <2>2. ~mon'[m].down
    BY <1>2, <2>1
  <2>3. events'[m] = events[m] \cup {[type |-> "resume", at |-> clock]}
    BY <1>2, <2>1
  <2>4. \A e \in events'[m] : e.type \in {"up", "down"} => e \in events[m]
    BY <2>3
  <2>5. QED
    BY <1>1, <2>1, <2>2, <2>3, <2>4 DEF Turns
<1>6. CASE Transition(m)
  <2> DEFINE new(type) == [type |-> type, at |-> clock]
  <2>1. /\ clock' = clock /\ history' = history /\ \A e \in events[m] : e.at # clock
    BY <1>6 DEF Transition, Operation, Write
  <2>2. \A e \in events[m] : e.at \in Nat /\ e.at < clock
    BY <1>2, <2>1
  <2>3. CASE mon[m].down
    <3>1. ~mon'[m].down /\ events'[m] = events[m] \cup {new("up")}
      BY <1>2, <1>6, <2>3 DEF Transition, Write
    <3>2. new("up") \in events'[m] /\ new("up").type = "up" /\ new("up").at = clock
      BY <3>1
    <3>3. \A e \in events'[m] : e.type = "down" => e \in events[m]
      BY <3>1
    <3> HIDE DEF new
    <3>4. QED
      BY <1>1, <1>2, <2>1, <2>2, <3>1, <3>2, <3>3 DEF Turns
  <2>4. CASE ~mon[m].down
    <3>1. mon'[m].down /\ events'[m] = events[m] \cup {new("down")}
      BY <1>2, <1>6, <2>4 DEF Transition, Write
    <3>2. new("down") \in events'[m] /\ new("down").type = "down" /\ new("down").at = clock
      BY <3>1
    <3>3. \A e \in events'[m] : e \in events[m] \/ e = new("down")
      BY <3>1
    <3> HIDE DEF new
    <3>4. \A e \in events'[m] : e.type = "up" => e \in events[m]
      BY <3>2, <3>3
    <3>5. \A f \in events'[m] : f.type = "up" =>
            \E e \in events'[m] : e.type = "down" /\ e.at > f.at
      BY <1>2, <2>2, <3>2, <3>4
    <3>6. ASSUME NEW e \in events'[m], NEW g \in events'[m],
                 e.type = "down", g.type = "down", e.at < g.at
          PROVE  \E f \in events'[m] : f.type = "up" /\ e.at < f.at /\ f.at < g.at
      <4>1. e \in events[m]
        BY <1>2, <2>2, <3>2, <3>3, <3>6
      <4>2. CASE g \in events[m]
        BY <1>1, <3>1, <3>6, <4>1, <4>2 DEF Turns
      <4>3. CASE g = new("down")
        <5>1. PICK f \in events[m] : f.type = "up" /\ f.at > e.at
          BY <1>1, <2>4, <3>6, <4>1 DEF Turns
        <5>2. QED
          BY <2>2, <3>1, <3>2, <4>3, <5>1
      <4>4. QED
        BY <3>3, <4>2, <4>3
    <3>7. ASSUME NEW e \in events'[m], e.type = "down", NEW t \in e.at .. clock - 1
          PROVE  \/ t \in history[m].down
                 \/ \E f \in events'[m] : f.type = "up" /\ e.at < f.at /\ f.at =< t
      <4>1. e \in events[m]
        BY <1>2, <3>2, <3>3
      <4>2. QED
        BY <1>1, <3>1, <3>7, <4>1 DEF Turns
    <3>8. QED
      BY <2>1, <3>1, <3>5, <3>6, <3>7 DEF Turns
  <2>5. QED
    BY <2>3, <2>4
<1>7. ASSUME NEW w \in Workers, Pruning(w)
      PROVE  Turns(events'[m], mon'[m], clock', history'[m].down)
  <2>1. clock' = clock /\ history' = history /\ mon' = mon
    BY <1>7, PruningKeeps
  <2>2. \A e \in events'[m] : e \in events[m]
    BY <1>7, PruningKeeps
  <2>3. \A e \in events'[m], f \in events[m] :
          e.at < f.at /\ e.type \in {"up", "down"} /\ f.type \in {"up", "down"} => f \in events'[m]
    BY <1>7, PruneInOrder
  <2>4. ASSUME NEW f \in events'[m], f.type = "up", mon[m].down
        PROVE  \E e \in events'[m] : e.type = "down" /\ e.at > f.at
    BY <1>1, <1>2, <2>2, <2>3, <2>4 DEF Turns
  <2>5. ASSUME NEW e \in events'[m], e.type = "down", ~mon[m].down
        PROVE  \E f \in events'[m] : f.type = "up" /\ f.at > e.at
    BY <1>1, <1>2, <2>2, <2>3, <2>5 DEF Turns
  <2>6. ASSUME NEW e \in events'[m], NEW g \in events'[m],
               e.type = "down", g.type = "down", e.at < g.at
        PROVE  \E f \in events'[m] : f.type = "up" /\ e.at < f.at /\ f.at < g.at
    BY <1>1, <1>2, <2>2, <2>3, <2>6 DEF Turns
  <2>7. ASSUME NEW e \in events'[m], e.type = "down", NEW t \in e.at .. clock - 1
        PROVE  \/ t \in history[m].down
               \/ \E f \in events'[m] : f.type = "up" /\ e.at < f.at /\ f.at =< t
    BY <1>1, <1>2, <2>2, <2>3, <2>7 DEF Turns
  <2>8. QED
    BY <2>1, <2>4, <2>5, <2>6, <2>7 DEF Turns
<1>8. QED
  BY <1>3, <1>4, <1>5, <1>6, <1>7, TurnMoves

----------------------------------------------------------------------------
(* The sum of the overlaps is the length of the downtime.                  *)

(* The instants of the intervals of a set of outages.                      *)
Covers(I, s) == UNION {I[e] : e \in s}

(* A sum of the sizes of disjoint sets is the size of their union.         *)
LEMMA SumOfSizes ==
  ASSUME NEW S, IsFiniteSet(S), NEW f \in [S -> Nat], NEW g, \A s \in SUBSET S : Sums(f, g, s),
         NEW I, \A e \in S : IsFiniteSet(I[e]) /\ Cardinality(I[e]) = f[e],
         \A e, h \in S : e # h => I[e] \cap I[h] = {}
  PROVE  g[S] = Cardinality(Covers(I, S))
<1> DEFINE C == {n \in Nat : \A s \in SUBSET S : Cardinality(s) = n =>
                   IsFiniteSet(Covers(I, s)) /\ g[s] = Cardinality(Covers(I, s))}
<1>1. 0 \in C
  <2>1. \A s \in SUBSET S : Cardinality(s) = 0 => s = {}
    BY FS_Subset, FS_EmptySet
  <2>2. g[{}] = 0
    BY DEF Sums
  <2>3. Covers(I, {}) = {}
    BY DEF Covers
  <2>4. IsFiniteSet({}) /\ Cardinality({}) = 0
    BY FS_EmptySet
  <2>5. QED
    BY <2>1, <2>2, <2>3, <2>4
<1>2. ASSUME NEW n \in Nat, n \in C PROVE n + 1 \in C
  <2> SUFFICES ASSUME NEW s \in SUBSET S, Cardinality(s) = n + 1
               PROVE  IsFiniteSet(Covers(I, s)) /\ g[s] = Cardinality(Covers(I, s))
    OBVIOUS
  <2> DEFINE e == Pick(s)
             r == s \ {e}
  <2>1. s # {}
    BY FS_EmptySet
  <2>2. e \in s /\ r \in SUBSET S /\ Cardinality(r) = n
    <3>1. /\ Pick(s) \in s /\ s \ {Pick(s)} \in SUBSET S
          /\ Cardinality(s \ {Pick(s)}) = Cardinality(s) - 1
      BY <2>1, PickShrinks
    <3>2. QED
      BY <3>1
  <2>3. g[s] = f[e] + g[r]
    BY <2>1 DEF Sums
  <2> HIDE DEF e
  <2>4. IsFiniteSet(Covers(I, r)) /\ g[r] = Cardinality(Covers(I, r))
    BY <1>2, <2>2
  <2>5. IsFiniteSet(I[e]) /\ Cardinality(I[e]) = f[e]
    BY <2>2
  <2>6. Covers(I, s) = I[e] \cup Covers(I, r)
    BY <2>2 DEF Covers
  <2>7. I[e] \cap Covers(I, r) = {}
    BY <2>2 DEF Covers
  <2>8. /\ IsFiniteSet(Covers(I, s))
        /\ Cardinality(Covers(I, s)) = Cardinality(I[e]) + Cardinality(Covers(I, r)) - Cardinality({})
    <3> DEFINE A == I[e]
               B == Covers(I, r)
    <3>1. IsFiniteSet(A) /\ IsFiniteSet(B)
      BY <2>4, <2>5
    <3> HIDE DEF A, B
    <3>2. /\ IsFiniteSet(A \cup B)
          /\ Cardinality(A \cup B) = Cardinality(A) + Cardinality(B) - Cardinality(A \cap B)
      BY <3>1, FS_Union
    <3>3. A \cup B = Covers(I, s) /\ A \cap B = {}
      BY <2>6, <2>7 DEF A, B
    <3>4. QED
      BY <3>2, <3>3 DEF A, B
  <2>9. Cardinality({}) = 0 /\ Cardinality(I[e]) \in Nat /\ Cardinality(Covers(I, r)) \in Nat
    BY <2>4, <2>5, FS_EmptySet, FS_CardinalityType
  <2>10. QED
    BY <2>3, <2>4, <2>5, <2>8, <2>9
<1>3. Cardinality(S) \in Nat
  BY FS_CardinalityType
<1>4. Cardinality(S) \in C
  <2> HIDE DEF C
  <2>1. QED
    BY <1>1, <1>2, <1>3, AllNaturals
<1>5. QED
  BY <1>4

(* LEAD finds the end of an outage: the first "up" after its "down", or    *)
(* the end of the day.                                                     *)
LEMMA Resolution ==
  ASSUME ShapeInv, TurnsInv, NEW m \in Monitors \ torn, mon[m].stored, NEW end \in Int,
         NEW e \in events[m], e.type = "down", e.at < end
  PROVE  /\ ResolvedAt(m, e, end) \in Int
         /\ e.at < ResolvedAt(m, e, end) /\ ResolvedAt(m, e, end) =< end
         /\ \A f \in events[m] : f.type = "up" /\ e.at < f.at /\ f.at < end =>
              ResolvedAt(m, e, end) =< f.at
         /\ \/ ResolvedAt(m, e, end) = end
            \/ \E f \in events[m] : f.type = "up" /\ f.at = ResolvedAt(m, e, end)
<1> DEFINE later == {f \in events[m] : f.type # "resume" /\ f.at > e.at /\ f.at < end}
           next == {f \in later : f.type = "up" /\ \A g \in later : f.at =< g.at}
           at == ResolvedAt(m, e, end)
<1>1. \A f \in events[m] : f.at \in Nat /\ f.type \in {"down", "up", "resume"}
  BY DEF ShapeInv, RetentionInv, Event
<1>2. at = IF next = {} THEN end ELSE (CHOOSE f \in next : TRUE).at
  BY DEF ResolvedAt
<1>3. next # {} => (CHOOSE f \in next : TRUE) \in next
  OBVIOUS
<1> HIDE DEF at
<1>4. CASE next # {}
  <2> DEFINE f == CHOOSE f \in next : TRUE
  <2>1. f \in next /\ at = f.at
    BY <1>2, <1>3, <1>4
  <2> HIDE DEF f
  <2>2. /\ f \in events[m] /\ f.type = "up" /\ f.at > e.at /\ f.at < end
        /\ \A g \in later : f.at =< g.at
    BY <2>1
  <2>3. \A g \in events[m] : g.type = "up" /\ e.at < g.at /\ g.at < end => f.at =< g.at
    BY <1>1, <2>2
  <2>4. QED
    BY <1>1, <2>1, <2>2, <2>3 DEF at
<1>5. CASE next = {}
  <2>1. at = end
    BY <1>2, <1>5
  <2>2. ASSUME NEW f \in events[m], f.type = "up", e.at < f.at, f.at < end PROVE FALSE
    <3> DEFINE ats == {g.at : g \in later}
    <3>1. f \in later
      BY <1>1, <2>2
    <3>2. ats # {} /\ ats \subseteq Nat
      BY <1>1, <3>1
    <3>3. PICK x \in ats : \A y \in ats : x =< y
      BY <3>2, LeastOf
    <3>4. PICK g \in later : x = g.at
      BY <3>3
    <3>5. \A h \in later : g.at =< h.at
      BY <3>3, <3>4
    <3>6. g.type # "up"
      BY <1>5, <3>5
    <3>7. g \in events[m] /\ g.type = "down" /\ e.at < g.at /\ g.at < end
      BY <1>1, <3>4, <3>6
    <3>8. PICK h \in events[m] : h.type = "up" /\ e.at < h.at /\ h.at < g.at
      BY <3>7 DEF TurnsInv, Turns
    <3>9. h \in later
      BY <1>1, <3>7, <3>8
    <3>10. QED
      BY <1>1, <3>5, <3>7, <3>8, <3>9
  <2>3. QED
    BY <1>1, <2>1, <2>2 DEF at
<1>6. QED
  BY <1>4, <1>5

(* The instants of a day that an outage takes.                             *)
Instants(m, d) ==
    [e \in Outages(m, d) |->
       Max({e.at, DayStart(d)}) .. ResolvedAt(m, e, DayStart(d + 1)) - 1]

(* The outages of yesterday take its instants of downtime, each instant    *)
(* once.                                                                   *)
LEMMA OutagesPartition ==
  ASSUME ShapeInv, OutageInv, TurnsInv, NEW m \in Monitors \ torn, mon[m].stored,
         NEW d \in Int, d = Day(clock) - 1, ~BeyondRetention(m, d)
  PROVE  /\ \A e \in Outages(m, d) : /\ IsFiniteSet(Instants(m, d)[e])
                                     /\ Cardinality(Instants(m, d)[e]) = Shares(m, d)[e]
         /\ \A e, h \in Outages(m, d) : e # h => Instants(m, d)[e] \cap Instants(m, d)[h] = {}
         /\ Covers(Instants(m, d), Outages(m, d)) = {t \in history[m].down : Day(t) = d}
<1> DEFINE S == Outages(m, d)
           start == DayStart(d)
           end == DayStart(d + 1)
           at(e) == ResolvedAt(m, e, end)
           from(e) == Max({e.at, start})
           D == {t \in history[m].down : Day(t) = d}
<1>1. /\ clock \in Nat /\ start \in Int /\ end \in Int /\ end =< clock /\ d + 1 \in Int
      /\ d + 1 = Day(clock)
  <2>1. clock \in Nat /\ Day(clock) \in Nat
    BY DayBounds DEF ShapeInv, RetentionInv
  <2>2. d + 1 \in Int /\ Day(clock) = d + 1
    BY <2>1
  <2>3. QED
    BY <2>1, <2>2, DayLies
<1>2. ASSUME NEW e \in S
      PROVE  /\ e \in events[m] /\ e.type = "down" /\ e.at \in Nat /\ e.at < end
             /\ at(e) \in Int /\ e.at < at(e) /\ at(e) =< end /\ start < at(e)
             /\ from(e) = IF e.at < start THEN start ELSE e.at
             /\ Overlap(m, e, d) = at(e) - from(e)
  <2>1. e \in events[m] /\ e.type = "down" /\ e.at < end /\ at(e) > start
    BY DEF Outages
  <2>2. e.at \in Nat
    BY <2>1 DEF ShapeInv, RetentionInv, Event
  <2>3. /\ at(e) \in Int /\ at(e) =< end /\ e.at < at(e)
        /\ from(e) = IF e.at < start THEN start ELSE e.at
    BY OverlapPositive
  <2>4. Overlap(m, e, d) = at(e) - from(e)
    BY DEF Overlap
  <2> HIDE DEF at, from, start, end
  <2>5. start < at(e)
    BY <1>1, <2>1, <2>3
  <2>6. QED
    BY <2>1, <2>2, <2>3, <2>4, <2>5
<1>3. \A e \in S : Instants(m, d)[e] = from(e) .. at(e) - 1 /\ Shares(m, d)[e] = Overlap(m, e, d)
  BY DEF Instants, Shares
<1>4. ASSUME NEW e \in S
      PROVE  \A f \in events[m] : f.type = "up" /\ e.at < f.at /\ f.at < end => at(e) =< f.at
  BY <1>1, <1>2, Resolution
<1> HIDE DEF at, from, S, start, end
<1>5. \A e \in S : from(e) \in Int /\ from(e) < at(e) /\ e.at =< from(e) /\ start =< from(e)
  BY <1>1, <1>2
<1>6. ASSUME NEW e \in S
      PROVE  /\ IsFiniteSet(from(e) .. at(e) - 1)
             /\ Cardinality(from(e) .. at(e) - 1) = at(e) - from(e)
  <2>1. from(e) \in Int /\ at(e) - 1 \in Int /\ ~(from(e) > at(e) - 1)
        /\ at(e) - 1 - from(e) + 1 = at(e) - from(e)
    BY <1>2, <1>5
  <2>2. QED
    BY <2>1, FS_Interval
<1>7. ASSUME NEW e \in S, NEW h \in S, e.at < h.at
      PROVE  (from(e) .. at(e) - 1) \cap (from(h) .. at(h) - 1) = {}
  <2>1. PICK f \in events[m] : f.type = "up" /\ e.at < f.at /\ f.at < h.at
    BY <1>2, <1>7 DEF TurnsInv, Turns
  <2>2. f.at \in Nat /\ f.at < end
    BY <1>1, <1>2, <2>1 DEF ShapeInv, RetentionInv, Event
  <2>3. at(e) =< f.at
    BY <1>4, <2>1, <2>2
  <2>4. at(e) < from(h)
    BY <1>2, <1>5, <2>1, <2>2, <2>3
  <2>5. QED
    BY <1>2, <1>5, <2>4
<1>8. ASSUME NEW e \in S, NEW h \in S, e # h
      PROVE  (from(e) .. at(e) - 1) \cap (from(h) .. at(h) - 1) = {}
  <2>1. e \in Event /\ h \in Event /\ e.type = h.type
    BY <1>2 DEF ShapeInv, RetentionInv
  <2>2. e.at # h.at
    BY <1>8, <2>1 DEF Event
  <2>3. e.at < h.at \/ h.at < e.at
    BY <1>2, <2>2
  <2>4. QED
    BY <1>7, <2>3
<1>9. ASSUME NEW e \in S, NEW t \in from(e) .. at(e) - 1 PROVE t \in D
  <2>1. /\ t \in Nat /\ start =< t /\ t < end /\ t < at(e) /\ e.at =< t
        /\ t \in e.at .. clock - 1
    BY <1>1, <1>2, <1>5
  <2>2. Day(t) = d
    <3>1. Day(t) \in Nat /\ ~(Day(t) < d) /\ Day(t) < d + 1
      BY <1>1, <2>1, DayLies, DayBounds DEF start, end
    <3>2. QED
      BY <3>1
  <2>3. ASSUME NEW f \in events[m], f.type = "up", e.at < f.at, f.at =< t PROVE FALSE
    <3>1. f.at \in Nat
      BY DEF ShapeInv, RetentionInv, Event
    <3>2. f.at < end
      BY <1>1, <2>1, <2>3, <3>1
    <3>3. at(e) =< f.at
      BY <1>4, <2>3, <3>2
    <3>4. QED
      BY <1>2, <2>1, <2>3, <3>1, <3>3
  <2>4. t \in history[m].down
    BY <1>2, <2>1, <2>3 DEF TurnsInv, Turns
  <2>5. QED
    BY <2>2, <2>4
<1>10. ASSUME NEW t \in D PROVE \E e \in S : t \in from(e) .. at(e) - 1
  <2>1. t \in Nat /\ start =< t /\ t < end
    BY <1>1, DayLies DEF ShapeInv, start, end
  <2>2. PICK s \in 0 .. t : /\ [type |-> "down", at |-> s] \in events[m]
                            /\ \A f \in events[m] : f.type = "up" => f.at =< s \/ f.at > t
    BY OutageKnown
  <2> DEFINE e == [type |-> "down", at |-> s]
  <2>3. e \in events[m] /\ e.type = "down" /\ e.at = s /\ s \in Nat /\ s =< t /\ e.at < end
    BY <1>1, <2>1, <2>2
  <2> HIDE DEF e
  <2>4. /\ at(e) \in Int /\ e.at < at(e)
        /\ at(e) = end \/ \E f \in events[m] : f.type = "up" /\ f.at = at(e)
    BY <1>1, <2>3, Resolution DEF at
  <2>5. at(e) > t
    BY <2>1, <2>2, <2>3, <2>4
  <2>6. at(e) > start
    BY <1>1, <2>1, <2>4, <2>5
  <2>7. e \in S
    BY <2>3, <2>6 DEF S, Outages, at, start, end
  <2>8. from(e) =< t
    BY <1>1, <1>2, <2>1, <2>3, <2>7
  <2>9. QED
    BY <1>5, <2>1, <2>4, <2>5, <2>7, <2>8
<1>11. \A t : (\E e \in S : t \in Instants(m, d)[e]) <=> t \in D
  BY <1>3, <1>9, <1>10
<1>12. Covers(Instants(m, d), S) = D
  <2> HIDE DEF D
  <2>1. \A t : t \in Covers(Instants(m, d), S) <=> \E e \in S : t \in Instants(m, d)[e]
    BY DEF Covers
  <2>2. QED
    BY <1>11, <2>1
<1>13. \A e \in S : /\ IsFiniteSet(Instants(m, d)[e])
                   /\ Cardinality(Instants(m, d)[e]) = Shares(m, d)[e]
  BY <1>2, <1>3, <1>6
<1>14. \A e, h \in S : e # h => Instants(m, d)[e] \cap Instants(m, d)[h] = {}
  BY <1>3, <1>8
<1>15. QED
  BY <1>12, <1>13, <1>14 DEF S

(* The rollup of yesterday counts its downtime.                            *)
LEMMA DowntimeExact ==
  ASSUME ShapeInv, FiniteInv, OutageInv, TurnsInv, NEW m \in Monitors \ torn, mon[m].stored,
         NEW d \in Int, d = Day(clock) - 1, ~BeyondRetention(m, d)
  PROVE  DowntimeOf(m, d) = Downtime(m, d)
<1>1. IsFiniteSet(Outages(m, d))
  BY FS_Subset DEF FiniteInv, Outages
<1>2. \A e \in Outages(m, d) : Overlap(m, e, d) \in Nat
  BY OverlapPositive
<1>3. PICK g : /\ \A s \in SUBSET Outages(m, d) : Sums(Shares(m, d), g, s)
               /\ DowntimeOf(m, d) = g[Outages(m, d)]
  BY <1>1, <1>2, SumUnfolds
<1>4. Shares(m, d) \in [Outages(m, d) -> Nat]
  BY <1>2 DEF Shares
<1> DEFINE S == Outages(m, d)
           f == Shares(m, d)
           I == Instants(m, d)
<1>5. /\ \A e \in S : IsFiniteSet(I[e]) /\ Cardinality(I[e]) = f[e]
      /\ \A e, h \in S : e # h => I[e] \cap I[h] = {}
      /\ Covers(I, S) = {t \in history[m].down : Day(t) = d}
  BY OutagesPartition
<1> HIDE DEF S, f, I
<1>6. g[S] = Cardinality(Covers(I, S))
  BY <1>1, <1>3, <1>4, <1>5, SumOfSizes DEF S, f
<1>7. QED
  BY <1>3, <1>5, <1>6 DEF S, Downtime

(* RollupDay computes the truth about yesterday.                           *)
LEMMA RolledUpExact ==
  ASSUME ShapeInv, PastInv, FiniteInv, OutageInv, TurnsInv, NEW m \in Monitors, mon[m].stored,
         raw[m] \subseteq history[m].raw
  PROVE  Exact(history[m], Day(clock) - 1, RolledUp(m, Day(clock) - 1), m \notin torn)
<1> DEFINE d == Day(clock) - 1
<1>1. d \in Int /\ d = Day(clock) - 1 /\ Day(clock) \in Nat /\ Retention \in Nat \ {0}
  BY DayBounds, ConstantsAssumption DEF ShapeInv, RetentionInv
<1> HIDE DEF d
<1>2. OfDay(raw[m], d) = OfDay(history[m].raw, d)
  BY <1>1 DEF OfDay, PastInv
<1>3. Counted(raw[m], d) = Counted(history[m].raw, d)
  BY <1>2 DEF Counted
<1>4. \/ RolledUp(m, d) = NoStat
      \/ RolledUp(m, d) = [checkins |-> Cardinality(Counted(raw[m], d)),
                           failures |-> Cardinality(Failures(Counted(raw[m], d))),
                           downtime |-> DowntimeOf(m, d)]
  BY Zenon DEF RolledUp, DowntimeOf
<1>5. m \notin torn /\ ~BeyondRetention(m, d) => DowntimeOf(m, d) = Downtime(m, d)
  BY <1>1, DowntimeExact
<1>6. Exact(history[m], d, RolledUp(m, d), m \notin torn)
  BY <1>3, <1>4, <1>5 DEF Exact, Downtime, BeyondRetention
<1>7. QED
  BY <1>6 DEF d

----------------------------------------------------------------------------
(* The statistics stay exact.                                              *)

(* What happens today changes nothing about the days before.               *)
LEMMA PastIsFrozen ==
  ASSUME ShapeInv, [Next]_vars, NEW m \in Monitors
  PROVE  /\ \A r \in history'[m].raw : r \in history[m].raw \/ r.at = clock
         /\ history[m].raw \subseteq history'[m].raw
<1>1. /\ DOMAIN history = Monitors /\ \A n \in Monitors : DOMAIN history[n] = {"raw", "down"}
  BY DEF ShapeInv
<1> DEFINE P == /\ \A r \in history'[m].raw : r \in history[m].raw \/ r.at = clock
                /\ history[m].raw \subseteq history'[m].raw
<1>2. CASE history' = history
  BY <1>2
<1>3. CASE Tick
  <2>1. history'[m].raw = history[m].raw
    BY <1>1, <1>3 DEF Tick
  <2>2. QED
    BY <2>1
<1>4. ASSUME NEW n \in Monitors, NEW kind \in RowKinds, InsertRaw(n, kind) PROVE P
  <2> DEFINE row == [table |-> kind[1], failed |-> kind[2], at |-> clock]
  <2>1. history' = [history EXCEPT ![n].raw = @ \cup {row}] /\ row.at = clock
    BY <1>4 DEF InsertRaw
  <2> HIDE DEF row
  <2>2. history'[m].raw = history[m].raw \/ history'[m].raw = history[m].raw \cup {row}
    BY <1>1, <2>1
  <2>3. QED
    BY <2>1, <2>2
<1>5. ASSUME NEW n \in Monitors,
             Transition(n) \/ ResumeMonitor(n) \/ Remind(n) \/ DeleteMonitor(n)
      PROVE  history' = history
  BY <1>5 DEF Transition, ResumeMonitor, Remind, DeleteMonitor
<1>6. ASSUME NEW w \in Workers, Working(w) \/ Pruning(w) PROVE history' = history
  BY <1>6, PruningKeeps DEF Working, StartTick, RollupDone, RollupFails, UpsertDailyStat,
     SelectEvents, PruneFails, Restart
<1>7. ASSUME (\E a \in pending : ResolveAlert(a)) \/ UNCHANGED vars PROVE history' = history
  BY <1>7 DEF ResolveAlert, vars
<1>8. QED
  BY <1>2, <1>3, <1>4, <1>5, <1>6, <1>7 DEF Next, Working, Pruning

LEMMA StaysExact ==
  ASSUME ShapeInv, [Next]_vars, NEW m \in Monitors, NEW d \in Int, d < Day(clock),
         NEW stat, Exact(history[m], d, stat, m \notin torn)
  PROVE  Exact(history'[m], d, stat, m \notin torn')
<1>1. clock \in Nat /\ Day(clock) \in Nat /\ Day(clock) # d
  BY DayBounds DEF ShapeInv, RetentionInv
<1>2. OfDay(history'[m].raw, d) = OfDay(history[m].raw, d)
  BY <1>1, PastIsFrozen DEF OfDay
<1>3. Counted(history'[m].raw, d) = Counted(history[m].raw, d)
  BY <1>2 DEF Counted
<1>4. {t \in history'[m].down : Day(t) = d} = {t \in history[m].down : Day(t) = d}
  BY <1>1, MonitorMoves
<1>5. history[m].down \subseteq history'[m].down
  BY MonitorMoves
<1>6. QED
  BY <1>3, <1>4, <1>5, TornStays DEF Exact

LEMMA RawStep ==
  ASSUME ShapeInv, [Next]_vars, NEW m \in Monitors, raw[m] \subseteq history[m].raw
  PROVE  raw'[m] \subseteq history'[m].raw
<1>1. /\ DOMAIN raw = Monitors /\ DOMAIN history = Monitors
      /\ \A n \in Monitors : DOMAIN history[n] = {"raw", "down"}
  BY DEF ShapeInv, RetentionInv
<1>2. ASSUME raw'[m] \subseteq raw[m] PROVE raw'[m] \subseteq history'[m].raw
  BY <1>2, PastIsFrozen
<1>3. ASSUME NEW n \in Monitors, NEW kind \in RowKinds, InsertRaw(n, kind)
      PROVE  raw'[m] \subseteq history'[m].raw
  <2>1. PICK row : /\ raw' = [raw EXCEPT ![n] = @ \cup {row}]
                   /\ history' = [history EXCEPT ![n].raw = @ \cup {row}]
    BY <1>3 DEF InsertRaw
  <2>2. CASE n = m
    BY <1>1, <2>1, <2>2
  <2>3. CASE n # m
    BY <1>1, <2>1, <2>3
  <2>4. QED
    BY <2>2, <2>3
<1>4. ASSUME NEW n \in Monitors, Transition(n) \/ ResumeMonitor(n) \/ Remind(n) PROVE raw' = raw
  BY <1>4 DEF Transition, ResumeMonitor, Remind
<1>5. ASSUME NEW n \in Monitors, DeleteMonitor(n) PROVE raw'[m] \subseteq raw[m]
  BY <1>1, <1>5 DEF DeleteMonitor
<1>6. ASSUME NEW w \in Workers, Pruning(w) PROVE raw'[m] \subseteq raw[m]
  BY <1>6, PruningKeeps
<1>7. ASSUME NEW w \in Workers, Working(w) PROVE raw' = raw
  BY <1>7 DEF Working, StartTick, RollupDone, RollupFails, UpsertDailyStat, SelectEvents, PruneFails,
     Restart
<1>8. ASSUME Tick \/ (\E a \in pending : ResolveAlert(a)) \/ UNCHANGED vars PROVE raw' = raw
  BY <1>8 DEF Tick, ResolveAlert, vars
<1>9. QED
  BY <1>2, <1>3, <1>4, <1>5, <1>6, <1>7, <1>8 DEF Next, Working, Pruning

(* What a step may do to a row of daily_stats.                             *)
LEMMA DailyMoves ==
  ASSUME ShapeInv, [Next]_vars, NEW m \in Monitors, NEW d \in Days
  PROVE  \/ daily'[m][d] = daily[m][d] \/ daily'[m][d] = NoStat
         \/ \E w \in Workers : /\ worker[w].pc = "upsert" /\ mon[m].stored
                               /\ d = worker[w].today - 1 /\ daily'[m][d] = worker[w].todo[m]
<1>1. DOMAIN daily = Monitors /\ \A n \in Monitors : DOMAIN daily[n] = Days
  BY DEF ShapeInv
<1>2. ASSUME NEW n \in Monitors, DeleteMonitor(n)
      PROVE  daily'[m][d] = daily[m][d] \/ daily'[m][d] = NoStat
  BY <1>1, <1>2 DEF DeleteMonitor
<1>3. ASSUME NEW w \in Workers, NEW n \in Monitors, UpsertDailyStat(w, n)
      PROVE  \/ daily'[m][d] = daily[m][d]
             \/ /\ worker[w].pc = "upsert" /\ mon[m].stored
                /\ d = worker[w].today - 1 /\ daily'[m][d] = worker[w].todo[m]
  <2> DEFINE y == worker[w].today - 1
             stat == worker[w].todo[n]
  <2>1. daily' = [daily EXCEPT ![n][y] = stat] /\ worker[w].pc = "upsert" /\ mon[n].stored
    BY <1>3 DEF UpsertDailyStat
  <2>2. \/ daily'[m][d] = daily[m][d]
        \/ n = m /\ y = d /\ daily'[m][d] = stat
    <3> HIDE DEF y, stat
    <3>1. QED
      BY <1>1, <2>1
  <2>3. QED
    BY <2>1, <2>2
<1>4. ASSUME NEW n \in Monitors,
             \/ \E kind \in RowKinds : InsertRaw(n, kind)
             \/ Transition(n) \/ ResumeMonitor(n) \/ Remind(n)
      PROVE  daily' = daily
  BY <1>4 DEF InsertRaw, Transition, ResumeMonitor, Remind, Operation
<1>5. ASSUME NEW w \in Workers,
             \/ StartTick(w) \/ RollupDone(w) \/ RollupFails(w)
             \/ PruneRaw(w) \/ SelectEvents(w) \/ DeleteEvents(w) \/ PruneFails(w) \/ Restart(w)
      PROVE  daily' = daily
  BY <1>5 DEF StartTick, RollupDone, RollupFails, PruneRaw, SelectEvents, DeleteEvents, PruneFails,
     Restart
<1>6. ASSUME Tick \/ (\E a \in pending : ResolveAlert(a)) \/ UNCHANGED vars PROVE daily' = daily
  BY <1>6 DEF Tick, ResolveAlert, vars
<1>7. QED
  BY <1>2, <1>3, <1>4, <1>5, <1>6 DEF Next

(* What a step may do to what a replica is about to store.                 *)
LEMMA TodoMoves ==
  ASSUME ShapeInv, [Next]_vars, NEW w \in Workers, NEW m \in Monitors, worker'[w].pc = "upsert"
  PROVE  \/ /\ worker[w].pc = "upsert" /\ worker'[w].today = worker[w].today
            /\ worker'[w].todo[m] = worker[w].todo[m] \/ worker'[w].todo[m] = NoStat
         \/ /\ worker'[w].today = Day(clock) /\ history' = history /\ torn' = torn
            /\ worker'[w].todo[m] = RolledUp(m, Day(clock) - 1)
<1>1. /\ DOMAIN worker = Workers
      /\ \A v \in Workers : DOMAIN worker[v] = {"pc", "last", "today", "todo", "batch"}
      /\ \A v \in Workers : DOMAIN worker[v].todo = Monitors
  BY DEF ShapeInv, RetentionInv
<1> DEFINE Kept == /\ worker[w].pc = "upsert" /\ worker'[w].today = worker[w].today
                   /\ worker'[w].todo[m] = worker[w].todo[m] \/ worker'[w].todo[m] = NoStat
           New == /\ worker'[w].today = Day(clock) /\ history' = history /\ torn' = torn
                  /\ worker'[w].todo[m] = RolledUp(m, Day(clock) - 1)
<1>2. ASSUME worker'[w] = worker[w] PROVE Kept
  BY <1>2
<1>3. ASSUME NEW v \in Workers, NEW row, worker' = [worker EXCEPT ![v] = row],
             v = w => row.pc # "upsert"
      PROVE  Kept
  <2>1. v # w
    BY <1>1, <1>3
  <2>2. worker'[w] = worker[w]
    BY <1>1, <1>3, <2>1
  <2>3. QED
    BY <1>2, <2>2
<1>4. ASSUME NEW v \in Workers, StartTick(v) PROVE Kept \/ New
  <2>1. CASE v # w
    <3>1. PICK row : worker' = [worker EXCEPT ![v] = row]
      <4> DEFINE today == Day(clock)
                 a == [worker[v] EXCEPT !.pc = "checkins", !.today = today]
                 b == [worker[v] EXCEPT !.pc = "upsert", !.today = today,
                         !.todo = [n \in Monitors |-> RolledUp(n, today - 1)]]
      <4>1. worker' = [worker EXCEPT ![v] = a] \/ worker' = [worker EXCEPT ![v] = b]
        BY <1>4 DEF StartTick
      <4>2. QED
        BY <4>1
    <3>2. worker'[w] = worker[w]
      BY <1>1, <2>1, <3>1
    <3>3. QED
      BY <1>2, <3>2
  <2>2. CASE v = w
    <3> DEFINE today == Day(clock)
               todo == [n \in Monitors |-> RolledUp(n, today - 1)]
    <3>1. todo[m] = RolledUp(m, today - 1)
      OBVIOUS
    <3>2. /\ history' = history /\ torn' = torn
          /\ \/ worker' = [worker EXCEPT ![w].pc = "checkins", ![w].today = today]
             \/ worker' = [worker EXCEPT ![w].pc = "upsert", ![w].today = today, ![w].todo = todo]
      BY <1>4, <2>2 DEF StartTick
    <3> HIDE DEF today, todo
    <3>3. worker'[w].today = today /\ worker'[w].todo = todo
      BY <1>1, <3>2
    <3>4. QED
      BY <3>1, <3>2, <3>3 DEF today
  <2>3. QED
    BY <2>1, <2>2
<1>5. ASSUME NEW v \in Workers, NEW n \in Monitors, UpsertDailyStat(v, n) PROVE Kept
  <2>1. worker' = [worker EXCEPT ![v].todo[n] = NoStat] /\ worker[v].pc = "upsert"
    BY <1>5 DEF UpsertDailyStat
  <2> HIDE DEF Kept
  <2>2. CASE v # w
    BY <1>1, <1>2, <2>1, <2>2
  <2>3. CASE v = w
    <3>1. /\ worker'[w].today = worker[w].today
          /\ worker'[w].todo = [worker[w].todo EXCEPT ![n] = NoStat]
      BY <1>1, <2>1, <2>3
    <3>2. worker'[w].todo[m] = worker[w].todo[m] \/ worker'[w].todo[m] = NoStat
      BY <1>1, <3>1
    <3>3. QED
      BY <2>1, <2>3, <3>1, <3>2 DEF Kept
  <2>4. QED
    BY <2>2, <2>3
<1>6. ASSUME NEW v \in Workers, RollupDone(v) \/ RollupFails(v) PROVE Kept
  <2>1. PICK row : worker' = [worker EXCEPT ![v] = row] /\ row.pc = "checkins"
    <3> DEFINE a == [worker[v] EXCEPT !.pc = "checkins", !.last = worker[v].today - 1]
               b == [worker[v] EXCEPT !.pc = "checkins", !.todo = NoStats]
    <3>1. worker' = [worker EXCEPT ![v] = a] \/ worker' = [worker EXCEPT ![v] = b]
      BY <1>6 DEF RollupDone, RollupFails
    <3>2. a.pc = "checkins" /\ b.pc = "checkins"
      BY <1>1
    <3> HIDE DEF a, b
    <3>3. QED
      BY <3>1, <3>2
  <2>2. QED
    BY <1>3, <2>1
<1>7. ASSUME NEW v \in Workers, PruneFails(v) \/ Restart(v) PROVE Kept
  <2>1. PICK last : worker' = [worker EXCEPT ![v] = Idle(last)]
    BY <1>7 DEF PruneFails, Restart
  <2>2. Idle(last).pc = "idle"
    BY DEF Idle
  <2>3. QED
    BY <1>3, <2>1, <2>2
<1>8. ASSUME NEW v \in Workers, Pruning(v) \/ SelectEvents(v) PROVE Kept
  <2>1. worker' = [worker EXCEPT ![v] = worker'[v]] /\ worker'[v].pc # "upsert"
    <3>1. CASE SelectEvents(v)
      <4>1. PICK batch : worker' = [worker EXCEPT ![v].pc = "delete", ![v].batch = batch]
        BY <3>1, SelectTakes
      <4>2. QED
        BY <1>1, <4>1
    <3>2. CASE Pruning(v)
      <4>1. \A i \in 1 .. 3 : Tables[i] # "upsert"
        BY DEF Tables
      <4>2. QED
        BY <3>2, <4>1, PruningReplica DEF ShapeInv
    <3>3. QED
      BY <1>8, <3>1, <3>2
  <2>2. QED
    BY <1>3, <2>1
<1>9. ASSUME NEW n \in Monitors,
             \/ \E kind \in RowKinds : InsertRaw(n, kind)
             \/ Transition(n) \/ ResumeMonitor(n) \/ Remind(n) \/ DeleteMonitor(n)
      PROVE  worker' = worker
  BY <1>9 DEF InsertRaw, Transition, ResumeMonitor, Remind, DeleteMonitor, Operation
<1>10. ASSUME Tick \/ (\E a \in pending : ResolveAlert(a)) \/ UNCHANGED vars PROVE worker' = worker
  BY <1>10 DEF Tick, ResolveAlert, vars
<1> HIDE DEF Kept, New
<1>11. Kept \/ New
  BY <1>2, <1>4, <1>5, <1>6, <1>7, <1>8, <1>9, <1>10 DEF Next, Pruning
<1>12. QED
  BY <1>11 DEF Kept, New

LEMMA ExactStep ==
  ASSUME ShapeInv, PastInv, FiniteInv, OutageInv, TurnsInv, ExactInv, [Next]_vars
  PROVE  ExactInv'
<1>1. /\ clock \in Nat /\ clock' \in Nat /\ Day(clock) \in Nat /\ Day(clock') \in Nat
      /\ Day(clock) =< Day(clock')
  BY MonitorMoves, DayMonotone DEF ShapeInv, RetentionInv
<1>2. \A m \in Monitors : raw'[m] \subseteq history'[m].raw
  BY RawStep DEF ExactInv
<1>3. ASSUME NEW m \in Monitors, NEW d \in Days, daily'[m][d] # NoStat
      PROVE  d < Day(clock') /\ Exact(history'[m], d, daily'[m][d], m \notin torn')
  <2>1. d \in Int
    BY DEF Days
  <2>2. d < Day(clock) /\ Exact(history[m], d, daily'[m][d], m \notin torn)
    <3>1. CASE daily'[m][d] = daily[m][d]
      BY <1>3, <3>1 DEF ExactInv
    <3>2. ASSUME NEW w \in Workers, worker[w].pc = "upsert", mon[m].stored,
                 d = worker[w].today - 1, daily'[m][d] = worker[w].todo[m]
          PROVE  d < Day(clock) /\ Exact(history[m], d, daily'[m][d], m \notin torn)
      <4>1. d < Day(clock)
        BY <1>1, <3>2 DEF ShapeInv, RetentionInv
      <4>2. QED
        BY <3>2, <4>1 DEF ExactInv
    <3>3. QED
      BY <1>3, <3>1, <3>2, DailyMoves
  <2>3. Exact(history'[m], d, daily'[m][d], m \notin torn')
    BY <2>1, <2>2, StaysExact
  <2>4. QED
    BY <1>1, <2>1, <2>2, <2>3
<1>4. ASSUME NEW w \in Workers, NEW m \in Monitors, worker'[w].pc = "upsert", mon'[m].stored
      PROVE  Exact(history'[m], worker'[w].today - 1, worker'[w].todo[m], m \notin torn')
  <2>1. mon[m].stored
    BY <1>4, MonitorMoves
  <2>2. CASE worker'[w].todo[m] = NoStat
    BY <2>2 DEF Exact
  <2>3. CASE /\ worker[w].pc = "upsert" /\ worker'[w].today = worker[w].today
             /\ worker'[w].todo[m] = worker[w].todo[m]
    <3>1. worker[w].today - 1 \in Int /\ worker[w].today - 1 < Day(clock)
      BY <1>1 DEF ShapeInv, RetentionInv
    <3>2. Exact(history[m], worker[w].today - 1, worker[w].todo[m], m \notin torn)
      BY <2>1, <2>3 DEF ExactInv
    <3>3. Exact(history'[m], worker[w].today - 1, worker[w].todo[m], m \notin torn')
      BY <3>1, <3>2, StaysExact
    <3>4. QED
      BY <2>3, <3>3
  <2>4. CASE /\ worker'[w].today = Day(clock) /\ history' = history /\ torn' = torn
             /\ worker'[w].todo[m] = RolledUp(m, Day(clock) - 1)
    <3>1. Exact(history[m], Day(clock) - 1, RolledUp(m, Day(clock) - 1), m \notin torn)
      BY <2>1, RolledUpExact DEF ExactInv
    <3>2. QED
      BY <2>4, <3>1
  <2>5. QED
    BY <1>4, <2>2, <2>3, <2>4, TodoMoves
<1>5. QED
  BY <1>2, <1>3, <1>4 DEF ExactInv

LEMMA StatsInit == Init => TurnsInv /\ ExactInv
<1> SUFFICES ASSUME Init PROVE TurnsInv /\ ExactInv
  OBVIOUS
<1>1. TurnsInv
  BY DEF Init, TurnsInv, Turns
<1>2. ExactInv
  <2>1. \A m \in Monitors : raw[m] = {} /\ \A d \in Days : daily[m][d] = NoStat
    BY DEF Init
  <2>2. \A w \in Workers : worker[w].pc = "idle"
    BY DEF Init, Idle
  <2>3. QED
    BY <2>1, <2>2 DEF ExactInv
<1>3. QED
  BY <1>1, <1>2

(* daily_stats tells the truth: every stored row has the day's counts and  *)
(* its downtime, whatever restarts, failed statements, replicas, repeated  *)
(* rollups and pruning come in between, if no owner resumes a monitor that *)
(* is down (TLC finds StatsExact violated otherwise).                      *)
THEOREM StatsTellTruth ==
  ASSUME ~ResumeEndsOutage
  PROVE  Spec => []StatsExact
<1> DEFINE Inv == /\ ShapeInv /\ PastInv /\ OutageInv /\ FiniteInv /\ StatTypes
                  /\ TurnsInv /\ ExactInv
<1>1. Init => Inv
  BY RollupInit, FiniteInit, StatsInit
<1>2. Inv /\ [Next]_vars => Inv'
  BY ShapeStep, PastStep, OutageStep, FiniteStep, StatTypesStep, TurnsStep, ExactStep
<1>3. Inv => StatsExact
  <2>1. ASSUME ExactInv PROVE StatsExact
    <3>1. ASSUME NEW m \in Monitors, NEW d \in Days, daily[m][d] # NoStat
          PROVE  Exact(history[m], d, daily[m][d], m \notin torn)
      BY <2>1, <3>1 DEF ExactInv
    <3>2. QED
      BY <3>1 DEF StatsExact, Exact, Downtime, BeyondRetention
  <2>2. QED
    BY <2>1
<1> HIDE DEF Inv
<1>4. QED
  BY <1>1, <1>2, <1>3, PTL DEF Spec
==============================================================================
