----------------------------- MODULE ProberProofs -----------------------------
(***************************************************************************)
(* Proofs about Prober, for any monitors, thresholds, intervals and claim  *)
(* limit.  The types hold for any number of replicas and whatever meets a  *)
(* probe in flight.  What a probe's result says about the timeline holds   *)
(* where the row is still what the claim saw, and the theorems say so      *)
(* (TLC shows what a resume during a probe does).                          *)
(***************************************************************************)
EXTENDS Prober, FiniteSetTheorems, SequenceTheorems, TLAPS

----------------------------------------------------------------------------
(* Rows and what is written about them.                                    *)

(* A stored row.                                                           *)
LEMMA StoredRow ==
    ASSUME TypeOK, NEW m \in Monitors, Exists(m)
    PROVE  mon[m] \in Row
BY DEF TypeOK, Exists

(* A row in flight.                                                        *)
LEMMA FlightRow ==
    ASSUME TypeOK, NEW p \in Probers, NEW m \in Monitors, flight[p][m] # Unclaimed
    PROVE  flight[p][m] \in Row
BY DEF TypeOK

(* One monitor's row is replaced.                                          *)
LEMMA OneRow ==
    ASSUME TypeOK, NEW m \in Monitors, NEW row \in Row, mon' = [mon EXCEPT ![m] = row]
    PROVE  /\ mon' \in [Monitors -> Row \cup {Gone}]
           /\ mon'[m] = row
           /\ \A n \in Monitors \ {m} : mon'[n] = mon[n]
BY DEF TypeOK

(* Write appends to the log and to the outbox of one monitor.              *)
LEMMA WriteType ==
    ASSUME TypeOK, NEW m \in Monitors, NEW entries \in Seq(Entry),
           NEW transition \in Seq({"up", "down"}), Write(m, entries, transition)
    PROVE  /\ log' \in [Monitors -> Seq(Entry)]
           /\ outbox' \in [Monitors -> Seq({"up", "down"})]
           /\ log'[m] = log[m] \o entries /\ outbox'[m] = outbox[m] \o transition
           /\ \A n \in Monitors \ {m} : log'[n] = log[n] /\ outbox'[n] = outbox[n]
<1>1. log[m] \in Seq(Entry) /\ outbox[m] \in Seq({"up", "down"})
  BY DEF TypeOK
<1>2. log[m] \o entries \in Seq(Entry)
  BY <1>1, ConcatProperties
<1>3. outbox[m] \o transition \in Seq({"up", "down"})
  BY <1>1, ConcatProperties
<1> QED BY <1>2, <1>3 DEF Write, TypeOK

(* A probe leaves the replica's batch.                                     *)
LEMMA DoneType ==
    ASSUME TypeOK, NEW p \in Probers, NEW m \in Monitors, Done(p, m)
    PROVE  /\ flight' \in [Probers -> [Monitors -> Row \cup {Unclaimed}]]
           /\ flight'[p][m] = Unclaimed
           /\ \A n \in Monitors \ {m} : flight'[p][n] = flight[p][n]
           /\ \A q \in Probers \ {p} : flight'[q] = flight[q]
<1>1. flight[p] \in [Monitors -> Row \cup {Unclaimed}]
  BY DEF TypeOK
<1>2. flight' = [flight EXCEPT ![p] = [flight[p] EXCEPT ![m] = Unclaimed]]
  BY DEF Done
<1>3. [flight[p] EXCEPT ![m] = Unclaimed] \in [Monitors -> Row \cup {Unclaimed}]
  BY <1>1
<1> QED BY <1>1, <1>2, <1>3 DEF TypeOK

(* A claim holds rows as they are stored.                                  *)
LEMMA ClaimType ==
    ASSUME TypeOK, NEW p \in Probers, NEW locked \in SUBSET Monitors, ClaimDueProbes(p, locked)
    PROVE  /\ flight' \in [Probers -> [Monitors -> Row \cup {Unclaimed}]]
           /\ \A m \in Monitors : flight'[p][m] # Unclaimed => Exists(m) /\ flight'[p][m] = mon[m]
           /\ \A q \in Probers \ {p} : flight'[q] = flight[q]
<1>1. PICK rows \in SUBSET {m \in Monitors : Due(m)} :
        flight' = [flight EXCEPT ![p] =
                   [m \in Monitors |-> IF m \in rows THEN mon[m] ELSE Unclaimed]]
  BY DEF ClaimDueProbes
<1> DEFINE batch == [m \in Monitors |-> IF m \in rows THEN mon[m] ELSE Unclaimed]
<1>2. \A m \in rows : Exists(m) /\ mon[m] \in Row
  BY StoredRow DEF Due
<1>3. batch \in [Monitors -> Row \cup {Unclaimed}]
  BY <1>2
<1>4. \A m \in Monitors : batch[m] # Unclaimed => Exists(m) /\ batch[m] = mon[m]
  BY <1>2
<1> HIDE DEF batch
<1>5. flight' = [flight EXCEPT ![p] = batch]
  BY <1>1 DEF batch
<1> QED BY <1>3, <1>4, <1>5 DEF TypeOK

(* What RecordProbeResult computes from the row it claimed.                *)
LEMMA ProbeResultType ==
    ASSUME NEW prior \in Row, NEW ok \in BOOLEAN
    PROVE  /\ NextProbeState(prior, ok).state \in {"up", "down", prior.state}
           /\ NextProbeState(prior, ok).state \in State
           /\ NextProbeState(prior, ok).streak \in Nat
           /\ TransitionOf(prior, NextProbeState(prior, ok)) \in {<<>>, <<"up">>, <<"down">>}
<1>1. prior.state \in State /\ prior.streak \in Nat
  BY DEF Row
<1> QED BY <1>1 DEF NextProbeState, TransitionOf, State

(* Short sequences.                                                        *)
LEMMA ShortSequences ==
    /\ \A t \in {<<>>, <<"up">>, <<"down">>} : t \in Seq({"up", "down"}) /\ t \in Seq(Entry)
    /\ \A w \in {<<>>, <<"tls_expiry">>} : w \in Seq(Entry)
    /\ \A a \in Entry : <<a>> \in Seq(Entry)
BY DEF Entry

LEMMA EntriesType ==
    ASSUME NEW a \in Entry, NEW t \in Seq(Entry), NEW w \in Seq(Entry)
    PROVE  /\ <<a>> \o t \in Seq(Entry)
           /\ (<<a>> \o t) \o w \in Seq(Entry)
BY ShortSequences, ConcatProperties

----------------------------------------------------------------------------
(* The new row of each operation on a monitor.                             *)

LEMMA PauseRow ==
    ASSUME TypeOK, NEW m \in Monitors, PauseMonitor(m)
    PROVE  \E row \in Row :
             /\ mon' = [mon EXCEPT ![m] = row]
             /\ row.state = mon[m].state /\ row.streak = mon[m].streak
             /\ row.warnedCert = mon[m].warnedCert
<1> DEFINE row == [mon[m] EXCEPT !.paused = TRUE]
<1>1. mon[m] \in Row
  BY StoredRow DEF PauseMonitor, Operation
<1>2. row \in Row /\ row.state = mon[m].state /\ row.streak = mon[m].streak
      /\ row.warnedCert = mon[m].warnedCert
  BY <1>1 DEF Row
<1>3. mon' = [mon EXCEPT ![m] = row]
  BY DEF PauseMonitor
<1> QED BY <1>2, <1>3

LEMMA ResumeRow ==
    ASSUME TypeOK, NEW m \in Monitors, ResumeMonitor(m)
    PROVE  \E row \in Row :
             /\ mon' = [mon EXCEPT ![m] = row]
             /\ row.state = "up" /\ row.streak = mon[m].streak
             /\ row.warnedCert = mon[m].warnedCert
<1> DEFINE row == [mon[m] EXCEPT !.paused = FALSE, !.state = "up"]
<1>1. mon[m] \in Row
  BY StoredRow DEF ResumeMonitor, Operation
<1>2. row \in Row /\ row.state = "up" /\ row.streak = mon[m].streak
      /\ row.warnedCert = mon[m].warnedCert
  BY <1>1 DEF Row, State
<1>3. mon' = [mon EXCEPT ![m] = row]
  BY <1>1 DEF ResumeMonitor, TypeOK
<1> QED BY <1>2, <1>3

LEMMA SuccessRow ==
    ASSUME TypeOK, NEW m \in Monitors, CheckinSuccess(m)
    PROVE  \E row \in Row :
             /\ mon' = [mon EXCEPT ![m] = row]
             /\ row.state = "up" /\ row.streak = 0
             /\ row.warnedCert = mon[m].warnedCert
<1> DEFINE b == mon[m].paused /\ ~mon[m].autoResume
<1>0. b \in BOOLEAN
  OBVIOUS
<1>1. mon[m] \in Row
  BY StoredRow DEF CheckinSuccess, Operation
<1>2. mon' = [mon EXCEPT ![m] = [mon[m] EXCEPT !.state = "up", !.streak = 0, !.paused = b]]
  BY <1>1 DEF CheckinSuccess, TypeOK
<1> HIDE DEF b
<1> DEFINE row == [mon[m] EXCEPT !.state = "up", !.streak = 0, !.paused = b]
<1>3. row \in Row /\ row.state = "up" /\ row.streak = 0 /\ row.warnedCert = mon[m].warnedCert
  BY <1>0, <1>1 DEF Row, State
<1> QED BY <1>2, <1>3

LEMMA FailRow ==
    ASSUME TypeOK, NEW m \in Monitors, CheckinFail(m)
    PROVE  \E row \in Row :
             /\ mon' = [mon EXCEPT ![m] = row]
             /\ row.state = "down" /\ row.streak = mon[m].streak + 1
             /\ row.warnedCert = mon[m].warnedCert
<1> DEFINE b == mon[m].paused /\ ~mon[m].autoResume
           n == mon[m].streak + 1
<1>1. mon[m] \in Row
  BY StoredRow DEF CheckinFail, Operation
<1>0. b \in BOOLEAN /\ n \in Nat
  BY <1>1 DEF Row
<1>2. mon' = [mon EXCEPT ![m] = [mon[m] EXCEPT !.state = "down", !.streak = n, !.paused = b]]
  BY <1>1 DEF CheckinFail, TypeOK
<1> HIDE DEF b, n
<1> DEFINE row == [mon[m] EXCEPT !.state = "down", !.streak = n, !.paused = b]
<1>3. row \in Row /\ row.state = "down" /\ row.streak = n /\ row.warnedCert = mon[m].warnedCert
  BY <1>0, <1>1 DEF Row, State
<1> QED BY <1>2, <1>3 DEF n

LEMMA UpdateRow ==
    ASSUME TypeOK, NEW m \in Monitors, UpdateMonitor(m)
    PROVE  \E row \in Row :
             /\ mon' = [mon EXCEPT ![m] = row]
             /\ row.state = mon[m].state /\ row.streak = mon[m].streak
             /\ row.warnedCert = mon[m].warnedCert
<1>1. mon[m] \in Row
  BY StoredRow DEF UpdateMonitor, Operation
<1>2. PICK t \in Thresholds, i \in Intervals, a \in BOOLEAN :
        mon' = [mon EXCEPT ![m].threshold = t, ![m].interval = i, ![m].autoResume = a]
  BY DEF UpdateMonitor
<1> DEFINE row == [mon[m] EXCEPT !.threshold = t, !.interval = i, !.autoResume = a]
<1>3. mon' = [mon EXCEPT ![m] = row]
  BY <1>1, <1>2 DEF TypeOK
<1>4. row \in Row /\ row.state = mon[m].state /\ row.streak = mon[m].streak
      /\ row.warnedCert = mon[m].warnedCert
  BY <1>1 DEF Row
<1> QED BY <1>3, <1>4

(* A probe's result, with what it is computed from.                        *)
LEMMA ResultRow ==
    ASSUME TypeOK, NEW p \in Probers, NEW m \in Monitors, NEW responded \in BOOLEAN,
           RecordProbeResult(p, m, responded)
    PROVE  LET prior == flight[p][m]
               t     == target[m]
               cert  == IF responded THEN t.cert ELSE 0
               new   == NextProbeState(prior, t.ok)
               warn  == ShouldWarn(prior, cert, t.expiring)
           IN  /\ prior \in Row /\ mon[m] \in Row /\ t \in Target /\ cert \in {0, t.cert}
               /\ \E row \in Row :
                    /\ mon' = [mon EXCEPT ![m] = row]
                    /\ row.state = new.state /\ row.streak = new.streak
                    /\ row.warnedCert = IF warn THEN cert ELSE mon[m].warnedCert
<1> DEFINE prior == flight[p][m]
           t     == target[m]
           cert  == IF responded THEN t.cert ELSE 0
           new   == NextProbeState(prior, t.ok)
           warn  == ShouldWarn(prior, cert, t.expiring)
           w     == IF warn THEN cert ELSE mon[m].warnedCert
<1>1. prior \in Row /\ mon[m] \in Row /\ t \in Target
  BY StoredRow, FlightRow DEF RecordProbeResult, TypeOK
<1>2. mon' = [mon EXCEPT ![m].state = new.state, ![m].streak = new.streak,
                         ![m].wait = prior.interval, ![m].warnedCert = w]
  BY <1>1 DEF RecordProbeResult, TypeOK
<1>3. cert \in {0, t.cert} /\ cert \in Cert
  BY <1>1, ConstantsAssumption DEF Target, Cert
<1>4. w \in Cert
  BY <1>1, <1>3 DEF Row
<1>5. new.state \in State /\ new.streak \in Nat
  <2>1. t.ok \in BOOLEAN
    BY <1>1 DEF Target
  <2> HIDE DEF t, prior
  <2> QED BY <1>1, <2>1, ProbeResultType
<1>6. prior.interval \in Nat
  BY <1>1, ConstantsAssumption DEF Row
<1> DEFINE s == new.state
           k == new.streak
           i == prior.interval
           row == [mon[m] EXCEPT !.state = s, !.streak = k, !.wait = i, !.warnedCert = w]
<1> HIDE DEF new, w
<1>7. mon' = [mon EXCEPT ![m] = row]
  BY <1>1, <1>2 DEF TypeOK
<1>8. s \in State /\ k \in Nat /\ i \in Nat /\ w \in Cert
  BY <1>4, <1>5, <1>6
<1> HIDE DEF s, k, i
<1>9. row \in Row /\ row.state = s /\ row.streak = k /\ row.warnedCert = w
  BY <1>1, <1>8 DEF Row
<1>10. \E r \in Row : mon' = [mon EXCEPT ![m] = r] /\ r.state = s /\ r.streak = k /\ r.warnedCert = w
  BY <1>7, <1>9
<1> QED BY <1>1, <1>3, <1>10 DEF s, k, w, new

----------------------------------------------------------------------------
(* Types.                                                                  *)

LEMMA TypeInit == Init => TypeOK
<1> SUFFICES ASSUME Init PROVE TypeOK
  OBVIOUS
<1>1. mon \in [Monitors -> Row \cup {Gone}]
  <2>1. [state: {"new"}, streak: {0}, paused: {FALSE}, autoResume: BOOLEAN,
         threshold: Thresholds, interval: Intervals, wait: {0}, warnedCert: {0}] \subseteq Row
    <3>1. 0 \in Cert /\ 0 \in Nat /\ "new" \in State /\ FALSE \in BOOLEAN
      BY ConstantsAssumption DEF Cert, State
    <3> QED BY <3>1 DEF Row
  <2> QED BY <2>1 DEF Init
<1>2. log \in [Monitors -> Seq(Entry)] /\ outbox \in [Monitors -> Seq({"up", "down"})]
  BY DEF Init
<1>3. warned \in [Monitors -> [1 .. MaxCert -> Nat]]
  BY DEF Init
<1>4. target \in [Monitors -> Target]
  <2>1. \A c \in {0, 1} \cap Cert : [ok |-> TRUE, cert |-> c, expiring |-> FALSE] \in Target
    BY DEF Target
  <2>2. {[ok |-> TRUE, cert |-> c, expiring |-> FALSE] : c \in {0, 1} \cap Cert} \subseteq Target
    BY <2>1
  <2> QED BY <2>2 DEF Init
<1>5. flight \in [Probers -> [Monitors -> Row \cup {Unclaimed}]]
  BY DEF Init, NoRows
<1>6. order \subseteq Monitors \X Monitors
  BY DEF Init
<1> QED BY <1>1, <1>2, <1>3, <1>4, <1>5, <1>6 DEF Init, TypeOK

(* What one of the owner's operations and the pings write.                 *)
LEMMA OperationType ==
    ASSUME TypeOK, NEW m \in Monitors,
           \/ PauseMonitor(m) \/ ResumeMonitor(m) \/ CheckinSuccess(m)
           \/ CheckinFail(m) \/ UpdateMonitor(m)
    PROVE  TypeOK'
<1>1. \E row \in Row : mon' = [mon EXCEPT ![m] = row]
  BY PauseRow, ResumeRow, SuccessRow, FailRow, UpdateRow
<1>2. mon' \in [Monitors -> Row \cup {Gone}]
  BY <1>1, OneRow
<1>3. UNCHANGED <<warned, target, flight, order, changes>> /\ ops' = ops + 1
  BY DEF PauseMonitor, ResumeMonitor, CheckinSuccess, CheckinFail, UpdateMonitor, Operation
<1>4. \E a \in Entry, t \in {<<>>, <<"up">>, <<"down">>} :
        Write(m, <<a>>, <<>>) \/ Write(m, <<a>> \o t, t)
  BY DEF PauseMonitor, ResumeMonitor, CheckinSuccess, CheckinFail, UpdateMonitor, Entry
<1>5. PICK a \in Entry, t \in {<<>>, <<"up">>, <<"down">>} :
        Write(m, <<a>>, <<>>) \/ Write(m, <<a>> \o t, t)
  BY <1>4
<1>6. /\ <<a>> \in Seq(Entry) /\ <<>> \in Seq({"up", "down"})
      /\ t \in Seq({"up", "down"}) /\ t \in Seq(Entry)
  BY ShortSequences
<1>7. <<a>> \o t \in Seq(Entry)
  BY <1>6, EntriesType
<1>8. log' \in [Monitors -> Seq(Entry)] /\ outbox' \in [Monitors -> Seq({"up", "down"})]
  BY <1>5, <1>6, <1>7, WriteType
<1> QED BY <1>2, <1>3, <1>8 DEF TypeOK

(* What a probe's result writes.                                           *)
LEMMA ResultWrites ==
    ASSUME TypeOK, NEW p \in Probers, NEW m \in Monitors, NEW responded \in BOOLEAN,
           RecordProbeResult(p, m, responded)
    PROVE  LET prior == flight[p][m]
               t     == target[m]
               cert  == IF responded THEN t.cert ELSE 0
               tr    == TransitionOf(prior, NextProbeState(prior, t.ok))
               a     == IF t.ok THEN "ok" ELSE "fail"
               w     == IF ShouldWarn(prior, cert, t.expiring) THEN <<"tls_expiry">> ELSE <<>>
           IN  /\ a \in Entry /\ tr \in {<<>>, <<"up">>, <<"down">>}
               /\ log' \in [Monitors -> Seq(Entry)]
               /\ outbox' \in [Monitors -> Seq({"up", "down"})]
               /\ log'[m] = log[m] \o ((<<a>> \o tr) \o w) /\ outbox'[m] = outbox[m] \o tr
               /\ \A n \in Monitors \ {m} : log'[n] = log[n] /\ outbox'[n] = outbox[n]
<1> DEFINE prior == flight[p][m]
           t     == target[m]
           cert  == IF responded THEN t.cert ELSE 0
           tr    == TransitionOf(prior, NextProbeState(prior, t.ok))
           a     == IF t.ok THEN "ok" ELSE "fail"
           w     == IF ShouldWarn(prior, cert, t.expiring) THEN <<"tls_expiry">> ELSE <<>>
<1>1. prior \in Row /\ t \in Target
  BY FlightRow DEF RecordProbeResult, TypeOK
<1>2. a \in Entry /\ w \in {<<>>, <<"tls_expiry">>}
  BY DEF Entry
<1>3. tr \in {<<>>, <<"up">>, <<"down">>}
  <2>1. t.ok \in BOOLEAN
    BY <1>1 DEF Target
  <2> HIDE DEF t, prior
  <2> QED BY <1>1, <2>1, ProbeResultType
<1>4. Write(m, (<<a>> \o tr) \o w, tr)
  BY DEF RecordProbeResult
<1> HIDE DEF a, tr, w
<1>5. tr \in Seq({"up", "down"}) /\ tr \in Seq(Entry) /\ w \in Seq(Entry)
  BY <1>2, <1>3, ShortSequences
<1>6. (<<a>> \o tr) \o w \in Seq(Entry)
  BY <1>2, <1>5, EntriesType
<1>7. /\ log' \in [Monitors -> Seq(Entry)]
      /\ outbox' \in [Monitors -> Seq({"up", "down"})]
      /\ log'[m] = log[m] \o ((<<a>> \o tr) \o w) /\ outbox'[m] = outbox[m] \o tr
      /\ \A n \in Monitors \ {m} : log'[n] = log[n] /\ outbox'[n] = outbox[n]
  BY <1>4, <1>5, <1>6, WriteType
<1> QED BY <1>2, <1>3, <1>7 DEF a, tr, w

LEMMA TypeStep == TypeOK /\ [Next]_vars => TypeOK'
<1> SUFFICES ASSUME TypeOK, [Next]_vars PROVE TypeOK'
  OBVIOUS
<1>1. CASE Tick
  <2>1. \A m \in Monitors : Exists(m) /\ mon[m].wait > 0 => [mon[m] EXCEPT !.wait = @ - 1] \in Row
    BY StoredRow DEF Row
  <2>2. mon' \in [Monitors -> Row \cup {Gone}]
    BY <1>1, <2>1 DEF Tick, TypeOK
  <2> QED BY <1>1, <2>2 DEF Tick, TypeOK
<1>2. ASSUME NEW m \in Monitors, TargetChanges(m)
      PROVE  TypeOK'
  <2>1. target' \in [Monitors -> Target]
    <3>1. target[m] \in Target
      BY DEF TypeOK
    <3>2. CASE target' = [target EXCEPT ![m].ok = ~@]
      BY <3>1, <3>2 DEF TypeOK, Target
    <3>3. CASE target' = [target EXCEPT ![m].expiring = TRUE]
      BY <3>1, <3>3 DEF TypeOK, Target
    <3>4. ASSUME NEW c \in 1 .. MaxCert, NEW x \in BOOLEAN,
                 target' = [target EXCEPT ![m].cert = c, ![m].expiring = x]
          PROVE  target' \in [Monitors -> Target]
      <4>1. c \in Cert
        BY ConstantsAssumption DEF Cert
      <4> QED BY <3>1, <3>4, <4>1 DEF TypeOK, Target
    <3> QED BY <1>2, <3>2, <3>3, <3>4 DEF TargetChanges
  <2> QED BY <1>2, <2>1 DEF TargetChanges, TypeOK
<1>3. ASSUME NEW m \in Monitors,
             \/ PauseMonitor(m) \/ ResumeMonitor(m) \/ CheckinSuccess(m)
             \/ CheckinFail(m) \/ UpdateMonitor(m)
      PROVE  TypeOK'
  BY <1>3, OperationType
<1>4. ASSUME NEW m \in Monitors, DeleteMonitor(m)
      PROVE  TypeOK'
  BY <1>4 DEF DeleteMonitor, Operation, TypeOK
<1>5. ASSUME NEW p \in Probers, NEW locked \in SUBSET Monitors, ClaimDueProbes(p, locked)
      PROVE  TypeOK'
  <2>1. flight' \in [Probers -> [Monitors -> Row \cup {Unclaimed}]]
    BY <1>5, ClaimType
  <2> QED BY <1>5, <2>1 DEF ClaimDueProbes, TypeOK
<1>6. ASSUME NEW p \in Probers, NEW m \in Monitors, NEW responded \in BOOLEAN,
             RecordProbeResult(p, m, responded)
      PROVE  TypeOK'
  <2>1. mon' \in [Monitors -> Row \cup {Gone}]
    BY <1>6, ResultRow, OneRow
  <2>2. log' \in [Monitors -> Seq(Entry)] /\ outbox' \in [Monitors -> Seq({"up", "down"})]
    BY <1>6, ResultWrites
  <2>3. warned' \in [Monitors -> [1 .. MaxCert -> Nat]]
    <3>1. \/ warned' = warned
          \/ \E c : warned' = [warned EXCEPT ![m][c] = @ + 1]
      BY <1>6 DEF RecordProbeResult
    <3>2. ASSUME NEW c, warned' = [warned EXCEPT ![m][c] = @ + 1]
          PROVE  warned' \in [Monitors -> [1 .. MaxCert -> Nat]]
      <4> DEFINE f == warned[m]
                 S == 1 .. MaxCert
      <4>1. f \in [S -> Nat]
        BY DEF TypeOK
      <4> HIDE DEF f, S
      <4>2. [f EXCEPT ![c] = @ + 1] \in [S -> Nat]
        <5>1. CASE c \in S
          BY <4>1, <5>1
        <5>2. CASE c \notin S
          <6>1. [f EXCEPT ![c] = @ + 1] = f
            BY <4>1, <5>2
          <6> QED BY <4>1, <6>1
        <5> QED BY <5>1, <5>2
      <4> QED BY <3>2, <4>2 DEF TypeOK, f, S
    <3> QED BY <3>1, <3>2 DEF TypeOK
  <2>4. order' \subseteq Monitors \X Monitors
    BY <1>6 DEF RecordProbeResult, TypeOK
  <2>5. flight' \in [Probers -> [Monitors -> Row \cup {Unclaimed}]]
    BY <1>6, DoneType DEF RecordProbeResult
  <2> QED BY <1>6, <2>1, <2>2, <2>3, <2>4, <2>5 DEF RecordProbeResult, TypeOK
<1>7. ASSUME NEW p \in Probers, NEW m \in Monitors, ProbeLost(p, m)
      PROVE  TypeOK'
  <2>1. flight' \in [Probers -> [Monitors -> Row \cup {Unclaimed}]]
    BY <1>7, DoneType DEF ProbeLost
  <2> QED BY <1>7, <2>1 DEF ProbeLost, TypeOK
<1>8. CASE UNCHANGED vars
  BY <1>8 DEF vars, TypeOK
<1> QED BY <1>1, <1>2, <1>3, <1>4, <1>5, <1>6, <1>7, <1>8 DEF Next, Finish, Record

(* Every variable keeps its type, for any number of replicas and whatever  *)
(* meets a probe in flight: a result never invents a state or a streak.    *)
THEOREM TypeCorrect == Spec => []TypeOK
BY TypeInit, TypeStep, PTL DEF Spec

----------------------------------------------------------------------------
(* A probe undisturbed: one replica, and no resume or ping while a probe   *)
(* of the monitor is in flight.  Pauses, PATCH requests and the deletion   *)
(* of the monitor may still meet it.                                       *)

Undisturbed == ~OpsInFlight /\ \A p, q \in Probers : p = q

(* What a probe in flight will be judged by is what is stored.             *)
Fresh ==
    \A p \in Probers, m \in Monitors :
      flight[p][m] # Unclaimed /\ Exists(m) =>
        /\ flight[p][m].state = mon[m].state
        /\ flight[p][m].streak = mon[m].streak
        /\ flight[p][m].warnedCert = mon[m].warnedCert

(* A monitor's row may change in what a probe is not judged by, as long as *)
(* it is not claimed anew.                                                 *)
LEMMA FreshKept ==
    ASSUME Fresh, flight' = flight,
           \A m \in Monitors :
             \/ mon'[m] = mon[m]
             \/ mon'[m] = Gone
             \/ ~InFlight(m)
             \/ /\ Exists(m) /\ mon'[m].state = mon[m].state /\ mon'[m].streak = mon[m].streak
                /\ mon'[m].warnedCert = mon[m].warnedCert
    PROVE  Fresh'
BY DEF Fresh, Exists, InFlight

LEMMA FreshInit == Init => Fresh
BY DEF Init, NoRows, Fresh

LEMMA FreshStep ==
    ASSUME Undisturbed, TypeOK, Fresh, [Next]_vars
    PROVE  Fresh'
<1>1. CASE Tick
  <2>1. flight' = flight
    BY <1>1 DEF Tick
  <2>2. \A m \in Monitors :
          \/ mon'[m] = mon[m]
          \/ /\ Exists(m) /\ mon'[m].state = mon[m].state /\ mon'[m].streak = mon[m].streak
             /\ mon'[m].warnedCert = mon[m].warnedCert
    BY <1>1, StoredRow DEF Tick, Row
  <2> QED BY <2>1, <2>2, FreshKept
<1>2. ASSUME NEW m \in Monitors, TargetChanges(m)
      PROVE  Fresh'
  <2>1. flight' = flight /\ mon' = mon
    BY <1>2 DEF TargetChanges
  <2> QED BY <2>1, FreshKept
<1>3. ASSUME NEW m \in Monitors, PauseMonitor(m) \/ UpdateMonitor(m)
      PROVE  Fresh'
  <2>1. flight' = flight /\ Exists(m)
    BY <1>3 DEF PauseMonitor, UpdateMonitor, Operation
  <2>2. \E row \in Row :
          /\ mon' = [mon EXCEPT ![m] = row]
          /\ row.state = mon[m].state /\ row.streak = mon[m].streak
          /\ row.warnedCert = mon[m].warnedCert
    BY <1>3, PauseRow, UpdateRow
  <2>3. \A n \in Monitors :
          \/ mon'[n] = mon[n]
          \/ /\ Exists(n) /\ mon'[n].state = mon[n].state /\ mon'[n].streak = mon[n].streak
             /\ mon'[n].warnedCert = mon[n].warnedCert
    BY <2>1, <2>2, OneRow
  <2> QED BY <2>1, <2>3, FreshKept
<1>4. ASSUME NEW m \in Monitors, ResumeMonitor(m) \/ CheckinSuccess(m) \/ CheckinFail(m)
      PROVE  Fresh'
  <2>1. flight' = flight /\ ~InFlight(m)
    BY <1>4 DEF ResumeMonitor, CheckinSuccess, CheckinFail, Operation, Undisturbed
  <2>2. \E row \in Row : mon' = [mon EXCEPT ![m] = row]
    BY <1>4, ResumeRow, SuccessRow, FailRow
  <2>3. \A n \in Monitors : mon'[n] = mon[n] \/ ~InFlight(n)
    BY <2>1, <2>2, OneRow
  <2> QED BY <2>1, <2>3, FreshKept
<1>5. ASSUME NEW m \in Monitors, DeleteMonitor(m)
      PROVE  Fresh'
  <2>1. flight' = flight /\ \A n \in Monitors : mon'[n] = mon[n] \/ mon'[n] = Gone
    BY <1>5 DEF DeleteMonitor, Operation, TypeOK
  <2> QED BY <2>1, FreshKept
<1>6. ASSUME NEW p \in Probers, NEW locked \in SUBSET Monitors, ClaimDueProbes(p, locked)
      PROVE  Fresh'
  <2>1. mon' = mon /\ \A m \in Monitors : flight'[p][m] # Unclaimed => flight'[p][m] = mon[m]
    BY <1>6, ClaimType DEF ClaimDueProbes
  <2>2. \A q \in Probers : q = p
    BY DEF Undisturbed
  <2> QED BY <2>1, <2>2 DEF Fresh
<1>7. ASSUME NEW p \in Probers, NEW m \in Monitors, NEW responded \in BOOLEAN,
             RecordProbeResult(p, m, responded)
      PROVE  Fresh'
  <2>1. flight'[p][m] = Unclaimed /\ \A n \in Monitors \ {m} : flight'[p][n] = flight[p][n]
    BY <1>7, DoneType DEF RecordProbeResult
  <2>2. \A n \in Monitors \ {m} : mon'[n] = mon[n]
    BY <1>7, ResultRow, OneRow
  <2>3. \A q \in Probers : q = p
    BY DEF Undisturbed
  <2> QED BY <2>1, <2>2, <2>3 DEF Fresh, Exists
<1>8. ASSUME NEW p \in Probers, NEW m \in Monitors, ProbeLost(p, m)
      PROVE  Fresh'
  <2>1. /\ flight'[p][m] = Unclaimed /\ \A n \in Monitors \ {m} : flight'[p][n] = flight[p][n]
        /\ mon' = mon
    BY <1>8, DoneType DEF ProbeLost
  <2>2. \A q \in Probers : q = p
    BY DEF Undisturbed
  <2> QED BY <2>1, <2>2 DEF Fresh, Exists
<1>9. CASE UNCHANGED vars
  BY <1>9, FreshKept DEF vars
<1> QED BY <1>1, <1>2, <1>3, <1>4, <1>5, <1>6, <1>7, <1>8, <1>9 DEF Next, Finish, Record

FlightInv == TypeOK /\ Fresh

LEMMA FlightInvHolds ==
    ASSUME Undisturbed
    PROVE  Spec => []FlightInv
<1>1. Init => FlightInv
  BY TypeInit, FreshInit DEF FlightInv
<1>2. FlightInv /\ [Next]_vars => FlightInv'
  BY TypeStep, FreshStep DEF FlightInv
<1> QED BY <1>1, <1>2, PTL DEF Spec

----------------------------------------------------------------------------
(* What a step does to one monitor's state, log and outbox.                *)

Untouched(m) ==
    /\ mon'[m].state = mon[m].state /\ log'[m] = log[m] /\ outbox'[m] = outbox[m]
    /\ mon'[m] # Gone => mon[m] # Gone /\ mon'[m].streak = mon[m].streak

Noted(m) ==
    /\ Exists(m) /\ mon'[m].state = mon[m].state /\ mon'[m].streak = mon[m].streak
    /\ \E a \in {"pause", "config_change"} : log'[m] = log[m] \o <<a>>
    /\ outbox'[m] = outbox[m]

Resumed(m) ==
    /\ Exists(m) /\ mon'[m].state = "up" /\ mon'[m].streak = mon[m].streak
    /\ log'[m] = log[m] \o <<"resume">> /\ outbox'[m] = outbox[m]

(* A check of the target or a ping, with the transition it makes and the   *)
(* warning it may give.                                                    *)
Checked(m, results, tr) ==
    /\ Exists(m)
    /\ \E a \in results, w \in {<<>>, <<"tls_expiry">>} :
         log'[m] = ((log[m] \o <<a>>) \o tr) \o w
    /\ outbox'[m] = outbox[m] \o tr

Succeeded(m) ==
    /\ mon'[m].state = "up" /\ mon'[m].streak = 0
    /\ Checked(m, {"ok", "ping_ok"}, IF mon[m].state = "down" THEN <<"up">> ELSE <<>>)

Failed(m) ==
    /\ mon'[m].state \in {"down", mon[m].state} /\ mon'[m].streak = mon[m].streak + 1
    /\ Checked(m, {"fail", "ping_fail"},
         IF mon'[m].state = "down" /\ mon[m].state # "down" THEN <<"down">> ELSE <<>>)

Deleted(m) == Exists(m) /\ mon'[m] = Gone /\ log'[m] = <<>> /\ outbox'[m] = <<>>

Move(m) ==
    Untouched(m) \/ Noted(m) \/ Resumed(m) \/ Succeeded(m) \/ Failed(m) \/ Deleted(m)

(* Concatenation, one piece at a time.                                     *)
LEMMA Pieces ==
    ASSUME NEW e \in Seq(Entry), NEW a \in Entry, NEW t \in Seq(Entry), NEW w \in Seq(Entry)
    PROVE  /\ e \o ((<<a>> \o t) \o w) = ((e \o <<a>>) \o t) \o w
           /\ e \o (<<a>> \o t) = ((e \o <<a>>) \o t) \o <<>>
<1>1. <<a>> \in Seq(Entry) /\ <<a>> \o t \in Seq(Entry) /\ e \o <<a>> \in Seq(Entry)
  BY ShortSequences, ConcatProperties
<1>2. e \o ((<<a>> \o t) \o w) = (e \o (<<a>> \o t)) \o w
  BY <1>1, ConcatAssociative
<1>3. e \o (<<a>> \o t) = (e \o <<a>>) \o t
  BY <1>1, ConcatAssociative
<1>4. (e \o <<a>>) \o t \in Seq(Entry)
  BY <1>1, ConcatProperties
<1> QED BY <1>2, <1>3, <1>4, ConcatEmptySeq

LEMMA ResultMove ==
    ASSUME TypeOK, Fresh, NEW p \in Probers, NEW m \in Monitors, NEW responded \in BOOLEAN,
           RecordProbeResult(p, m, responded)
    PROVE  Succeeded(m) \/ Failed(m)
<1> DEFINE prior == flight[p][m]
           t     == target[m]
           cert  == IF responded THEN t.cert ELSE 0
           new   == NextProbeState(prior, t.ok)
           tr    == TransitionOf(prior, new)
           a     == IF t.ok THEN "ok" ELSE "fail"
           w     == IF ShouldWarn(prior, cert, t.expiring) THEN <<"tls_expiry">> ELSE <<>>
<1>1. Exists(m) /\ prior # Unclaimed /\ prior \in Row
  BY FlightRow DEF RecordProbeResult
<1>2. prior.state = mon[m].state /\ prior.streak = mon[m].streak
  BY <1>1 DEF Fresh
<1>3. mon'[m].state = new.state /\ mon'[m].streak = new.streak
  BY ResultRow, OneRow
<1>4. /\ a \in Entry /\ tr \in {<<>>, <<"up">>, <<"down">>} /\ w \in {<<>>, <<"tls_expiry">>}
      /\ log'[m] = log[m] \o ((<<a>> \o tr) \o w) /\ outbox'[m] = outbox[m] \o tr
  BY ResultWrites
<1>5. log[m] \in Seq(Entry) /\ tr \in Seq(Entry) /\ w \in Seq(Entry)
  BY <1>4, ShortSequences DEF TypeOK
<1> HIDE DEF w, tr
<1>6. log'[m] = ((log[m] \o <<a>>) \o tr) \o w
  <2> HIDE DEF a
  <2> QED BY <1>4, <1>5, Pieces
<1>7. CASE t.ok
  <2>1. new.state = "up" /\ new.streak = 0 /\ a = "ok"
    BY <1>7 DEF NextProbeState
  <2>2. tr = IF mon[m].state = "down" THEN <<"up">> ELSE <<>>
    <3> HIDE DEF new
    <3> QED BY <1>2, <2>1 DEF tr, TransitionOf
  <2> HIDE DEF new, a
  <2>3. Checked(m, {"ok", "ping_ok"}, tr)
    BY <1>1, <1>4, <1>6, <2>1 DEF Checked
  <2> QED BY <1>3, <2>1, <2>2, <2>3 DEF Succeeded
<1>8. CASE ~t.ok
  <2>1. new.state \in {"down", prior.state} /\ new.streak = prior.streak + 1 /\ a = "fail"
    BY <1>8 DEF NextProbeState
  <2>2. tr = IF new.state = "down" /\ mon[m].state # "down" THEN <<"down">> ELSE <<>>
    <3> HIDE DEF new
    <3> QED BY <1>2, <2>1 DEF tr, TransitionOf
  <2> HIDE DEF new, a
  <2>3. Checked(m, {"fail", "ping_fail"}, tr)
    BY <1>1, <1>4, <1>6, <2>1 DEF Checked
  <2> QED BY <1>2, <1>3, <2>1, <2>2, <2>3 DEF Failed
<1> QED BY <1>7, <1>8

LEMMA PingMove ==
    ASSUME TypeOK, NEW m \in Monitors, CheckinSuccess(m) \/ CheckinFail(m)
    PROVE  Succeeded(m) \/ Failed(m)
<1>1. CASE CheckinSuccess(m)
  <2> DEFINE tr == IF mon[m].state = "down" THEN <<"up">> ELSE <<>>
  <2>1. Exists(m) /\ Write(m, <<"ping_ok">> \o tr, tr)
    BY <1>1 DEF CheckinSuccess, Operation
  <2>2. mon'[m].state = "up" /\ mon'[m].streak = 0
    BY <1>1, SuccessRow, OneRow
  <2>3. tr \in {<<>>, <<"up">>, <<"down">>} /\ "ping_ok" \in Entry /\ log[m] \in Seq(Entry)
    BY DEF Entry, TypeOK
  <2> HIDE DEF tr
  <2>4. tr \in Seq({"up", "down"}) /\ tr \in Seq(Entry) /\ <<"ping_ok">> \o tr \in Seq(Entry)
    BY <2>3, ShortSequences, EntriesType
  <2>5. log'[m] = log[m] \o (<<"ping_ok">> \o tr) /\ outbox'[m] = outbox[m] \o tr
    BY <2>1, <2>4, WriteType
  <2>6. log'[m] = ((log[m] \o <<"ping_ok">>) \o tr) \o <<>>
    BY <2>3, <2>4, <2>5, Pieces, ShortSequences
  <2>7. Checked(m, {"ok", "ping_ok"}, tr)
    BY <2>1, <2>5, <2>6 DEF Checked
  <2> QED BY <2>2, <2>7 DEF Succeeded, tr
<1>2. CASE CheckinFail(m)
  <2> DEFINE tr == IF mon[m].state # "down" THEN <<"down">> ELSE <<>>
  <2>1. Exists(m) /\ Write(m, <<"ping_fail">> \o tr, tr)
    BY <1>2 DEF CheckinFail, Operation
  <2>2. mon'[m].state = "down" /\ mon'[m].streak = mon[m].streak + 1
    BY <1>2, FailRow, OneRow
  <2>3. tr \in {<<>>, <<"up">>, <<"down">>} /\ "ping_fail" \in Entry /\ log[m] \in Seq(Entry)
    BY DEF Entry, TypeOK
  <2> HIDE DEF tr
  <2>4. tr \in Seq({"up", "down"}) /\ tr \in Seq(Entry) /\ <<"ping_fail">> \o tr \in Seq(Entry)
    BY <2>3, ShortSequences, EntriesType
  <2>5. log'[m] = log[m] \o (<<"ping_fail">> \o tr) /\ outbox'[m] = outbox[m] \o tr
    BY <2>1, <2>4, WriteType
  <2>6. log'[m] = ((log[m] \o <<"ping_fail">>) \o tr) \o <<>>
    BY <2>3, <2>4, <2>5, Pieces, ShortSequences
  <2>7. Checked(m, {"fail", "ping_fail"}, tr)
    BY <2>1, <2>5, <2>6 DEF Checked
  <2> QED BY <2>2, <2>7 DEF Failed, tr
<1> QED BY <1>1, <1>2

(* Every step makes one of these moves with each monitor.                  *)
LEMMA Moves ==
    ASSUME FlightInv, [Next]_vars, NEW m \in Monitors
    PROVE  Move(m)
<1> USE DEF FlightInv
<1>same. ASSUME mon'[m] = mon[m], log'[m] = log[m], outbox'[m] = outbox[m]
         PROVE  Move(m)
  BY <1>same DEF Move, Untouched
<1>1. CASE Tick
  <2>1. log' = log /\ outbox' = outbox
    BY <1>1 DEF Tick
  <2>2. CASE Exists(m) /\ mon[m].wait > 0
    <3>1. mon'[m] = [mon[m] EXCEPT !.wait = @ - 1] /\ mon[m] \in Row
      BY <1>1, <2>2, StoredRow DEF Tick
    <3>2. mon'[m].state = mon[m].state /\ mon'[m].streak = mon[m].streak
      BY <3>1 DEF Row
    <3> QED BY <2>1, <2>2, <3>2 DEF Move, Untouched, Exists
  <2>3. CASE ~(Exists(m) /\ mon[m].wait > 0)
    <3>1. mon'[m] = mon[m]
      BY <1>1, <2>3 DEF Tick
    <3> QED BY <1>same, <2>1, <3>1
  <2> QED BY <2>2, <2>3
<1>2. ASSUME NEW n \in Monitors, PauseMonitor(n) \/ UpdateMonitor(n)
      PROVE  Move(m)
  <2>1. PICK a \in {"pause", "config_change"} : Write(n, <<a>>, <<>>)
    BY <1>2 DEF PauseMonitor, UpdateMonitor
  <2>2. Exists(n)
    BY <1>2 DEF PauseMonitor, UpdateMonitor, Operation
  <2>3. \E row \in Row :
          /\ mon' = [mon EXCEPT ![n] = row]
          /\ row.state = mon[n].state /\ row.streak = mon[n].streak
    BY <1>2, PauseRow, UpdateRow
  <2>4. <<a>> \in Seq(Entry) /\ <<>> \in Seq({"up", "down"})
    BY ShortSequences DEF Entry
  <2>5. /\ log'[n] = log[n] \o <<a>> /\ outbox'[n] = outbox[n] \o <<>>
        /\ \A k \in Monitors \ {n} : log'[k] = log[k] /\ outbox'[k] = outbox[k]
    BY <2>1, <2>4, WriteType
  <2>6. outbox[n] \o <<>> = outbox[n]
    BY ConcatEmptySeq DEF TypeOK
  <2>7. CASE m = n
    <3>1. mon'[m].state = mon[m].state /\ mon'[m].streak = mon[m].streak
      BY <2>3, <2>7, OneRow
    <3> QED BY <2>2, <2>5, <2>6, <2>7, <3>1 DEF Move, Noted
  <2>8. CASE m # n
    BY <1>same, <2>3, <2>5, <2>8, OneRow
  <2> QED BY <2>7, <2>8
<1>3. ASSUME NEW n \in Monitors, ResumeMonitor(n)
      PROVE  Move(m)
  <2>1. Write(n, <<"resume">>, <<>>) /\ Exists(n)
    BY <1>3 DEF ResumeMonitor, Operation
  <2>2. \E row \in Row :
          /\ mon' = [mon EXCEPT ![n] = row]
          /\ row.state = "up" /\ row.streak = mon[n].streak
    BY <1>3, ResumeRow
  <2>3. <<"resume">> \in Seq(Entry) /\ <<>> \in Seq({"up", "down"})
    BY ShortSequences DEF Entry
  <2>4. /\ log'[n] = log[n] \o <<"resume">> /\ outbox'[n] = outbox[n] \o <<>>
        /\ \A k \in Monitors \ {n} : log'[k] = log[k] /\ outbox'[k] = outbox[k]
    BY <2>1, <2>3, WriteType
  <2>5. outbox[n] \o <<>> = outbox[n]
    BY ConcatEmptySeq DEF TypeOK
  <2>6. CASE m = n
    <3>1. mon'[m].state = "up" /\ mon'[m].streak = mon[m].streak
      BY <2>2, <2>6, OneRow
    <3> QED BY <2>1, <2>4, <2>5, <2>6, <3>1 DEF Move, Resumed
  <2>7. CASE m # n
    BY <1>same, <2>2, <2>4, <2>7, OneRow
  <2> QED BY <2>6, <2>7
<1>4. ASSUME NEW n \in Monitors, CheckinSuccess(n) \/ CheckinFail(n)
      PROVE  Move(m)
  <2>1. CASE m = n
    BY <1>4, <2>1, PingMove DEF Move
  <2>2. CASE m # n
    <3>1. mon'[m] = mon[m]
      BY <1>4, <2>2, SuccessRow, FailRow, OneRow
    <3>2. log'[m] = log[m] /\ outbox'[m] = outbox[m]
      BY <1>4, <2>2 DEF CheckinSuccess, CheckinFail, Write, TypeOK
    <3> QED BY <1>same, <3>1, <3>2
  <2> QED BY <2>1, <2>2
<1>5. ASSUME NEW n \in Monitors, DeleteMonitor(n)
      PROVE  Move(m)
  <2>1. CASE m = n
    BY <1>5, <2>1 DEF DeleteMonitor, Operation, TypeOK, Move, Deleted
  <2>2. CASE m # n
    BY <1>same, <1>5, <2>2 DEF DeleteMonitor, TypeOK
  <2> QED BY <2>1, <2>2
<1>6. ASSUME NEW p \in Probers, NEW n \in Monitors, NEW responded \in BOOLEAN,
             RecordProbeResult(p, n, responded)
      PROVE  Move(m)
  <2>1. CASE m = n
    BY <1>6, <2>1, ResultMove DEF Move
  <2>2. CASE m # n
    <3>1. mon'[m] = mon[m]
      BY <1>6, <2>2, ResultRow, OneRow
    <3>2. log'[m] = log[m] /\ outbox'[m] = outbox[m]
      BY <1>6, <2>2, ResultWrites
    <3> QED BY <1>same, <3>1, <3>2
  <2> QED BY <2>1, <2>2
<1>7. ASSUME UNCHANGED <<mon, log, outbox>> PROVE Move(m)
  BY <1>same, <1>7
<1> QED BY <1>1, <1>2, <1>3, <1>4, <1>5, <1>6, <1>7
    DEF Next, Finish, Record, TargetChanges, ClaimDueProbes, ProbeLost, vars

----------------------------------------------------------------------------
(* Timelines.                                                              *)

HasOpenOutage(e) == \E i \in DOMAIN e : OpenBefore(e, i, Len(e) + 1)

WellPaired(e) ==
    \A j \in DOMAIN e :
      /\ e[j] = "down" => \A i \in DOMAIN e : ~OpenBefore(e, i, j)
      /\ e[j] = "up" => \E i \in DOMAIN e : OpenBefore(e, i, j)

(* A log one entry longer.                                                 *)
LEMMA OneMore ==
    ASSUME NEW e \in Seq(Entry), NEW t \in Entry
    PROVE  /\ e \o <<t>> \in Seq(Entry)
           /\ Len(e) \in Nat /\ DOMAIN e = 1 .. Len(e)
           /\ Len(e \o <<t>>) = Len(e) + 1 /\ DOMAIN (e \o <<t>>) = 1 .. Len(e) + 1
           /\ (e \o <<t>>)[Len(e) + 1] = t
           /\ \A k \in 1 .. Len(e) : (e \o <<t>>)[k] = e[k]
<1>1. <<t>> \in Seq(Entry) /\ Len(<<t>>) = 1 /\ <<t>>[1] = t
  OBVIOUS
<1>2. e \o <<t>> \in Seq(Entry) /\ Len(e \o <<t>>) = Len(e) + 1
  BY <1>1, ConcatProperties
<1>3. \A i \in 1 .. Len(e) + 1 :
        (e \o <<t>>)[i] = IF i <= Len(e) THEN e[i] ELSE <<t>>[i - Len(e)]
  BY <1>1, ConcatProperties
<1>4. Len(e) \in Nat /\ DOMAIN e = 1 .. Len(e)
  OBVIOUS
<1>5. DOMAIN (e \o <<t>>) = 1 .. Len(e) + 1
  BY <1>2, <1>4
<1> DEFINE f == e \o <<t>>
<1> HIDE DEF f
<1>6. f[Len(e) + 1] = t
  <2>1. Len(e) + 1 \in 1 .. Len(e) + 1 /\ ~(Len(e) + 1 <= Len(e)) /\ (Len(e) + 1) - Len(e) = 1
    BY <1>4
  <2> QED BY <1>1, <1>3, <2>1 DEF f
<1>7. \A k \in 1 .. Len(e) : f[k] = e[k]
  BY <1>3, <1>4 DEF f
<1> QED BY <1>2, <1>4, <1>5, <1>6, <1>7 DEF f

(* What was open before an entry of e is still decided by e.               *)
LEMMA OneMoreBefore ==
    ASSUME NEW e \in Seq(Entry), NEW t \in Entry,
           NEW i \in 1 .. Len(e), NEW j \in 1 .. Len(e) + 1
    PROVE  OpenBefore(e \o <<t>>, i, j) <=> OpenBefore(e, i, j)
<1> DEFINE f == e \o <<t>>
<1>1. Len(e) \in Nat /\ \A k \in 1 .. Len(e) : f[k] = e[k]
  BY OneMore
<1>2. i + 1 .. j - 1 \subseteq 1 .. Len(e)
  BY <1>1
<1> HIDE DEF f
<1>3. OpenBefore(f, i, j) <=> OpenBefore(e, i, j)
  BY <1>1, <1>2 DEF OpenBefore
<1> QED BY <1>3 DEF f

(* An outage is open after one more entry if the entry opens one, or does  *)
(* not close the one that was open.                                        *)
LEMMA OneMoreOpen ==
    ASSUME NEW e \in Seq(Entry), NEW t \in Entry
    PROVE  HasOpenOutage(e \o <<t>>) <=>
             t = "down" \/ (HasOpenOutage(e) /\ t \notin Closes)
<1> DEFINE f == e \o <<t>>
           n == Len(e)
<1>0. /\ n \in Nat /\ DOMAIN e = 1 .. n /\ Len(f) = n + 1 /\ f[n + 1] = t
      /\ DOMAIN f = 1 .. n + 1
  BY OneMore
<1>1. \A i \in 1 .. n : OpenBefore(f, i, n + 1) <=> OpenBefore(e, i, n + 1)
  <2>1. n + 1 \in 1 .. Len(e) + 1
    BY <1>0
  <2> QED BY <2>1, OneMoreBefore
<1> HIDE DEF f, n
<1>2. \A i \in 1 .. n : OpenBefore(f, i, n + 2) <=> OpenBefore(f, i, n + 1) /\ t \notin Closes
  <2> SUFFICES ASSUME NEW i \in 1 .. n
               PROVE  OpenBefore(f, i, n + 2) <=> OpenBefore(f, i, n + 1) /\ t \notin Closes
    OBVIOUS
  <2>1. i + 1 .. (n + 2) - 1 = (i + 1 .. (n + 1) - 1) \cup {n + 1}
    BY <1>0
  <2> QED BY <1>0, <2>1 DEF OpenBefore
<1>3. OpenBefore(f, n + 1, n + 2) <=> t = "down"
  <2>1. (n + 1) + 1 .. (n + 2) - 1 = {}
    BY <1>0
  <2> QED BY <1>0, <2>1 DEF OpenBefore
<1>4. HasOpenOutage(f) <=> \E i \in 1 .. n + 1 : OpenBefore(f, i, n + 2)
  <2>1. Len(f) + 1 = n + 2
    BY <1>0
  <2> QED BY <1>0, <2>1 DEF HasOpenOutage
<1>5. HasOpenOutage(e) <=> \E i \in 1 .. n : OpenBefore(e, i, n + 1)
  BY <1>0 DEF HasOpenOutage, n
<1>6. 1 .. n + 1 = (1 .. n) \cup {n + 1}
  BY <1>0
<1>7. HasOpenOutage(f) <=> t = "down" \/ (HasOpenOutage(e) /\ t \notin Closes)
  BY <1>1, <1>2, <1>3, <1>4, <1>5, <1>6
<1> QED BY <1>7 DEF f

(* A timeline stays well paired if a "down" comes only when no outage is   *)
(* open and an "up" only when one is.                                      *)
LEMMA OneMorePaired ==
    ASSUME NEW e \in Seq(Entry), NEW t \in Entry, WellPaired(e),
           t = "down" => ~HasOpenOutage(e),
           t = "up" => HasOpenOutage(e)
    PROVE  WellPaired(e \o <<t>>)
<1> DEFINE f == e \o <<t>>
           n == Len(e)
<1>0. /\ n \in Nat /\ DOMAIN e = 1 .. n /\ Len(f) = n + 1 /\ f[n + 1] = t
      /\ DOMAIN f = 1 .. n + 1 /\ \A k \in 1 .. n : f[k] = e[k]
  BY OneMore
<1>1. \A i \in 1 .. n, j \in 1 .. n + 1 : OpenBefore(f, i, j) <=> OpenBefore(e, i, j)
  BY OneMoreBefore
<1> HIDE DEF f, n
<1>2. \A j \in 1 .. n + 1 : ~OpenBefore(f, n + 1, j)
  BY <1>0 DEF OpenBefore
<1>3. HasOpenOutage(e) <=> \E i \in 1 .. n : OpenBefore(e, i, n + 1)
  BY <1>0 DEF HasOpenOutage, n
<1>4. 1 .. n + 1 = (1 .. n) \cup {n + 1}
  BY <1>0
<1>5. \A j \in 1 .. n :
        /\ e[j] = "down" => \A i \in 1 .. n : ~OpenBefore(e, i, j)
        /\ e[j] = "up" => \E i \in 1 .. n : OpenBefore(e, i, j)
  BY <1>0 DEF WellPaired
<1>6. \A j \in 1 .. n + 1 :
        /\ f[j] = "down" => \A i \in 1 .. n + 1 : ~OpenBefore(f, i, j)
        /\ f[j] = "up" => \E i \in 1 .. n + 1 : OpenBefore(f, i, j)
  <2> SUFFICES ASSUME NEW j \in 1 .. n + 1
               PROVE  /\ f[j] = "down" => \A i \in 1 .. n + 1 : ~OpenBefore(f, i, j)
                      /\ f[j] = "up" => \E i \in 1 .. n + 1 : OpenBefore(f, i, j)
    OBVIOUS
  <2>1. CASE j \in 1 .. n
    BY <1>0, <1>1, <1>2, <1>4, <1>5, <2>1
  <2>2. CASE j = n + 1
    BY <1>0, <1>1, <1>2, <1>3, <1>4, <2>2
  <2> QED BY <1>4, <2>1, <2>2
<1>7. WellPaired(f)
  BY <1>0, <1>6 DEF WellPaired
<1> QED BY <1>7 DEF f

(* What a timeline says of a monitor's state.                              *)
Truthful(e, state) == WellPaired(e) /\ (state = "down" <=> HasOpenOutage(e))

(* The ways a timeline grows truthfully.                                   *)
LEMMA TruthfulGrows ==
    ASSUME NEW e \in Seq(Entry), NEW old, Truthful(e, old)
    PROVE  /\ Truthful(e \o <<>>, old) /\ e \o <<>> = e
           /\ \A t \in Entry \ {"up", "down", "resume"} : Truthful(e \o <<t>>, old)
           /\ \A new : new # "down" => Truthful(e \o <<"resume">>, new)
           /\ old # "down" => Truthful(e \o <<"down">>, "down")
           /\ old = "down" => Truthful(e \o <<"up">>, "up")
<1>1. e \o <<>> = e
  BY ConcatEmptySeq
<1>2. \A t \in Entry \ {"up", "down", "resume"} : Truthful(e \o <<t>>, old)
  BY OneMoreOpen, OneMorePaired DEF Truthful, Closes
<1>3. \A new : new # "down" => Truthful(e \o <<"resume">>, new)
  BY OneMoreOpen, OneMorePaired DEF Truthful, Closes, Entry
<1>4. old # "down" => Truthful(e \o <<"down">>, "down")
  BY OneMoreOpen, OneMorePaired DEF Truthful, Closes, Entry
<1>5. old = "down" => Truthful(e \o <<"up">>, "up")
  BY OneMoreOpen, OneMorePaired DEF Truthful, Closes, Entry
<1> QED BY <1>1, <1>2, <1>3, <1>4, <1>5

TimelineInv == \A m \in Monitors : Truthful(log[m], mon[m].state)

(* A check whose transition is truthful leaves a truthful timeline.        *)
LEMMA CheckedTruthful ==
    ASSUME NEW e \in Seq(Entry), NEW old, NEW new, Truthful(e, old),
           NEW a \in Entry \ {"up", "down", "resume"}, NEW w \in {<<>>, <<"tls_expiry">>},
           NEW tr, \/ tr = <<>> /\ (old = "down" <=> new = "down")
                   \/ tr = <<"up">> /\ old = "down" /\ new = "up"
                   \/ tr = <<"down">> /\ old # "down" /\ new = "down"
    PROVE  Truthful(((e \o <<a>>) \o tr) \o w, new)
<1> DEFINE e1 == e \o <<a>>
           e2 == e1 \o tr
<1>1. e1 \in Seq(Entry) /\ Truthful(e1, old)
  BY OneMore, TruthfulGrows
<1> HIDE DEF e1
<1>2. e2 \in Seq(Entry)
  BY <1>1, ShortSequences, ConcatProperties
<1>3. Truthful(e2, new)
  <2>1. CASE tr = <<>>
    <3>1. e2 = e1 /\ (old = "down" <=> new = "down")
      BY <1>1, <2>1, TruthfulGrows
    <3> QED BY <1>1, <3>1 DEF Truthful
  <2>2. CASE tr = <<"up">>
    BY <1>1, <2>2, TruthfulGrows
  <2>3. CASE tr = <<"down">>
    BY <1>1, <2>3, TruthfulGrows
  <2> QED BY <2>1, <2>2, <2>3
<1> HIDE DEF e2
<1>4. Truthful(e2 \o w, new)
  <2>1. "tls_expiry" \in Entry \ {"up", "down", "resume"}
    BY DEF Entry
  <2> QED BY <1>2, <1>3, <2>1, TruthfulGrows
<1> QED BY <1>4 DEF e1, e2

LEMMA TimelineStep ==
    ASSUME FlightInv, TimelineInv, [Next]_vars
    PROVE  TimelineInv'
<1> SUFFICES ASSUME NEW m \in Monitors PROVE Truthful(log'[m], mon'[m].state)
  BY DEF TimelineInv
<1>1. log[m] \in Seq(Entry) /\ Truthful(log[m], mon[m].state)
  BY DEF FlightInv, TypeOK, TimelineInv
<1>2. CASE Untouched(m)
  BY <1>1, <1>2 DEF Untouched
<1>3. CASE Noted(m)
  BY <1>1, <1>3, TruthfulGrows DEF Noted, Entry
<1>4. CASE Resumed(m)
  BY <1>1, <1>4, TruthfulGrows DEF Resumed
<1>5. CASE Succeeded(m)
  <2> DEFINE tr == IF mon[m].state = "down" THEN <<"up">> ELSE <<>>
  <2>1. \/ tr = <<>> /\ (mon[m].state = "down" <=> mon'[m].state = "down")
        \/ tr = <<"up">> /\ mon[m].state = "down" /\ mon'[m].state = "up"
    BY <1>5 DEF Succeeded
  <2>2. PICK a \in {"ok", "ping_ok"}, w \in {<<>>, <<"tls_expiry">>} :
          log'[m] = ((log[m] \o <<a>>) \o tr) \o w
    BY <1>5 DEF Succeeded, Checked
  <2> HIDE DEF tr
  <2>3. a \in Entry \ {"up", "down", "resume"}
    BY DEF Entry
  <2> DEFINE e == log[m]
             old == mon[m].state
             new == mon'[m].state
  <2>4. e \in Seq(Entry) /\ Truthful(e, old)
    BY <1>1
  <2>5. log'[m] = ((e \o <<a>>) \o tr) \o w
    BY <2>2
  <2>6. \/ tr = <<>> /\ (old = "down" <=> new = "down")
        \/ tr = <<"up">> /\ old = "down" /\ new = "up"
        \/ tr = <<"down">> /\ old # "down" /\ new = "down"
    BY <2>1
  <2> HIDE DEF e, old, new
  <2>7. Truthful(((e \o <<a>>) \o tr) \o w, new)
    BY <2>2, <2>3, <2>4, <2>6, CheckedTruthful
  <2> QED BY <2>5, <2>7 DEF new
<1>6. CASE Failed(m)
  <2> DEFINE tr == IF mon'[m].state = "down" /\ mon[m].state # "down" THEN <<"down">> ELSE <<>>
  <2>1. \/ tr = <<>> /\ (mon[m].state = "down" <=> mon'[m].state = "down")
        \/ tr = <<"down">> /\ mon[m].state # "down" /\ mon'[m].state = "down"
    BY <1>6 DEF Failed
  <2>2. PICK a \in {"fail", "ping_fail"}, w \in {<<>>, <<"tls_expiry">>} :
          log'[m] = ((log[m] \o <<a>>) \o tr) \o w
    BY <1>6 DEF Failed, Checked
  <2> HIDE DEF tr
  <2>3. a \in Entry \ {"up", "down", "resume"}
    BY DEF Entry
  <2> DEFINE e == log[m]
             old == mon[m].state
             new == mon'[m].state
  <2>4. e \in Seq(Entry) /\ Truthful(e, old)
    BY <1>1
  <2>5. log'[m] = ((e \o <<a>>) \o tr) \o w
    BY <2>2
  <2>6. \/ tr = <<>> /\ (old = "down" <=> new = "down")
        \/ tr = <<"up">> /\ old = "down" /\ new = "up"
        \/ tr = <<"down">> /\ old # "down" /\ new = "down"
    BY <2>1
  <2> HIDE DEF e, old, new
  <2>7. Truthful(((e \o <<a>>) \o tr) \o w, new)
    BY <2>2, <2>3, <2>4, <2>6, CheckedTruthful
  <2> QED BY <2>5, <2>7 DEF new
<1>7. CASE Deleted(m)
  BY <1>7 DEF Deleted, Gone, Truthful, WellPaired, HasOpenOutage
<1> QED BY <1>2, <1>3, <1>4, <1>5, <1>6, <1>7, Moves DEF Move

LEMMA TimelineInvHolds ==
    ASSUME Undisturbed
    PROVE  Spec => []TimelineInv
<1>1. Init => TimelineInv
  <2> SUFFICES ASSUME Init, NEW m \in Monitors PROVE Truthful(log[m], mon[m].state)
    BY DEF TimelineInv
  <2>1. log[m] = <<>> /\ mon[m].state = "new"
    BY DEF Init
  <2>2. Truthful(<<>>, "new")
    BY DEF Truthful, WellPaired, HasOpenOutage
  <2> QED BY <2>1, <2>2
<1>2. TimelineInv /\ FlightInv /\ [Next]_vars => TimelineInv'
  BY TimelineStep
<1> QED BY <1>1, <1>2, FlightInvHolds, PTL DEF Spec

(* One alert per transition, probes undisturbed: no second "down" while an *)
(* outage is open and no "up" unless one is, for timelines of any length,  *)
(* any thresholds, lost probes and pauses, PATCH requests and deletions    *)
(* that meet a probe in flight.                                            *)
THEOREM TransitionsAlternate ==
    ASSUME Undisturbed
    PROVE  Spec => []NoRepeatedTransition
<1>1. TimelineInv => NoRepeatedTransition
  BY DEF TimelineInv, Truthful, WellPaired, NoRepeatedTransition
<1> QED BY <1>1, TimelineInvHolds, PTL

(* The state column and the timeline agree, probes undisturbed: a monitor  *)
(* is down exactly when its timeline has an open outage.                   *)
THEOREM TimelineTellsState ==
    ASSUME Undisturbed
    PROVE  Spec => []TimelineMatchesState
<1>1. TimelineInv => TimelineMatchesState
  BY DEF TimelineInv, Truthful, HasOpenOutage, TimelineMatchesState
<1> QED BY <1>1, TimelineInvHolds, PTL

----------------------------------------------------------------------------
(* The refinement of Timeline.                                             *)

PhaseOf(m) == CASE mon[m].state = "down" -> "out"
                [] mon[m].state = "gone" -> "gone"
                [] OTHER -> "ok"

(* The phase of a stored monitor is that of its state.                     *)
LEMMA PhaseOfStored ==
    ASSUME TypeOK, NEW m \in Monitors
    PROVE  /\ Exists(m) => PhaseOf(m) = IF mon[m].state = "down" THEN "out" ELSE "ok"
           /\ mon[m] = Gone => PhaseOf(m) = "gone"
<1>1. Exists(m) => mon[m].state \in State
  BY StoredRow DEF Row
<1> QED BY <1>1 DEF PhaseOf, State, Gone

(* Transitions in the outbox.                                              *)
LEMMA OutboxGrows ==
    ASSUME NEW q \in Seq({"up", "down"})
    PROVE  /\ q \o <<>> = q
           /\ \A t \in {"up", "down"} : q \o <<t>> = Append(q, t)
<1>1. q \o <<>> = q
  BY ConcatEmptySeq
<1>2. \A t \in {"up", "down"} : q \o <<t>> = Append(q, t)
  BY AppendIsConcat
<1> QED BY <1>1, <1>2

LEMMA MoveNotices ==
    ASSUME TypeOK, TypeOK', NEW m \in Monitors, Move(m)
    PROVE  \/ PhaseOf(m)' = PhaseOf(m) /\ outbox'[m] = outbox[m]
           \/ PhaseOf(m) = "ok" /\ PhaseOf(m)' = "out" /\ outbox'[m] = Append(outbox[m], "down")
           \/ PhaseOf(m) = "out" /\ PhaseOf(m)' = "ok" /\ outbox'[m] = Append(outbox[m], "up")
           \/ PhaseOf(m) = "out" /\ PhaseOf(m)' = "ok" /\ outbox'[m] = outbox[m]
           \/ PhaseOf(m) \in {"ok", "out"} /\ PhaseOf(m)' = "gone" /\ outbox'[m] = <<>>
<1>1. outbox[m] \in Seq({"up", "down"})
  BY DEF TypeOK
<1>2. /\ Exists(m) => PhaseOf(m) = IF mon[m].state = "down" THEN "out" ELSE "ok"
      /\ Exists(m) => mon[m].state \in State
  BY PhaseOfStored, StoredRow DEF Row
<1>3. CASE Untouched(m) \/ Noted(m)
  BY <1>3 DEF Untouched, Noted, PhaseOf
<1>4. CASE Resumed(m)
  <2>1. PhaseOf(m)' = "ok"
    BY <1>4 DEF Resumed, PhaseOf
  <2> QED BY <1>2, <1>4, <2>1 DEF Resumed
<1>5. CASE Succeeded(m)
  <2>1. PhaseOf(m)' = "ok" /\ Exists(m)
    BY <1>5 DEF Succeeded, Checked, PhaseOf
  <2>2. outbox'[m] = outbox[m] \o IF mon[m].state = "down" THEN <<"up">> ELSE <<>>
    BY <1>5 DEF Succeeded, Checked
  <2> QED BY <1>1, <1>2, <2>1, <2>2, OutboxGrows
<1>6. CASE Failed(m)
  <2>1. Exists(m) /\ mon'[m].state \in {"down", mon[m].state}
    BY <1>6 DEF Failed, Checked
  <2>2. PhaseOf(m)' = IF mon'[m].state = "down" THEN "out" ELSE "ok"
    BY <1>2, <2>1 DEF PhaseOf, State
  <2>3. outbox'[m] = outbox[m] \o
          IF mon'[m].state = "down" /\ mon[m].state # "down" THEN <<"down">> ELSE <<>>
    BY <1>6 DEF Failed, Checked
  <2> QED BY <1>1, <1>2, <2>1, <2>2, <2>3, OutboxGrows
<1>7. CASE Deleted(m)
  <2>1. PhaseOf(m)' = "gone"
    BY <1>7 DEF Deleted, PhaseOf, Gone
  <2> QED BY <1>2, <1>7, <2>1 DEF Deleted
<1> QED BY <1>3, <1>4, <1>5, <1>6, <1>7 DEF Move

(* The prober implements Timeline, probes undisturbed: for any number of   *)
(* monitors, each change of the state column and its outbox row are one    *)
(* step, in order and exactly once, and only a resume ends an outage       *)
(* without one.                                                            *)
THEOREM ProberKeepsPromise ==
    ASSUME Undisturbed
    PROVE  Spec => ImplementsTimeline
<1>1. Init => Promise!Init
  <2> SUFFICES ASSUME Init PROVE Promise!Init
    OBVIOUS
  <2>1. \A m \in Monitors : mon[m].state = "new"
    BY DEF Init
  <2>2. \A m \in Monitors : PhaseOf(m) = "ok"
    BY <2>1 DEF PhaseOf
  <2>3. [m \in Monitors |-> PhaseOf(m)] \in [Monitors -> {"absent", "ok"}]
    BY <2>2
  <2> QED BY <2>3 DEF Promise!Init, PhaseOf, Init
<1>2. FlightInv /\ [Next]_vars => [Promise!Next]_(Promise!vars)
  <2> SUFFICES ASSUME FlightInv, [Next]_vars PROVE Promise!Next
    OBVIOUS
  <2>0. TypeOK /\ TypeOK'
    BY TypeStep DEF FlightInv
  <2>1. ASSUME NEW m \in Monitors
        PROVE  \/ Promise!Create(m) \/ Promise!GoesDown(m) \/ Promise!ComesUp(m)
               \/ Promise!Dismiss(m) \/ Promise!Delete(m) \/ Promise!Stays(m)
    <3>1. Move(m)
      BY Moves
    <3> QED BY <2>0, <3>1, MoveNotices
        DEF Promise!Create, Promise!GoesDown, Promise!ComesUp, Promise!Dismiss,
            Promise!Delete, Promise!Stays, Promise!Becomes, PhaseOf
  <2>2. DOMAIN outbox' = Monitors
    BY <2>0 DEF TypeOK
  <2> QED BY <2>1, <2>2 DEF Promise!Next
<1> QED BY <1>1, <1>2, FlightInvHolds, PTL DEF Spec, ImplementsTimeline, Promise!Spec

----------------------------------------------------------------------------
(* Certificate warnings.  One replica is enough here: no operation of the  *)
(* owner and no ping touches tls_warned_cert.                              *)

OneProber == \A p, q \in Probers : p = q

(* A probe in flight knows the last certificate warned about.              *)
LastWarningKnown ==
    \A p \in Probers, m \in Monitors :
      flight[p][m] # Unclaimed /\ Exists(m) => flight[p][m].warnedCert = mon[m].warnedCert

(* No certificate later than the last one warned about has been warned     *)
(* about, and the target does not serve an earlier one.                    *)
WarningsInOrder ==
    \A m \in Monitors :
      /\ Exists(m) => /\ mon[m].warnedCert =< target[m].cert
                      /\ \A c \in 1 .. MaxCert : c > mon[m].warnedCert => warned[m][c] = 0
      /\ \A c \in 1 .. MaxCert : warned[m][c] =< 1

WarningInv == LastWarningKnown /\ WarningsInOrder

(* Steps in which no warning is given.                                     *)
LEMMA NoWarning ==
    ASSUME WarningInv, warned' = warned,
           \A m \in Monitors : Exists(m)' =>
             Exists(m) /\ mon'[m].warnedCert = mon[m].warnedCert,
           \A m \in Monitors : target'[m].cert = target[m].cert,
           \A p \in Probers, m \in Monitors :
             \/ flight'[p][m] = Unclaimed
             \/ flight'[p][m] = flight[p][m]
             \/ flight'[p][m] = mon'[m]
    PROVE  WarningInv'
<1>1. LastWarningKnown'
  BY DEF WarningInv, LastWarningKnown, Exists
<1>2. WarningsInOrder'
  BY DEF WarningInv, WarningsInOrder, Exists
<1> QED BY <1>1, <1>2 DEF WarningInv

LEMMA WarningStep ==
    ASSUME OneProber, ~MayReturn, TypeOK, WarningInv, [Next]_vars
    PROVE  WarningInv'
<1>1. CASE Tick
  <2>1. UNCHANGED <<warned, target, flight>>
    BY <1>1 DEF Tick
  <2>2. \A m \in Monitors : Exists(m)' => Exists(m) /\ mon'[m].warnedCert = mon[m].warnedCert
    BY <1>1, StoredRow DEF Tick, Row, Exists
  <2> QED BY <2>1, <2>2, NoWarning
<1>2. ASSUME NEW m \in Monitors, TargetChanges(m)
      PROVE  WarningInv'
  <2>1. UNCHANGED <<warned, mon, flight>>
    BY <1>2 DEF TargetChanges
  <2>2. \A n \in Monitors : target[n] \in Target
    BY DEF TypeOK
  <2>3. \A n \in Monitors : target'[n].cert >= target[n].cert
    <3>1. target[m].cert \in Nat
      BY <2>2, ConstantsAssumption DEF Target, Cert
    <3>2. CASE target' = [target EXCEPT ![m].ok = ~@]
      BY <2>2, <3>2, ConstantsAssumption DEF TypeOK, Target, Cert
    <3>3. CASE target' = [target EXCEPT ![m].expiring = TRUE]
      BY <2>2, <3>3, ConstantsAssumption DEF TypeOK, Target, Cert
    <3>4. ASSUME NEW c \in 1 .. MaxCert, NEW x \in BOOLEAN, c > target[m].cert,
                 target' = [target EXCEPT ![m].cert = c, ![m].expiring = x]
          PROVE  \A n \in Monitors : target'[n].cert >= target[n].cert
      BY <2>2, <3>4, ConstantsAssumption DEF TypeOK, Target, Cert
    <3> QED BY <1>2, <3>2, <3>3, <3>4 DEF TargetChanges
  <2>4. \A n \in Monitors : /\ target[n].cert \in Int /\ target'[n].cert \in Int
                            /\ Exists(n) => mon[n].warnedCert \in Int
    <3>1. \A n \in Monitors : target'[n] \in Target
      BY TypeStep DEF TypeOK
    <3>2. Cert \subseteq Int
      BY ConstantsAssumption DEF Cert
    <3>3. \A n \in Monitors : Exists(n) => mon[n] \in Row
      BY StoredRow
    <3> QED BY <2>2, <3>1, <3>2, <3>3 DEF Target, Row
  <2> QED BY <2>1, <2>3, <2>4 DEF WarningInv, LastWarningKnown, WarningsInOrder, Exists
<1>3. ASSUME NEW m \in Monitors,
             \/ PauseMonitor(m) \/ ResumeMonitor(m) \/ CheckinSuccess(m)
             \/ CheckinFail(m) \/ UpdateMonitor(m)
      PROVE  WarningInv'
  <2>1. UNCHANGED <<warned, target, flight>> /\ Exists(m)
    BY <1>3 DEF PauseMonitor, ResumeMonitor, CheckinSuccess, CheckinFail, UpdateMonitor, Operation
  <2>2. \E row \in Row :
          mon' = [mon EXCEPT ![m] = row] /\ row.warnedCert = mon[m].warnedCert
    BY <1>3, PauseRow, ResumeRow, SuccessRow, FailRow, UpdateRow
  <2>3. \A n \in Monitors : Exists(n)' => Exists(n) /\ mon'[n].warnedCert = mon[n].warnedCert
    BY <2>1, <2>2, OneRow DEF Exists
  <2> QED BY <2>1, <2>3, NoWarning
<1>4. ASSUME NEW m \in Monitors, DeleteMonitor(m)
      PROVE  WarningInv'
  <2>1. UNCHANGED <<warned, target, flight>>
    BY <1>4 DEF DeleteMonitor, Operation
  <2>2. \A n \in Monitors : mon'[n] = mon[n] \/ mon'[n] = Gone
    BY <1>4 DEF DeleteMonitor, Operation, TypeOK
  <2> QED BY <2>1, <2>2, NoWarning DEF Exists
<1>5. ASSUME NEW p \in Probers, NEW locked \in SUBSET Monitors, ClaimDueProbes(p, locked)
      PROVE  WarningInv'
  <2>1. /\ UNCHANGED <<mon, warned, target>>
        /\ \A m \in Monitors : flight'[p][m] # Unclaimed => flight'[p][m] = mon[m]
    BY <1>5, ClaimType DEF ClaimDueProbes
  <2>2. \A q \in Probers : q = p
    BY DEF OneProber
  <2> QED BY <2>1, <2>2, NoWarning DEF Exists
<1>6. ASSUME NEW p \in Probers, NEW m \in Monitors, ProbeLost(p, m)
      PROVE  WarningInv'
  <2>1. /\ flight'[p][m] = Unclaimed /\ \A n \in Monitors \ {m} : flight'[p][n] = flight[p][n]
        /\ UNCHANGED <<mon, warned, target>>
    BY <1>6, DoneType DEF ProbeLost
  <2>2. \A q \in Probers : q = p
    BY DEF OneProber
  <2> QED BY <2>1, <2>2, NoWarning DEF Exists
<1>7. ASSUME NEW p \in Probers, NEW m \in Monitors, NEW responded \in BOOLEAN,
             RecordProbeResult(p, m, responded)
      PROVE  WarningInv'
  <2> DEFINE prior == flight[p][m]
             t     == target[m]
             cert  == IF responded THEN t.cert ELSE 0
             warn  == ShouldWarn(prior, cert, t.expiring)
             last  == mon[m].warnedCert
  <2>1. /\ flight'[p][m] = Unclaimed /\ \A n \in Monitors \ {m} : flight'[p][n] = flight[p][n]
        /\ target' = target /\ Exists(m) /\ prior # Unclaimed
        /\ warned' = IF warn THEN [warned EXCEPT ![m][cert] = @ + 1] ELSE warned
    BY <1>7, DoneType DEF RecordProbeResult
  <2>2. \A q \in Probers : q = p
    BY DEF OneProber
  <2>3. /\ \A n \in Monitors \ {m} : mon'[n] = mon[n]
        /\ mon'[m] \in Row /\ mon'[m].warnedCert = IF warn THEN cert ELSE last
    BY <1>7, ResultRow, OneRow
  <2>4. mon[m] \in Row /\ t \in Target /\ cert \in {0, t.cert} /\ prior.warnedCert = last
    BY <1>7, <2>1, ResultRow DEF WarningInv, LastWarningKnown
  <2>5. CASE ~warn
    <3>1. \A n \in Monitors : Exists(n)' => Exists(n) /\ mon'[n].warnedCert = mon[n].warnedCert
      <4> HIDE DEF warn
      <4> QED BY <2>1, <2>3, <2>5 DEF Exists
    <3>2. warned' = warned
      <4> HIDE DEF warn
      <4> QED BY <2>1, <2>5
    <3> QED BY <2>1, <2>2, <3>1, <3>2, NoWarning
  <2>6. CASE warn
    <3>1. cert = t.cert /\ cert # 0 /\ last # cert
      BY <2>4, <2>6 DEF ShouldWarn
    <3>2. last \in Nat /\ t.cert \in Nat /\ cert \in 1 .. MaxCert /\ last =< t.cert
      BY <2>1, <2>4, <3>1, ConstantsAssumption DEF Row, Target, Cert, WarningInv, WarningsInOrder
    <3>3. mon'[m].warnedCert = cert /\ warned' = [warned EXCEPT ![m][cert] = @ + 1]
      <4> HIDE DEF warn, cert
      <4> QED BY <2>1, <2>3, <2>6
    <3>4. last < cert
      BY <3>1, <3>2
    <3> HIDE DEF cert
    <3>5. warned[m] \in [1 .. MaxCert -> Nat] /\ warned \in [Monitors -> [1 .. MaxCert -> Nat]]
      BY DEF TypeOK
    <3>6. warned[m][cert] = 0
      BY <2>1, <3>2, <3>4 DEF WarningInv, WarningsInOrder
    <3>7. /\ warned'[m][cert] = 1
          /\ \A c \in 1 .. MaxCert \ {cert} : warned'[m][c] = warned[m][c]
          /\ \A n \in Monitors \ {m} : warned'[n] = warned[n]
      BY <3>2, <3>3, <3>5, <3>6
    <3>8. LastWarningKnown'
      BY <2>1, <2>2, <2>3 DEF WarningInv, LastWarningKnown, Exists
    <3>9. WarningsInOrder'
      <4> SUFFICES ASSUME NEW n \in Monitors
                   PROVE  (/\ Exists(n) => /\ mon[n].warnedCert =< target[n].cert
                                           /\ \A c \in 1 .. MaxCert :
                                                c > mon[n].warnedCert => warned[n][c] = 0
                           /\ \A c \in 1 .. MaxCert : warned[n][c] =< 1)'
        BY DEF WarningsInOrder
      <4>1. CASE n = m
        <5>1. \A c \in 1 .. MaxCert : c > cert => warned'[m][c] = 0
          BY <2>1, <3>2, <3>4, <3>7 DEF WarningInv, WarningsInOrder
        <5>2. \A c \in 1 .. MaxCert : warned'[m][c] =< 1
          BY <3>7 DEF WarningInv, WarningsInOrder
        <5>3. cert =< target'[m].cert
          BY <2>1, <3>1, <3>2
        <5> QED BY <3>3, <4>1, <5>1, <5>2, <5>3
      <4>2. CASE n # m
        BY <2>1, <2>3, <3>7, <4>2 DEF WarningInv, WarningsInOrder, Exists
      <4> QED BY <4>1, <4>2
    <3> QED BY <3>8, <3>9 DEF WarningInv
  <2> QED BY <2>5, <2>6
<1>8. CASE UNCHANGED vars
  BY <1>8, NoWarning DEF vars, Exists
<1> QED BY <1>1, <1>2, <1>3, <1>4, <1>5, <1>6, <1>7, <1>8 DEF Next, Finish, Record

(* No certificate is warned about twice, with one replica and targets that *)
(* never go back to an earlier certificate, through lost probes, renewals, *)
(* and pauses, resumes, pings and PATCH requests that meet a probe.        *)
THEOREM WarnedOnce ==
    ASSUME OneProber, ~MayReturn
    PROVE  Spec => []OneWarningPerCertificate
<1>1. Init => WarningInv
  <2> SUFFICES ASSUME Init PROVE WarningInv
    OBVIOUS
  <2>1. LastWarningKnown
    BY DEF Init, NoRows, LastWarningKnown
  <2>2. \A m \in Monitors : mon[m].warnedCert = 0
    BY DEF Init
  <2>3. \A m \in Monitors : target[m].cert >= 0
    BY TypeInit, ConstantsAssumption DEF TypeOK, Target, Cert
  <2>4. \A m \in Monitors : \A c \in 1 .. MaxCert : warned[m][c] = 0
    BY DEF Init
  <2> QED BY <2>1, <2>2, <2>3, <2>4 DEF WarningInv, WarningsInOrder
<1>2. WarningInv /\ TypeOK /\ [Next]_vars => WarningInv'
  BY WarningStep
<1>3. WarningInv => OneWarningPerCertificate
  BY DEF WarningInv, WarningsInOrder, OneWarningPerCertificate
<1> QED BY <1>1, <1>2, <1>3, TypeCorrect, PTL DEF Spec

----------------------------------------------------------------------------
(* The confirmation threshold.                                             *)

Failure == {"fail", "ping_fail"}
Success == {"ok", "ping_ok"}

(* The failures since the last success of a whole timeline.                *)
Fails(e) == FailuresBefore(e, Len(e) + 1)

(* Failures before an entry of e are decided by e.                         *)
LEMMA SameFailures ==
    ASSUME NEW e \in Seq(Entry), NEW f \in Seq(Entry), NEW j \in 1 .. Len(e) + 1,
           \A k \in 1 .. Len(e) : f[k] = e[k]
    PROVE  FailuresBefore(f, j) = FailuresBefore(e, j)
<1>1. Len(e) \in Nat
  OBVIOUS
<1>2. \A i \in 1 .. j - 1 : i \in 1 .. Len(e) /\ i + 1 .. j - 1 \subseteq 1 .. Len(e)
  BY <1>1
<1>3. \A i \in 1 .. j - 1 :
        (/\ f[i] \in {"fail", "ping_fail"}
         /\ \A k \in i + 1 .. j - 1 : f[k] \notin {"ok", "ping_ok"})
        <=> (/\ e[i] \in {"fail", "ping_fail"}
             /\ \A k \in i + 1 .. j - 1 : e[k] \notin {"ok", "ping_ok"})
  BY <1>2
<1> QED BY <1>3 DEF FailuresBefore

LEMMA FailsFinite ==
    ASSUME NEW e \in Seq(Entry)
    PROVE  /\ Fails(e) \subseteq 1 .. Len(e)
           /\ IsFiniteSet(Fails(e)) /\ Cardinality(Fails(e)) \in Nat
<1>1. Len(e) \in Nat /\ (Len(e) + 1) - 1 = Len(e)
  OBVIOUS
<1>2. Fails(e) \subseteq 1 .. Len(e)
  BY <1>1 DEF Fails, FailuresBefore
<1>3. IsFiniteSet(1 .. Len(e))
  BY <1>1, FS_Interval
<1>4. IsFiniteSet(Fails(e))
  BY <1>2, <1>3, FS_Subset
<1> QED BY <1>2, <1>4, FS_CardinalityType

(* One more entry: a failure counts once, a success clears the count, and  *)
(* nothing else counts.                                                    *)
LEMMA OneMoreFails ==
    ASSUME NEW e \in Seq(Entry), NEW t \in Entry
    PROVE  /\ t \in Failure => Fails(e \o <<t>>) = Fails(e) \cup {Len(e) + 1}
           /\ t \notin Failure \cup Success => Fails(e \o <<t>>) = Fails(e)
<1> DEFINE f == e \o <<t>>
           n == Len(e)
           Counts(g, i, j) == /\ g[i] \in Failure
                              /\ \A k \in i + 1 .. j : g[k] \notin Success
<1>0. /\ n \in Nat /\ f \in Seq(Entry) /\ Len(f) = n + 1 /\ f[n + 1] = t
      /\ \A k \in 1 .. n : f[k] = e[k]
  BY OneMore
<1>1. Fails(e) = {i \in 1 .. n : Counts(e, i, n)}
  <2>1. (Len(e) + 1) - 1 = n
    OBVIOUS
  <2> QED BY <2>1 DEF Fails, FailuresBefore, Failure, Success
<1>2. Fails(f) = {i \in 1 .. n + 1 : Counts(f, i, n + 1)}
  <2>1. (Len(f) + 1) - 1 = n + 1
    BY <1>0
  <2> QED BY <2>1 DEF Fails, FailuresBefore, Failure, Success
<1> HIDE DEF f, n
<1>3. \A i \in 1 .. n : Counts(f, i, n + 1) <=> Counts(e, i, n) /\ t \notin Success
  <2> SUFFICES ASSUME NEW i \in 1 .. n
               PROVE  Counts(f, i, n + 1) <=> Counts(e, i, n) /\ t \notin Success
    OBVIOUS
  <2>1. i + 1 .. n + 1 = (i + 1 .. n) \cup {n + 1} /\ i + 1 .. n \subseteq 1 .. n
    BY <1>0
  <2> QED BY <1>0, <2>1
<1>4. Counts(f, n + 1, n + 1) <=> t \in Failure
  <2>1. (n + 1) + 1 .. n + 1 = {}
    BY <1>0
  <2> QED BY <1>0, <2>1
<1>5. 1 .. n + 1 = (1 .. n) \cup {n + 1}
  BY <1>0
<1> HIDE DEF Counts
<1>6. t \in Failure => Fails(f) = Fails(e) \cup {n + 1}
  BY <1>1, <1>2, <1>3, <1>4, <1>5 DEF Failure, Success
<1>7. t \notin Failure \cup Success => Fails(f) = Fails(e)
  BY <1>1, <1>2, <1>3, <1>4, <1>5
<1> QED BY <1>6, <1>7 DEF f, n

(* A streak that the timeline accounts for, and how both grow.             *)
Counted(e, streak) == streak =< Cardinality(Fails(e))

LEMMA CountedGrows ==
    ASSUME NEW e \in Seq(Entry), NEW s \in Nat, Counted(e, s)
    PROVE  /\ \A t \in Entry \ (Failure \cup Success) : Counted(e \o <<t>>, s)
           /\ \A t \in Failure : Counted(e \o <<t>>, s + 1)
<1>1. \A t \in Entry \ (Failure \cup Success) : Counted(e \o <<t>>, s)
  BY OneMoreFails DEF Counted
<1>2. ASSUME NEW t \in Failure PROVE Counted(e \o <<t>>, s + 1)
  <2> DEFINE F == Fails(e)
             n == Len(e)
  <2>1. t \in Entry
    BY DEF Failure, Entry
  <2>2. Fails(e \o <<t>>) = F \cup {n + 1}
    BY <2>1, OneMoreFails
  <2>3. F \subseteq 1 .. n /\ IsFiniteSet(F) /\ Cardinality(F) \in Nat /\ n \in Nat
    BY FailsFinite
  <2>4. s =< Cardinality(F)
    BY DEF Counted
  <2> HIDE DEF F, n
  <2>5. n + 1 \notin F
    BY <2>3
  <2>6. Cardinality(F \cup {n + 1}) = Cardinality(F) + 1
    BY <2>3, <2>5, FS_AddElement
  <2> DEFINE c == Cardinality(F)
  <2> HIDE DEF c
  <2>7. s + 1 =< c + 1
    BY <2>3, <2>4 DEF c
  <2>8. Cardinality(Fails(e \o <<t>>)) = c + 1
    BY <2>2, <2>6 DEF c
  <2> QED BY <2>7, <2>8 DEF Counted
<1> QED BY <1>1, <1>2

(* The failures a monitor's streak counts are in its timeline.             *)
StreakInv == \A m \in Monitors : Exists(m) => Counted(log[m], mon[m].streak)

LEMMA CheckedCounted ==
    ASSUME NEW e \in Seq(Entry), NEW a \in Entry, NEW s \in Nat, Counted(e \o <<a>>, s),
           NEW tr \in {<<>>, <<"up">>, <<"down">>}, NEW w \in {<<>>, <<"tls_expiry">>}
    PROVE  Counted(((e \o <<a>>) \o tr) \o w, s)
<1> DEFINE e1 == e \o <<a>>
           e2 == e1 \o tr
<1>0. {"up", "down", "tls_expiry"} \subseteq Entry \ (Failure \cup Success)
  BY DEF Entry, Failure, Success
<1>1. e1 \in Seq(Entry) /\ Counted(e1, s)
  BY OneMore
<1> HIDE DEF e1
<1>2. e2 \in Seq(Entry) /\ Counted(e2, s)
  <2>1. CASE tr = <<>>
    BY <1>1, <2>1, ConcatEmptySeq
  <2>2. ASSUME NEW t \in {"up", "down"}, tr = <<t>> PROVE e2 \in Seq(Entry) /\ Counted(e2, s)
    BY <1>0, <1>1, <2>2, OneMore, CountedGrows
  <2> QED BY <2>1, <2>2
<1> HIDE DEF e2
<1>3. Counted(e2 \o w, s)
  <2>1. CASE w = <<>>
    BY <1>2, <2>1, ConcatEmptySeq
  <2>2. CASE w = <<"tls_expiry">>
    BY <1>0, <1>2, <2>2, CountedGrows
  <2> QED BY <2>1, <2>2
<1> QED BY <1>3 DEF e1, e2

LEMMA StreakStep ==
    ASSUME FlightInv, StreakInv, [Next]_vars
    PROVE  StreakInv'
<1> SUFFICES ASSUME NEW m \in Monitors, Exists(m)'
             PROVE  Counted(log'[m], mon'[m].streak)
  BY DEF StreakInv
<1>0. log[m] \in Seq(Entry) /\ log'[m] \in Seq(Entry) /\ mon'[m].streak \in Nat
  <2>1. TypeOK /\ TypeOK'
    BY TypeStep DEF FlightInv
  <2> QED BY <2>1 DEF TypeOK, Row, Exists
<1>1. Exists(m) => mon[m].streak \in Nat /\ Counted(log[m], mon[m].streak)
  BY StoredRow DEF FlightInv, StreakInv, Row
<1>2. CASE Untouched(m)
  BY <1>1, <1>2 DEF Untouched, Exists
<1>3. CASE Noted(m) \/ Resumed(m)
  <2>1. PICK a \in {"pause", "config_change", "resume"} : log'[m] = log[m] \o <<a>>
    BY <1>3 DEF Noted, Resumed
  <2>2. Exists(m) /\ mon'[m].streak = mon[m].streak
    BY <1>3 DEF Noted, Resumed
  <2>3. a \in Entry \ (Failure \cup Success)
    BY DEF Entry, Failure, Success
  <2> QED BY <1>0, <1>1, <2>1, <2>2, <2>3, CountedGrows
<1>4. CASE Succeeded(m)
  <2>1. mon'[m].streak = 0
    BY <1>4 DEF Succeeded
  <2>2. Cardinality(Fails(log'[m])) \in Nat
    BY <1>0, FailsFinite
  <2> QED BY <2>1, <2>2 DEF Counted
<1>5. CASE Failed(m)
  <2> DEFINE tr == IF mon'[m].state = "down" /\ mon[m].state # "down" THEN <<"down">> ELSE <<>>
  <2>1. tr \in {<<>>, <<"up">>, <<"down">>}
    OBVIOUS
  <2>2. Exists(m) /\ mon'[m].streak = mon[m].streak + 1
    BY <1>5 DEF Failed, Checked
  <2>3. PICK a \in {"fail", "ping_fail"}, w \in {<<>>, <<"tls_expiry">>} :
          log'[m] = ((log[m] \o <<a>>) \o tr) \o w
    BY <1>5 DEF Failed, Checked
  <2> DEFINE e == log[m]
             s == mon[m].streak
  <2>4. e \in Seq(Entry) /\ s \in Nat /\ Counted(e, s)
    BY <1>0, <1>1, <2>2
  <2>5. a \in Entry /\ a \in Failure /\ s + 1 \in Nat
    BY <2>4 DEF Entry, Failure
  <2> HIDE DEF tr, e, s
  <2>6. Counted(e \o <<a>>, s + 1)
    BY <2>4, <2>5, CountedGrows
  <2>7. Counted(((e \o <<a>>) \o tr) \o w, s + 1)
    BY <2>1, <2>4, <2>5, <2>6, CheckedCounted
  <2> QED BY <2>2, <2>3, <2>7 DEF e, s
<1>6. CASE Deleted(m)
  BY <1>6 DEF Deleted, Exists
<1> QED BY <1>2, <1>3, <1>4, <1>5, <1>6, Moves DEF Move

(* A probe's result that writes a "down" as its second entry.              *)
LEMMA DownConfirmed ==
    ASSUME TypeOK, Fresh, StreakInv, NEW p \in Probers, NEW m \in Monitors,
           NEW responded \in BOOLEAN, RecordProbeResult(p, m, responded),
           Len(log[m]) + 2 \in DOMAIN log'[m], log'[m][Len(log[m]) + 2] = "down"
    PROVE  Cardinality(FailuresBefore(log'[m], Len(log[m]) + 2)) >= Confirmations(flight[p][m])
<1> DEFINE prior == flight[p][m]
           t     == target[m]
           cert  == IF responded THEN t.cert ELSE 0
           new   == NextProbeState(prior, t.ok)
           tr    == TransitionOf(prior, new)
           a     == IF t.ok THEN "ok" ELSE "fail"
           w     == IF ShouldWarn(prior, cert, t.expiring) THEN <<"tls_expiry">> ELSE <<>>
           e     == log[m]
           n     == Len(e)
           f     == log'[m]
<1>1. Exists(m) /\ prior # Unclaimed /\ prior \in Row /\ mon[m] \in Row
  BY FlightRow, StoredRow DEF RecordProbeResult
<1>2. prior.streak = mon[m].streak /\ prior.streak \in Nat /\ Confirmations(prior) \in Nat
  <2>1. prior.streak = mon[m].streak /\ prior.streak \in Nat /\ prior.threshold \in Int
    BY <1>1, ConstantsAssumption DEF Fresh, Row
  <2> HIDE DEF prior
  <2>2. Confirmations(prior) \in Nat
    BY <2>1 DEF Confirmations
  <2> QED BY <2>1, <2>2
<1>3. /\ a \in Entry /\ tr \in {<<>>, <<"up">>, <<"down">>} /\ w \in {<<>>, <<"tls_expiry">>}
      /\ f = e \o ((<<a>> \o tr) \o w) /\ f \in Seq(Entry)
  BY ResultWrites
<1>4. e \in Seq(Entry) /\ tr \in Seq(Entry) /\ w \in Seq(Entry) /\ n \in Nat
  BY <1>3, ShortSequences DEF TypeOK
<1>5. Counted(e, prior.streak)
  BY <1>1, <1>2 DEF StreakInv
<1>6. n + 2 \in DOMAIN f /\ f[n + 2] = "down"
  OBVIOUS
<1>7. tr = <<"down">> => ~t.ok /\ prior.streak + 1 >= Confirmations(prior)
  <2>1. CASE t.ok
    BY <2>1 DEF TransitionOf, NextProbeState
  <2>2. CASE ~t.ok
    BY <2>2 DEF TransitionOf, NextProbeState
  <2> QED BY <2>1, <2>2
<1>8. ~t.ok => a = "fail"
  OBVIOUS
<1> HIDE DEF prior, t, new, tr, a, w, e, n, f
<1>9. f = ((e \o <<a>>) \o tr) \o w
  <2>1. e \o ((<<a>> \o tr) \o w) = ((e \o <<a>>) \o tr) \o w
    <3>1. a \in Entry /\ e \in Seq(Entry) /\ tr \in Seq(Entry) /\ w \in Seq(Entry)
      BY <1>3, <1>4
    <3> QED BY <3>1, Pieces
  <2> QED BY <1>3, <2>1
<1> DEFINE e1 == e \o <<a>>
<1>10. /\ e1 \in Seq(Entry) /\ Len(e1) = n + 1
  BY <1>3, <1>4, OneMore DEF n
<1> HIDE DEF e1
<1>11. f = (e1 \o tr) \o w
  BY <1>9 DEF e1
<1>12. tr = <<"down">> /\ \A k \in 1 .. n + 1 : f[k] = e1[k]
  <2>1. ASSUME NEW x \in Entry
        PROVE  /\ e1 \o <<x>> \in Seq(Entry) /\ Len(e1 \o <<x>>) = n + 2
               /\ (e1 \o <<x>>)[n + 2] = x
               /\ \A k \in 1 .. n + 1 : (e1 \o <<x>>)[k] = e1[k]
    <3>1. Len(e1) + 1 = n + 2
      BY <1>4, <1>10
    <3> QED BY <1>10, <3>1, OneMore
  <2>2. CASE tr = <<>>
    <3>1. f = e1 \o w
      BY <1>10, <1>11, <2>2, ConcatEmptySeq
    <3>2. CASE w = <<>>
      <4>1. f = e1 /\ DOMAIN f = 1 .. n + 1
        BY <1>10, <3>1, <3>2, ConcatEmptySeq
      <4> QED BY <1>4, <1>6, <4>1
    <3>3. CASE w = <<"tls_expiry">>
      <4>1. f[n + 2] = "tls_expiry"
        BY <2>1, <3>1, <3>3 DEF Entry
      <4> QED BY <1>6, <4>1
    <3> QED BY <1>3, <3>2, <3>3
  <2>3. ASSUME NEW x \in {"up", "down"}, tr = <<x>>
        PROVE  f[n + 2] = x /\ \A k \in 1 .. n + 1 : f[k] = e1[k]
    <3> DEFINE e2 == e1 \o <<x>>
    <3>0. x \in Entry
      BY DEF Entry
    <3>1. /\ e2 \in Seq(Entry) /\ Len(e2) = n + 2 /\ e2[n + 2] = x
          /\ \A k \in 1 .. n + 1 : e2[k] = e1[k]
      BY <2>1, <3>0
    <3> HIDE DEF e2
    <3>2. f = e2 \o w
      BY <1>11, <2>3 DEF e2
    <3>3. \A k \in 1 .. n + 2 : f[k] = e2[k]
      <4>1. CASE w = <<>>
        BY <3>1, <3>2, <4>1, ConcatEmptySeq
      <4>2. CASE w = <<"tls_expiry">>
        BY <3>1, <3>2, <4>2, OneMore DEF Entry
      <4> QED BY <1>3, <4>1, <4>2
    <3>4. n + 2 \in 1 .. n + 2 /\ 1 .. n + 1 \subseteq 1 .. n + 2
      BY <1>4
    <3> QED BY <3>1, <3>3, <3>4
  <2> QED BY <1>3, <1>6, <2>2, <2>3
<1>13. FailuresBefore(f, n + 2) = Fails(e1)
  <2>1. n + 2 \in 1 .. Len(e1) + 1 /\ Len(e1) + 1 = n + 2
    BY <1>4, <1>10
  <2>2. \A k \in 1 .. Len(e1) : f[k] = e1[k]
    BY <1>10, <1>12
  <2> QED BY <1>3, <1>10, <2>1, <2>2, SameFailures DEF Fails
<1> DEFINE s == prior.streak
<1>14. s \in Nat /\ Counted(e, s) /\ a \in Failure
  BY <1>2, <1>5, <1>7, <1>8, <1>12 DEF Failure
<1> HIDE DEF s
<1>15. Counted(e1, s + 1)
  BY <1>4, <1>14, CountedGrows DEF e1
<1>16. Cardinality(Fails(e1)) \in Nat
  BY <1>10, FailsFinite
<1> DEFINE c == Cardinality(FailuresBefore(f, n + 2))
           h == Confirmations(prior)
<1>17. c \in Nat /\ s + 1 =< c /\ h \in Nat /\ s + 1 >= h
  BY <1>2, <1>7, <1>12, <1>13, <1>15, <1>16 DEF Counted, s
<1> HIDE DEF c, h
<1>18. c >= h
  BY <1>14, <1>17
<1> QED BY <1>18 DEF c, h, f, n, e, prior

(* One step of ConfirmedDown.                                              *)
LEMMA ConfirmedStep ==
    ASSUME Undisturbed, FlightInv, StreakInv, [Next]_vars,
           NEW p \in Probers, NEW m \in Monitors,
           flight[p][m] # Unclaimed, flight'[p][m] = Unclaimed,
           Len(log[m]) + 2 \in DOMAIN log'[m], log'[m][Len(log[m]) + 2] = "down"
    PROVE  Cardinality(FailuresBefore(log'[m], Len(log[m]) + 2)) >= Confirmations(flight[p][m])
<1> USE DEF FlightInv
<1>1. log'[m] # log[m]
  BY DEF TypeOK
<1>2. flight' # flight
  OBVIOUS
<1>3. PICK q \in Probers, n \in Monitors, responded \in BOOLEAN :
        RecordProbeResult(q, n, responded)
  BY <1>1, <1>2 DEF Next, Finish, Record, Tick, TargetChanges, PauseMonitor, ResumeMonitor,
     CheckinSuccess, CheckinFail, UpdateMonitor, DeleteMonitor, Operation, ClaimDueProbes,
     ProbeLost, vars
<1>4. n = m
  BY <1>1, <1>3, ResultWrites
<1>5. q = p
  BY DEF Undisturbed
<1> QED BY <1>3, <1>4, <1>5, DownConfirmed

(* A probe takes a monitor down only as the fail_threshold-th failure in a *)
(* row since the last success, probes undisturbed, for any thresholds,     *)
(* and PATCH requests that change the threshold while the probe runs.      *)
THEOREM ThresholdHolds ==
    ASSUME Undisturbed
    PROVE  Spec => ConfirmedDown
<1>1. Init => StreakInv
  <2> SUFFICES ASSUME Init, NEW m \in Monitors PROVE Counted(log[m], mon[m].streak)
    BY DEF StreakInv
  <2>1. log[m] = <<>> /\ mon[m].streak = 0
    BY DEF Init
  <2>2. Cardinality(Fails(<<>>)) \in Nat
    BY ShortSequences, FailsFinite
  <2> QED BY <2>1, <2>2 DEF Counted
<1>2. StreakInv /\ FlightInv /\ [Next]_vars => StreakInv'
  BY StreakStep
<1>3. StreakInv /\ FlightInv /\ [Next]_vars =>
        [\A p \in Probers, m \in Monitors :
           LET e == log'[m]
               n == Len(log[m]) + 2 IN
           /\ flight[p][m] # Unclaimed /\ flight'[p][m] = Unclaimed
           /\ n \in DOMAIN e /\ e[n] = "down"
           => Cardinality(FailuresBefore(e, n)) >= Confirmations(flight[p][m])]_vars
  BY ConfirmedStep
<1> QED BY <1>1, <1>2, <1>3, FlightInvHolds, PTL DEF Spec, ConfirmedDown
==============================================================================
