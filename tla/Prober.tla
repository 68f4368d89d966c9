------------------------------- MODULE Prober --------------------------------
(***************************************************************************)
(* HTTP monitors and the prober worker (worker/prober, store/prober.go,    *)
(* ClaimDueProbes).  The claim is a single statement: its row locks are    *)
(* gone when it returns, the probe takes seconds, and RecordProbeResult    *)
(* then writes state and fail_streak computed from the row as the claim    *)
(* saw it.  Pauses, resumes, pings, changes and the deletion of the        *)
(* monitor, changes of its target and other replicas come in between.      *)
(*                                                                         *)
(* next_probe_at is kept relative to now (wait) and as an order, and a     *)
(* certificate is its NotAfter with a flag for being inside                *)
(* tlsWarningWindow.                                                       *)
(***************************************************************************)
EXTENDS Integers, Sequences, FiniteSets

CONSTANTS
    Monitors,       \* http monitors
    Probers,        \* prober replicas
    Thresholds,     \* fail_threshold values a monitor can have (0: NULL)
    Intervals,      \* interval_s values a monitor can have
    ClaimLimit,     \* claimLimit of worker/prober
    Ops,            \* which operations can happen
    OpsInFlight,    \* whether resumes and pings can meet a probe in flight
    MayReturn,      \* whether a target can serve an earlier certificate again
    MaxCert,        \* bound: certificates of a target
    MaxChanges,     \* bound: changes of the targets
    MaxOps,         \* bound: API operations and pings
    MaxProbes       \* bound: probe results of one monitor

ASSUME ConstantsAssumption ==
    /\ Thresholds \subseteq Int /\ Intervals \subseteq Nat \ {0}
    /\ ClaimLimit \in Nat \ {0}
    /\ Ops \subseteq {"pause", "resume", "ping", "update", "delete"}
    /\ OpsInFlight \in BOOLEAN /\ MayReturn \in BOOLEAN
    /\ MaxCert \in Nat /\ MaxChanges \in Nat /\ MaxOps \in Nat /\ MaxProbes \in Nat

VARIABLES
    mon,        \* the monitors table
    log,        \* rows of events, probe_results and checkins, in commit order
    warned,     \* for each certificate, the tls_expiry events written for it
    target,     \* what each monitor's URL serves
    flight,     \* the rows each replica has claimed and is probing
    outbox,     \* the alert rows of kind up and down, in commit order
    order,      \* the pairs of monitors in the order of next_probe_at
    changes,    \* changes of targets, for MaxChanges
    ops         \* operations, for MaxOps

vars == <<mon, log, outbox, warned, target, flight, order, changes, ops>>

State == {"new", "up", "down"}
Cert == 0 .. MaxCert                \* 0: no certificate (plain http, SQL NULL)

Row == [state: State, streak: Nat, paused: BOOLEAN, autoResume: BOOLEAN,
        threshold: Thresholds, interval: Intervals,
        wait: Nat, warnedCert: Cert]

(* "tls_expiry" stands for the event and its outbox row, which             *)
(* recordTransition inserts together.                                      *)
Entry == {"ok", "fail", "ping_ok", "ping_fail", "up", "down", "tls_expiry",
          "pause", "resume", "config_change"}

Target == [ok: BOOLEAN, cert: Cert, expiring: BOOLEAN]

(* A replica's batch maps each monitor to the row it claimed, if any.      *)
Unclaimed == [state |-> "unclaimed"]
NoRows == [m \in Monitors |-> Unclaimed]

(* Stands for the row of a deleted monitor.                                *)
Gone == [state |-> "gone"]
Exists(m) == mon[m] # Gone

TypeOK ==
    /\ mon \in [Monitors -> Row \cup {Gone}]
    /\ log \in [Monitors -> Seq(Entry)]
    /\ outbox \in [Monitors -> Seq({"up", "down"})]
    /\ warned \in [Monitors -> [1 .. MaxCert -> Nat]]
    /\ target \in [Monitors -> Target]
    /\ flight \in [Probers -> [Monitors -> Row \cup {Unclaimed}]]
    /\ order \subseteq Monitors \X Monitors
    /\ changes \in Nat /\ ops \in Nat

(* Monitors have just been created: the first probe is due at once.        *)
Init ==
    /\ mon \in [Monitors ->
         [state: {"new"}, streak: {0}, paused: {FALSE}, autoResume: BOOLEAN,
          threshold: Thresholds, interval: Intervals, wait: {0}, warnedCert: {0}]]
    /\ log = [m \in Monitors |-> <<>>]
    /\ outbox = [m \in Monitors |-> <<>>]
    /\ warned = [m \in Monitors |-> [c \in 1 .. MaxCert |-> 0]]
    /\ target \in [Monitors -> {[ok |-> TRUE, cert |-> c, expiring |-> FALSE] : c \in {0, 1} \cap Cert}]
    /\ flight = [p \in Probers |-> NoRows]
    /\ \E rank \in [Monitors -> 1 .. Cardinality(Monitors)] :
         order = {q \in Monitors \X Monitors : rank[q[1]] < rank[q[2]]}
    /\ changes = 0 /\ ops = 0

----------------------------------------------------------------------------
(* The environment: time, targets, and the owner of the monitor.           *)

Tick ==
    /\ \E m \in Monitors : Exists(m) /\ mon[m].wait > 0
    /\ mon' = [m \in Monitors |->
         IF Exists(m) /\ mon[m].wait > 0 THEN [mon[m] EXCEPT !.wait = @ - 1] ELSE mon[m]]
    /\ UNCHANGED <<log, outbox, warned, target, flight, order, changes, ops>>

(* The target breaks or recovers, or its certificate nears its expiry, or  *)
(* is replaced.                                                            *)
TargetChanges(m) ==
    /\ changes < MaxChanges /\ changes' = changes + 1
    /\ \/ target' = [target EXCEPT ![m].ok = ~@]
       \/ /\ target[m].cert # 0 /\ ~target[m].expiring
          /\ target' = [target EXCEPT ![m].expiring = TRUE]
       \/ /\ target[m].cert # 0
          /\ \E c \in 1 .. MaxCert, x \in BOOLEAN :
               /\ c # target[m].cert
               /\ ~MayReturn => c > target[m].cert
               /\ target' = [target EXCEPT ![m].cert = c, ![m].expiring = x]
    /\ UNCHANGED <<mon, log, outbox, warned, flight, order, ops>>

(* Entries of the log, and among them the transition, if there is one,     *)
(* with its outbox row (recordTransition).                                 *)
Write(m, entries, transition) ==
    /\ log' = [log EXCEPT ![m] = @ \o entries]
    /\ outbox' = [outbox EXCEPT ![m] = @ \o transition]

InFlight(m) == \E p \in Probers : flight[p][m] # Unclaimed

Operation(op, m) ==
    /\ Exists(m) /\ op \in Ops /\ ops < MaxOps /\ ops' = ops + 1
    /\ op \in {"resume", "ping"} => OpsInFlight \/ ~InFlight(m)
    /\ UNCHANGED <<warned, target, flight, order, changes>>

(* Mutant: paused as a state instead of a flag.                            *)
PauseAsState(m) ==
    /\ Operation("pause", m)
    /\ mon' = [mon EXCEPT ![m].paused = TRUE, ![m].state = "paused"]
    /\ Write(m, <<"pause">>, <<>>)

PauseMonitor(m) ==
    /\ Operation("pause", m)
    /\ mon' = [mon EXCEPT ![m].paused = TRUE]
    /\ Write(m, <<"pause">>, <<>>)

(* Mutant: the resume of a monitor that is down keeps its state.           *)
ResumeKeepsState(m) ==
    /\ Operation("resume", m)
    /\ mon' = [mon EXCEPT ![m].paused = FALSE]
    /\ Write(m, <<"resume">>, <<>>)

(* fail_streak and next_probe_at stay as they are.                         *)
ResumeMonitor(m) ==
    /\ Operation("resume", m)
    /\ mon' = [mon EXCEPT ![m].paused = FALSE, ![m].state = "up"]
    /\ Write(m, <<"resume">>, <<>>)

(* RecordCheckin takes pings of http monitors too; the row is locked from  *)
(* the read to the commit.                                                 *)
CheckinSuccess(m) ==
    /\ Operation("ping", m)
    /\ mon' = [mon EXCEPT ![m].state = "up", ![m].streak = 0,
                          ![m].paused = @ /\ ~mon[m].autoResume]
    /\ LET t == IF mon[m].state = "down" THEN <<"up">> ELSE <<>>
       IN  Write(m, <<"ping_ok">> \o t, t)

CheckinFail(m) ==
    /\ Operation("ping", m)
    /\ mon' = [mon EXCEPT ![m].state = "down", ![m].streak = @ + 1,
                          ![m].paused = @ /\ ~mon[m].autoResume]
    /\ LET t == IF mon[m].state # "down" THEN <<"down">> ELSE <<>>
       IN  Write(m, <<"ping_fail">> \o t, t)

(* PATCH of an http monitor: neither next_probe_at nor the state moves.    *)
(* Fields the body leaves out keep their value (COALESCE); an empty body   *)
(* writes nothing.                                                         *)
UpdateMonitor(m) ==
    /\ Operation("update", m)
    /\ \E t \in Thresholds, i \in Intervals, a \in BOOLEAN :
         mon' = [mon EXCEPT ![m].threshold = t, ![m].interval = i, ![m].autoResume = a]
    /\ Write(m, <<"config_change">>, <<>>)

(* Events, alerts and probe results go with the row.                       *)
DeleteMonitor(m) ==
    /\ Operation("delete", m)
    /\ mon' = [mon EXCEPT ![m] = Gone]
    /\ log' = [log EXCEPT ![m] = <<>>] /\ outbox' = [outbox EXCEPT ![m] = <<>>]

----------------------------------------------------------------------------
(* The prober.                                                             *)

Results(m) == Len(SelectSeq(log[m], LAMBDA e : e \in {"ok", "fail"}))

Due(m) ==
    /\ Exists(m) /\ mon[m].wait = 0 /\ ~mon[m].paused
    /\ Results(m) < MaxProbes

Before(m, n) == <<m, n>> \in order

(* The ClaimLimit longest overdue rows, without those some transaction has *)
(* locked at this moment.                                                  *)
ClaimDueProbes(p, locked) ==
    LET due == {m \in Monitors : Due(m)} \ locked IN
    /\ flight[p] = NoRows
    /\ \E rows \in SUBSET due :
         /\ rows # {}
         /\ \/ rows = due /\ Cardinality(rows) =< ClaimLimit
            \/ Cardinality(rows) = ClaimLimit
         /\ \A m \in rows, n \in due \ rows : ~Before(n, m)
         /\ flight' = [flight EXCEPT ![p] =
              [m \in Monitors |-> IF m \in rows THEN mon[m] ELSE Unclaimed]]
    /\ UNCHANGED <<mon, log, outbox, warned, target, order, changes, ops>>

Done(p, m) == flight' = [flight EXCEPT ![p][m] = Unclaimed]

(* The failures in a row that confirm an outage: the API does not check    *)
(* fail_threshold, and NULL, 0 and negative values mean the default.       *)
Confirmations(row) == IF row.threshold =< 0 THEN 2 ELSE row.threshold

(* Mutants: down one failure early; the streak is clamped at the threshold *)
(* and has to exceed it.                                                   *)
NextProbeStateEager(prior, ok) ==
    IF ok THEN [state |-> "up", streak |-> 0]
    ELSE [state |-> IF prior.streak + 2 >= Confirmations(prior) THEN "down" ELSE prior.state,
          streak |-> prior.streak + 1]

NextProbeStateClamped(prior, ok) ==
    IF ok THEN [state |-> "up", streak |-> 0]
    ELSE [state |-> IF prior.streak > Confirmations(prior) THEN "down" ELSE prior.state,
          streak |-> IF prior.streak < Confirmations(prior) THEN prior.streak + 1 ELSE prior.streak]

(* The confirmation threshold, applied to the row the claim saw.  Its      *)
(* state is never empty: the column is NOT NULL and checked.               *)
NextProbeState(prior, ok) ==
    IF ok THEN [state |-> "up", streak |-> 0]
    ELSE [state |-> IF prior.streak + 1 >= Confirmations(prior) THEN "down" ELSE prior.state,
          streak |-> prior.streak + 1]

(* Mutant: the transition is judged by the new state alone.                *)
TransitionOfNewState(prior, new) ==
    IF new.state = "down" THEN <<"down">>
    ELSE IF prior.state = "down" THEN <<"up">> ELSE <<>>

TransitionOf(prior, new) ==
    IF new.state = "down" /\ prior.state # "down" THEN <<"down">>
    ELSE IF new.state = "up" /\ prior.state = "down" THEN <<"up">> ELSE <<>>

(* Mutant: nothing is compared with the last warning.                      *)
ShouldWarnAlways(prior, cert, expiring) == cert # 0 /\ expiring

(* maybeWarnTLSExpiry.                                                     *)
ShouldWarn(prior, cert, expiring) ==
    cert # 0 /\ expiring /\ prior.warnedCert # cert

(* RecordProbeResult, at the end of the probe of one claimed row, with the *)
(* threshold and the interval of the claim.  The certificate is seen       *)
(* whenever there was a response at all.  (The insert of the result fails  *)
(* if the monitor is gone.)                                                *)
RecordProbeResult(p, m, responded) ==
    LET prior == flight[p][m]
        t     == target[m]
        cert  == IF responded THEN t.cert ELSE 0
        new   == NextProbeState(prior, t.ok)
        warn  == ShouldWarn(prior, cert, t.expiring)
    IN
    /\ prior # Unclaimed /\ Exists(m)
    /\ t.ok => responded
    /\ mon' = [mon EXCEPT ![m].state = new.state, ![m].streak = new.streak,
                          ![m].wait = prior.interval,
                          ![m].warnedCert = IF warn THEN cert ELSE @]
    /\ Write(m, <<IF t.ok THEN "ok" ELSE "fail">> \o TransitionOf(prior, new)
                  \o IF warn THEN <<"tls_expiry">> ELSE <<>>, TransitionOf(prior, new))
    /\ warned' = IF warn THEN [warned EXCEPT ![m][cert] = @ + 1] ELSE warned
    /\ order' = {q \in order : m \notin {q[1], q[2]}} \cup ((Monitors \ {m}) \X {m})
    /\ Done(p, m)
    /\ UNCHANGED <<target, changes, ops>>

(* The probe leaves no trace and next_probe_at as it is: the http_config   *)
(* does not decode, the monitor is gone, the transaction failed, or the    *)
(* worker died.                                                            *)
ProbeLost(p, m) ==
    /\ flight[p][m] # Unclaimed
    /\ Done(p, m)
    /\ UNCHANGED <<mon, log, outbox, warned, target, order, changes, ops>>

Record(p, m) == \E responded \in BOOLEAN : RecordProbeResult(p, m, responded)
Finish(p, m) == Record(p, m) \/ ProbeLost(p, m)

Next ==
    \/ Tick
    \/ \E m \in Monitors :
         \/ TargetChanges(m) \/ PauseMonitor(m) \/ ResumeMonitor(m)
         \/ CheckinSuccess(m) \/ CheckinFail(m)
         \/ UpdateMonitor(m) \/ DeleteMonitor(m)
    \/ \E p \in Probers :
         \/ \E locked \in SUBSET Monitors : ClaimDueProbes(p, locked)
         \/ \E m \in Monitors : Finish(p, m)

Spec == Init /\ [][Next]_vars

(* Time passes; every replica keeps ticking and finishes its probes, not   *)
(* all of which are lost, and rows are not locked by others in every tick. *)
Fairness ==
    /\ WF_vars(Tick)
    /\ \A p \in Probers :
         /\ SF_vars(ClaimDueProbes(p, {}))
         /\ \A m \in Monitors : WF_vars(Finish(p, m)) /\ SF_vars(Record(p, m))

FairSpec == Spec /\ Fairness

----------------------------------------------------------------------------
(* Properties.                                                             *)

Closes == {"up", "resume"}

(* The i-th entry opened an outage that is still open just before the      *)
(* j-th.                                                                   *)
OpenBefore(e, i, j) == i < j /\ e[i] = "down" /\ \A k \in i + 1 .. j - 1 : e[k] \notin Closes

(* One alert per transition: no second "down" while an outage is open, and *)
(* no "up" unless one is, although every probe's transition is computed    *)
(* from a row read seconds before.                                         *)
NoRepeatedTransition ==
    \A m \in Monitors : LET e == log[m] IN
      \A j \in DOMAIN e :
        /\ e[j] = "down" => \A i \in DOMAIN e : ~OpenBefore(e, i, j)
        /\ e[j] = "up" => \E i \in DOMAIN e : OpenBefore(e, i, j)

(* The state column and the timeline agree: a monitor is down exactly when *)
(* its timeline has an open outage.  A down without an event would never   *)
(* be alerted, and an event without the state would never be closed.       *)
TimelineMatchesState ==
    \A m \in Monitors : LET e == log[m] IN
      mon[m].state = "down" <=> \E i \in DOMAIN e : OpenBefore(e, i, Len(e) + 1)

(* The failures since the last success before the j-th entry.              *)
FailuresBefore(e, j) ==
    {i \in 1 .. j - 1 : /\ e[i] \in {"fail", "ping_fail"}
                        /\ \A k \in i + 1 .. j - 1 : e[k] \notin {"ok", "ping_ok"}}

(* A probe takes a monitor down only as the fail_threshold-th failure in a *)
(* row since the last success, with the threshold of the row it was        *)
(* claimed with: a single blip is absorbed, whatever PATCH requests change *)
(* meanwhile.                                                              *)
ConfirmedDown ==
    [][\A p \in Probers, m \in Monitors :
         LET e == log'[m]
             n == Len(log[m]) + 2 IN
         /\ flight[p][m] # Unclaimed /\ flight'[p][m] = Unclaimed
         /\ n \in DOMAIN e /\ e[n] = "down"
         => Cardinality(FailuresBefore(e, n)) >= Confirmations(flight[p][m])]_vars

(* No certificate is warned about twice, through lost probes, renewals and *)
(* stale claims.                                                           *)
OneWarningPerCertificate ==
    \A m \in Monitors : \A c \in 1 .. MaxCert : warned[m][c] =< 1

(* The target stays broken for good, nobody touches the monitor any more,  *)
(* and the bound leaves it enough probes.                                  *)
Broken(m) ==
    /\ changes = MaxChanges /\ ops = MaxOps
    /\ ~target[m].ok /\ Exists(m) /\ ~mon[m].paused
    /\ Results(m) + Confirmations(mon[m]) + Cardinality(Probers) =< MaxProbes

(* A target that stays broken is eventually recorded down, through lost    *)
(* probes and claims that were full.                                       *)
BrokenTargetGoesDown ==
    \A m \in Monitors : Broken(m) ~> mon[m].state = "down"

(* The monitor as its owner sees it.                                       *)
Promise == INSTANCE Timeline WITH
    phase <- [m \in Monitors |-> CASE mon[m].state = "down" -> "out"
                                   [] mon[m].state = "gone" -> "gone"
                                   [] OTHER -> "ok"],
    notices <- outbox

(* The prober implements the Timeline of the heartbeat monitors: each      *)
(* change of the state column and its outbox row are one step, although    *)
(* the decision rests on the row as it was when the probe began.           *)
ImplementsTimeline == Promise!Spec
==============================================================================
