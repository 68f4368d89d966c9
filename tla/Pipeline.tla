------------------------------- MODULE Pipeline ------------------------------
(***************************************************************************)
(* From a missed ping to a message: the processes of Heartbeat (API,       *)
(* ingest, schedulers) and those of Alerter share the monitors table, the  *)
(* clock and the outbox.  Heartbeat's log says which event each outbox row *)
(* is for; outbox has the columns the alerter works on.                    *)
(***************************************************************************)
EXTENDS Heartbeat

LOCAL INSTANCE SequencesExt

CONSTANTS
    Alerters,       \* alerter replicas
    AlertLimit,     \* claimLimit of worker/alerter
    Cadence,        \* reminder_every_s of each monitor, 0 disables
    Channels, MaxAttempts, Backoff, FaultKinds, MaxFaults, MaxAlerts

VARIABLES
    muted,          \* alerts_muted of each monitor
    outbox,         \* the alerts table, by id
    channel, failures, inbox, worker, faults

(* What the alerter reads of the monitors table.                           *)
View == [m \in Monitors |->
    [exists |-> Stored(m), down |-> mon[m].state = "down", muted |-> muted[m]]]

A == INSTANCE Alerter WITH mon <- View, alerts <- outbox, Workers <- Alerters,
                           ClaimLimit <- AlertLimit

alerterVars == <<channel, failures, inbox, worker, faults>>
pipelineVars == <<vars, muted, outbox, alerterVars>>

PipelineInit ==
    /\ Init
    /\ muted = [m \in Monitors |-> FALSE]
    /\ A!StartUp

----------------------------------------------------------------------------

(* The monitors a step of the store records a transition of.               *)
Transitions == {m \in Monitors : Len(log'[m].alerts) > Len(log[m].alerts)}

(* Each of them gets its outbox row in the same commit, dated with the     *)
(* commit.  (now() is the start of the transaction: under a lock held for  *)
(* long the row is due sooner than here, and never later.)                 *)
Enqueue ==
    \E q \in SetToSeqs(Transitions) :
      outbox' = outbox \o [i \in DOMAIN q |-> A!InsertAlert(q[i], FALSE, clock)]

(* A step of the scheduler, of a ping, or of the API.                      *)
Joined(step) == step /\ Enqueue /\ UNCHANGED <<muted, alerterVars>>

(* The deletion takes the rows of the outbox along.                        *)
Delete(m) ==
    /\ DeleteMonitor(m)
    /\ muted' = [muted EXCEPT ![m] = FALSE]
    /\ A!DeleteMonitor(m)

(* MuteMonitor and UnmuteMonitor: the flag and its event.                  *)
Flag(m, value, type) ==
    /\ Issue /\ Stored(m) /\ Unlocked(m)
    /\ muted' = [muted EXCEPT ![m] = value]
    /\ log' = [log EXCEPT ![m] = RecordEvent(@, type)]
    /\ UNCHANGED <<clock, status, mon, checkins, lock, req, claim, outbox, alerterVars>>

MuteMonitor(m) == Flag(m, TRUE, "mute")
UnmuteMonitor(m) == Flag(m, FALSE, "unmute")

AlerterStep(w) == UNCHANGED <<vars, muted>> /\ A!WorkerStep(w)

AlerterFault(w) ==
    /\ UNCHANGED <<vars, muted>>
    /\ A!EnqueueFails(w) \/ A!ClaimFails(w) \/ A!MarkFails(w) \/ A!Crash(w)

PipelineNext ==
    \/ Joined(Tick)
    \/ \E m \in Monitors :
         \/ \E s \in Configs, a \in BOOLEAN : Joined(CreateMonitor(m, s, a))
         \/ Joined(PauseMonitor(m))
         \/ Delete(m) \/ MuteMonitor(m) \/ UnmuteMonitor(m)
    \/ \E r \in Requests, m \in Monitors :
         \/ Joined(ResumeRead(r, m))
         \/ \E k \in Kind : Joined(PingArrives(r, m, k))
    \/ \E r \in Requests : Joined(RequestStep(r))
    \/ \E s \in Schedulers :
         Joined(Claim(s)) \/ Joined(EvaluateDueMonitors(s)) \/ Joined(SchedulerAborts(s))
    \/ \E w \in Alerters : AlerterStep(w) \/ AlerterFault(w)

(* As in Heartbeat; the alerter keeps ticking too (worker.Run).            *)
PipelineSpec ==
    /\ PipelineInit /\ [][PipelineNext]_pipelineVars
    /\ WF_pipelineVars(Joined(Tick))
    /\ \A r \in Requests : WF_pipelineVars(Joined(RequestStep(r)))
    /\ \A s \in Schedulers : SF_pipelineVars(Joined(Claim(s)))
                             /\ SF_pipelineVars(Joined(EvaluateDueMonitors(s)))
    /\ \A w \in Alerters : WF_pipelineVars(AlerterStep(w))

----------------------------------------------------------------------------
(* Properties.                                                             *)

(* The monitor has outbox rows and each of them is settled: delivered,     *)
(* suppressed or failed for good.  A row that is not due before the clock  *)
(* reaches its bound counts as settled.                                    *)
Settled(m) ==
    LET rows == {a \in DOMAIN outbox : outbox[a].monitor = m} IN
    /\ rows # {}
    /\ \A a \in rows : outbox[a].status # "pending" \/ outbox[a].next >= MaxTime

(* From silence to a message: the outage of a watched monitor that falls   *)
(* silent is recorded, and all its alerts, those of earlier outages too,   *)
(* are delivered, suppressed or shown as failed, through failed ticks,     *)
(* refused sends, full batches, mutes and crashes of either worker.        *)
OutageIsReported ==
    \A m \in Monitors :
      Silent(m) ~> Stored(m) /\ mon[m].state = "down" /\ Settled(m)
==============================================================================
