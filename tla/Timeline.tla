------------------------------ MODULE Timeline -------------------------------
(***************************************************************************)
(* What a monitor promises its owner, without rows, locks, deadlines,      *)
(* streaks or probes: an outage begins and ends in one indivisible step,   *)
(* and the owner is notified exactly once of each end of it, in that       *)
(* order; only an outage the owner dismisses (a resume) ends in silence.   *)
(* Heartbeat and Prober implement it.                                      *)
(***************************************************************************)
EXTENDS Sequences

CONSTANTS Monitors

VARIABLES
    phase,      \* whether each monitor exists and has an outage
    notices     \* what its owner has been notified of (queued in the outbox)

vars == <<phase, notices>>

Init ==
    /\ phase \in [Monitors -> {"absent", "ok"}]
    /\ notices = [m \in Monitors |-> <<>>]

Becomes(m, p, n) == phase'[m] = p /\ notices'[m] = n

Create(m)   == phase[m] = "absent" /\ Becomes(m, "ok", notices[m])
GoesDown(m) == phase[m] = "ok" /\ Becomes(m, "out", Append(notices[m], "down"))
ComesUp(m)  == phase[m] = "out" /\ Becomes(m, "ok", Append(notices[m], "up"))
Dismiss(m)  == phase[m] = "out" /\ Becomes(m, "ok", notices[m])
Delete(m)   == phase[m] \in {"ok", "out"} /\ Becomes(m, "gone", <<>>)
Stays(m)    == Becomes(m, phase[m], notices[m])

(* A scheduler's tick can move several monitors in one transaction.        *)
Next ==
    /\ DOMAIN phase' = Monitors /\ DOMAIN notices' = Monitors
    /\ \A m \in Monitors :
         Create(m) \/ GoesDown(m) \/ ComesUp(m) \/ Dismiss(m) \/ Delete(m) \/ Stays(m)

Spec == Init /\ [][Next]_vars
==============================================================================
