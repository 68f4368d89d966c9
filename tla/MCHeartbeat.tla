----------------------------- MODULE MCHeartbeat -----------------------------
(* Instances of Heartbeat for TLC.                                         *)
EXTENDS Heartbeat, TLC

CONSTANTS r1, r2, s1, s2

MCConfigs == {[kind |-> "period", period |-> 1, cron |-> 0, grace |-> 1]}

Body(k, p, c, a) ==
    [kind |-> k, period |-> p, cron |-> c, grace |-> Null, autoResume |-> a]

MCPatches == {Body("", 2, 0, {}), Body("cron", Null, 2, {}),
              Body("", Null, 0, {FALSE}), Body("", Null, 0, {})}
MCNoPatches == {}

(* Requests and replicas are interchangeable.                              *)
MCSymmetry == Permutations({r1, r2}) \cup Permutations({s1, s2})
==============================================================================
