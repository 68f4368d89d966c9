----------------------------- MODULE MCPipeline ------------------------------
(* Instances of Pipeline for TLC.                                          *)
EXTENDS Pipeline

MCConfigs == {[kind |-> "period", period |-> 1, cron |-> 0, grace |-> 1]}
MCBackoff == [n \in 0 .. MaxAttempts |-> 1]
MCNoReminders == [m \in Monitors |-> 0]
==============================================================================
