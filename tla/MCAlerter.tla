------------------------------ MODULE MCAlerter ------------------------------
(* Instances of Alerter for TLC: minutes as the unit of time.              *)
EXTENDS Alerter, TLC

CONSTANTS m1, w1, w2

MCBackoff == [n \in 0 .. MaxAttempts |-> n + 1]
MCCadence == [m \in Monitors |-> 2]
MCNoReminders == [m \in Monitors |-> 0]
MCSymmetry == Permutations(Workers)
==============================================================================
