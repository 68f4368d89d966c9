------------------------------ MODULE MCProber -------------------------------
(* Instances of Prober for TLC.                                            *)
EXTENDS Prober, TLC
==============================================================================
