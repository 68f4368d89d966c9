------------------------------ MODULE MCRollup -------------------------------
(* Instances of Rollup for TLC: a day of two instants; a failed probe is   *)
(* the raw row.                                                            *)
EXTENDS Rollup, TLC

MCRowKinds == {<<"probe_results", TRUE>>}
MCSymmetry == Permutations(Monitors)
==============================================================================
