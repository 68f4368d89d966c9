-------------------------------- MODULE MCFeed --------------------------------
(* An instance of Feed for TLC.                                            *)
EXTENDS Feed, TLC
==============================================================================
