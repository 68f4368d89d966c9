-------------------------------- MODULE MCAuth --------------------------------
(* An instance of Auth for TLC: two logins, or one other request, a window. *)
EXTENDS Auth, TLC

MCLimit == [k \in Keys |-> IF k = "login" THEN 2 ELSE 1]
==============================================================================
