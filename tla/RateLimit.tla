------------------------------ MODULE RateLimit ------------------------------
(***************************************************************************)
(* Store.Allow (store/ratelimit.go): a fixed-window counter per key, made  *)
(* of two Redis commands.  The first INCR of a window creates the key and  *)
(* a separate EXPIRE ends the window; the requests that call it (Auth)     *)
(* interleave between the two.                                             *)
(***************************************************************************)
EXTENDS Integers

CONSTANTS
    Keys,       \* what is counted: a route and a client address, or an API key
    Limit       \* Limit[k]: requests allowed in a window

ASSUME LimitAssumption == Limit \in [Keys -> Nat \ {0}]

VARIABLES
    bucket,     \* Redis: the counter of each key (0: no such key) and whether it has a TTL
    lost        \* history: the EXPIRE of the key's window was never carried out

Bucket == [count: Nat, ttl: BOOLEAN]
Absent == [count |-> 0, ttl |-> FALSE]
Present(k) == bucket[k].count > 0

LimiterType == bucket \in [Keys -> Bucket] /\ lost \in [Keys -> BOOLEAN]
LimiterInit == bucket = [k \in Keys |-> Absent] /\ lost = [k \in Keys |-> FALSE]

(* The value INCR returns, and what Allow makes of it.                     *)
Count(k) == bucket[k].count + 1
Refused(k) == Count(k) > Limit[k]

(* Mutant: the window is ended by its last request instead of its first.   *)
OpensWindowAtLimit(k) == Count(k) = Limit[k]
OpensWindow(k) == Count(k) = 1

(* Mutant: the counter is written with SET, which drops the TTL.           *)
IncrBySet(k) == bucket' = [bucket EXCEPT ![k] = [count |-> Count(k), ttl |-> FALSE]]
Incr(k) == bucket' = [bucket EXCEPT ![k].count = Count(k)]

(* EXPIRE does nothing to a key that is not there.                         *)
Expire(k) == bucket' = [bucket EXCEPT ![k].ttl = Present(k)]

(* Redis drops a key whose TTL is over ...                                 *)
WindowElapses(k) ==
    /\ bucket[k].ttl
    /\ bucket' = [bucket EXCEPT ![k] = Absent]
    /\ lost' = [lost EXCEPT ![k] = FALSE]

(* ... and all of them when it restarts.                                   *)
RedisLoses ==
    /\ \E k \in Keys : Present(k)
    /\ bucket' = [k \in Keys |-> Absent]
    /\ lost' = [k \in Keys |-> FALSE]
==============================================================================
