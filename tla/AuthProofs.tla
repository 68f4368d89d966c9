------------------------------ MODULE AuthProofs ------------------------------
(***************************************************************************)
(* Proofs about Auth and RateLimit, for any number of concurrent requests, *)
(* addresses and API keys, any limits and any faults.                      *)
(***************************************************************************)
EXTENDS Auth, FiniteSetTheorems, TLAPS

----------------------------------------------------------------------------
(* The shapes of a request in flight.                                      *)

SignInJob == [pc: {"admit", "expire", "account"}, kind: {"register", "login"}, email: Emails]
TokenJob == [pc: {"read", "rotate", "find"}, token: Nat]
FamilyJob == [pc: {"revoke", "insert"}, family: Nat]
CallJob == [pc: {"lookup", "touch", "admit", "expire", "serve"}, kind: {"call"},
            key: APIKeys, late: BOOLEAN]
PingJob == [pc: {"admit", "expire", "record"}, kind: {"ping"}]

(* A job is of one of these shapes, and its pc tells which.                *)
LEMMA JobShape ==
    ASSUME NEW j \in Job
    PROVE  /\ j = Idle \/ j = [pc |-> "issue"] \/ j \in SignInJob \/ j \in TokenJob
                \/ j \in FamilyJob \/ j \in CallJob \/ j \in PingJob
           /\ j.pc \in {"admit", "expire"} => j \in SignInJob \/ j \in CallJob \/ j \in PingJob
           /\ j.pc = "account" => j \in SignInJob
           /\ j.pc \in {"read", "rotate", "find"} => j \in TokenJob
           /\ j.pc \in {"revoke", "insert"} => j \in FamilyJob
           /\ j.pc \in {"lookup", "touch", "serve"} => j \in CallJob
           /\ j.pc = "record" => j \in PingJob
BY DEF Job, Idle, SignInJob, TokenJob, FamilyJob, CallJob, PingJob

(* And a record of one of these shapes is a job.                           *)
LEMMA ShapesAreJobs ==
    /\ Idle \in Job /\ [pc |-> "issue"] \in Job
    /\ SignInJob \subseteq Job /\ TokenJob \subseteq Job
    /\ FamilyJob \subseteq Job /\ CallJob \subseteq Job /\ PingJob \subseteq Job
BY DEF Job, Idle, SignInJob, TokenJob, FamilyJob, CallJob, PingJob

(* An admitted request goes on as a job of the same shape.                 *)
LEMMA AdmittedType ==
    ASSUME NEW j \in Job, j.pc \in {"admit", "expire"}
    PROVE  /\ Admitted(j) \in Job /\ [j EXCEPT !.pc = "expire"] \in Job
           /\ Admitted(j).pc \in {"account", "serve", "record"}
           /\ [j EXCEPT !.pc = "expire"].pc = "expire"
           /\ Budget([j EXCEPT !.pc = "expire"]) = Budget(j)
           /\ Budget(j) \in Keys
<1>1. CASE j \in SignInJob
  <2>1. Admitted(j) \in SignInJob /\ Admitted(j).pc = "account"
    BY <1>1 DEF Admitted, SignInJob
  <2>2. [j EXCEPT !.pc = "expire"] \in SignInJob
    BY <1>1 DEF SignInJob
  <2>3. /\ [j EXCEPT !.pc = "expire"].pc = "expire"
        /\ Budget([j EXCEPT !.pc = "expire"]) = Budget(j)
    BY <1>1 DEF SignInJob, Budget
  <2>4. Budget(j) \in Keys
    BY <1>1, AuthAssumption DEF SignInJob, Counted, Budget
  <2> QED BY <2>1, <2>2, <2>3, <2>4, ShapesAreJobs
<1>2. CASE j \in CallJob
  <2>1. Admitted(j) \in CallJob /\ Admitted(j).pc = "serve"
    BY <1>2 DEF Admitted, CallJob
  <2>2. [j EXCEPT !.pc = "expire"] \in CallJob
    BY <1>2 DEF CallJob
  <2>3. /\ [j EXCEPT !.pc = "expire"].pc = "expire"
        /\ Budget([j EXCEPT !.pc = "expire"]) = Budget(j)
    BY <1>2 DEF CallJob, Budget
  <2>4. Budget(j) \in Keys
    BY <1>2, AuthAssumption DEF CallJob, Counted, Budget
  <2> QED BY <2>1, <2>2, <2>3, <2>4, ShapesAreJobs
<1>3. CASE j \in PingJob
  <2>1. Admitted(j) \in PingJob /\ Admitted(j).pc = "record"
    BY <1>3 DEF Admitted, PingJob
  <2>2. [j EXCEPT !.pc = "expire"] \in PingJob
    BY <1>3 DEF PingJob
  <2>3. /\ [j EXCEPT !.pc = "expire"].pc = "expire"
        /\ Budget([j EXCEPT !.pc = "expire"]) = Budget(j)
    BY <1>3 DEF PingJob, Budget
  <2>4. Budget(j) \in Keys
    BY <1>3, AuthAssumption DEF PingJob, Counted, Budget
  <2> QED BY <2>1, <2>2, <2>3, <2>4, ShapesAreJobs
<1> QED BY <1>1, <1>2, <1>3, JobShape

(* Goto replaces the job of one request.                                   *)
LEMMA GotoType ==
    ASSUME TypeOK, NEW r \in Requests, NEW j \in Job, Goto(r, j)
    PROVE  /\ req' \in [Requests -> Job]
           /\ req'[r] = j
           /\ \A s \in Requests \ {r} : req'[s] = req[s]
BY DEF TypeOK, Goto

----------------------------------------------------------------------------
(* Types.  A request names tokens and families that exist, which keeps the *)
(* rows it reads rows.                                                     *)

(* Tokens and families in use exist; a family is named by a token's id.    *)
Refs ==
    /\ \A t \in DOMAIN tokens : tokens[t].family \in DOMAIN tokens
    /\ \A r \in Requests :
         /\ req[r].pc \in {"read", "rotate", "find"} => req[r].token \in DOMAIN tokens
         /\ req[r].pc \in {"revoke", "insert"} =>
              \E t \in DOMAIN tokens : tokens[t].family = req[r].family
    /\ closed \subseteq DOMAIN tokens

TypeInv == TypeOK /\ Refs

(* The table of tokens only grows, and a token stays in its family.        *)
Grows ==
    /\ tokens' \in Seq(Token)
    /\ DOMAIN tokens \subseteq DOMAIN tokens'
    /\ \A t \in DOMAIN tokens : tokens'[t].family = tokens[t].family

(* A table that grows keeps what requests refer to, as long as a request   *)
(* that moves on refers to something that exists.                          *)
LEMMA RefsKept ==
    ASSUME TypeInv, Grows, NEW r \in Requests, NEW j \in Job, Goto(r, j),
           \A t \in DOMAIN tokens' : tokens'[t].family \in DOMAIN tokens',
           closed' \subseteq DOMAIN tokens',
           j.pc \in {"read", "rotate", "find"} => j.token \in DOMAIN tokens',
           j.pc \in {"revoke", "insert"} =>
             \E t \in DOMAIN tokens' : tokens'[t].family = j.family
    PROVE  Refs'
<1> SUFFICES ASSUME NEW s \in Requests
             PROVE  /\ req'[s].pc \in {"read", "rotate", "find"} =>
                         req'[s].token \in DOMAIN tokens'
                    /\ req'[s].pc \in {"revoke", "insert"} =>
                         \E t \in DOMAIN tokens' : tokens'[t].family = req'[s].family
  BY DEF Refs
<1>1. CASE s = r
  BY <1>1, GotoType DEF TypeInv
<1>2. CASE s # r
  <2>1. req'[s] = req[s]
    BY <1>2, GotoType DEF TypeInv
  <2> QED BY <2>1 DEF TypeInv, Refs, Grows
<1> QED BY <1>1, <1>2

(* The same for a request that ends or goes on to a job about no token.    *)
LEMMA RefsKeptPlain ==
    ASSUME TypeInv, NEW r \in Requests, NEW j \in Job, Goto(r, j),
           UNCHANGED <<tokens, closed>>,
           j.pc \notin {"read", "rotate", "find", "revoke", "insert"}
    PROVE  Refs'
<1>1. Grows
  BY DEF Grows, TypeInv, TypeOK
<1> QED BY <1>1, RefsKept DEF TypeInv, Refs

(* A row of the table.                                                     *)
LEMMA TokenRow ==
    ASSUME TypeInv, NEW t \in DOMAIN tokens
    PROVE  /\ tokens[t] \in Token /\ tokens[t].family \in Nat
           /\ DOMAIN tokens = 1 .. Len(tokens) /\ Len(tokens) \in Nat
<1>1. tokens \in Seq(Token)
  BY DEF TypeInv, TypeOK
<1>2. /\ DOMAIN tokens = 1 .. Len(tokens) /\ Len(tokens) \in Nat
      /\ tokens[t] \in Token
  BY <1>1
<1> QED BY <1>2 DEF Token

(* What one more token does to the table.                                  *)
LEMMA AppendToken ==
    ASSUME TypeInv, NEW f \in Nat, tokens' = Append(tokens, NewToken(f))
    PROVE  /\ Grows
           /\ DOMAIN tokens = 1 .. Len(tokens) /\ Len(tokens) \in Nat
           /\ DOMAIN tokens' = 1 .. Len(tokens) + 1
           /\ tokens'[Len(tokens) + 1] = NewToken(f)
           /\ \A t \in DOMAIN tokens : tokens'[t] = tokens[t]
           /\ \A t \in DOMAIN tokens' : t \in DOMAIN tokens \/ t = Len(tokens) + 1
           /\ NewToken(f).family = f /\ ~NewToken(f).rotated /\ ~NewToken(f).revoked
<1>1. tokens \in Seq(Token) /\ NewToken(f) \in Token
  BY DEF TypeInv, TypeOK, NewToken, Token
<1>2. /\ tokens' \in Seq(Token) /\ Len(tokens') = Len(tokens) + 1
      /\ tokens'[Len(tokens) + 1] = NewToken(f)
      /\ \A t \in 1 .. Len(tokens) : tokens'[t] = tokens[t]
      /\ Len(tokens) \in Nat /\ DOMAIN tokens = 1 .. Len(tokens)
      /\ DOMAIN tokens' = 1 .. Len(tokens')
  BY <1>1
<1>3. NewToken(f).family = f /\ ~NewToken(f).rotated /\ ~NewToken(f).revoked
  BY DEF NewToken
<1> QED BY <1>2, <1>3 DEF Grows

(* An UPDATE of rows keeps their number.                                   *)
LEMMA UpdateTokens ==
    ASSUME TypeInv, NEW T \in [DOMAIN tokens -> Token], tokens' = T,
           \A t \in DOMAIN tokens : T[t].family = tokens[t].family
    PROVE  /\ Grows /\ DOMAIN tokens' = DOMAIN tokens
<1>1. DOMAIN tokens = 1 .. Len(tokens) /\ Len(tokens) \in Nat
  BY DEF TypeInv, TypeOK
<1>2. tokens' \in Seq(Token)
  BY <1>1
<1> QED BY <1>2 DEF Grows

(* The columns beside the requests and the tokens keep their types.        *)
OthersType ==
    /\ LimiterType /\ users \subseteq Emails
    /\ apiKey \in [APIKeys -> {"none", "live", "revoked"}]
    /\ ops \in Nat /\ faults \in Nat

(* A step of one request that leaves tokens alone and goes on to a job     *)
(* about no token keeps the types.                                         *)
LEMMA PlainStep ==
    ASSUME TypeInv, NEW r \in Requests, NEW j \in Job, Goto(r, j), OthersType',
           UNCHANGED <<tokens, closed>>,
           j.pc \notin {"read", "rotate", "find", "revoke", "insert"}
    PROVE  TypeInv'
<1>1. Refs'
  BY RefsKeptPlain
<1>2. req' \in [Requests -> Job]
  BY GotoType DEF TypeInv
<1> QED BY <1>1, <1>2 DEF TypeInv, TypeOK, OthersType

(* So does one that only moves the request.                                *)
LEMMA QuietStep ==
    ASSUME TypeInv, NEW r \in Requests, NEW j \in Job, Goto(r, j),
           UNCHANGED <<bucket, lost, users, apiKey, ops, faults, tokens, closed>>,
           j.pc \notin {"read", "rotate", "find", "revoke", "insert"}
    PROVE  TypeInv'
<1>1. OthersType'
  BY DEF OthersType, TypeInv, TypeOK, LimiterType
<1> QED BY <1>1, PlainStep

(* And one that touches no request and no token.                           *)
LEMMA OthersStep ==
    ASSUME TypeInv, OthersType', UNCHANGED <<req, tokens, closed>>
    PROVE  TypeInv'
<1>1. Refs'
  BY DEF TypeInv, Refs
<1> QED BY <1>1 DEF TypeInv, TypeOK, OthersType

(* The redis commands keep the type of the limiter.                        *)
LEMMA LimiterTypes ==
    ASSUME LimiterType, NEW k \in Keys
    PROVE  /\ Incr(k) /\ lost' = lost => LimiterType'
           /\ Expire(k) /\ lost' = lost => LimiterType'
           /\ WindowElapses(k) => LimiterType'
           /\ RedisLoses => LimiterType'
<1>1. bucket[k] \in Bucket /\ Count(k) \in Nat /\ Present(k) \in BOOLEAN
  BY DEF LimiterType, Bucket, Count, Present
<1>2. ASSUME Incr(k), lost' = lost PROVE LimiterType'
  BY <1>1, <1>2 DEF LimiterType, Incr, Bucket
<1>3. ASSUME Expire(k), lost' = lost PROVE LimiterType'
  <2> DEFINE p == Present(k)
  <2>1. p \in BOOLEAN /\ bucket' = [bucket EXCEPT ![k].ttl = p]
    BY <1>1, <1>3 DEF Expire
  <2> HIDE DEF p
  <2> QED BY <1>3, <2>1 DEF LimiterType, Bucket
<1>4. ASSUME WindowElapses(k) PROVE LimiterType'
  BY <1>4 DEF LimiterType, WindowElapses, Absent, Bucket
<1>5. ASSUME RedisLoses PROVE LimiterType'
  BY <1>5 DEF LimiterType, RedisLoses, Absent, Bucket
<1> QED BY <1>2, <1>3, <1>4, <1>5

(* Every step keeps the types and what requests refer to.                  *)
LEMMA TypeStep == TypeInv /\ [Next]_vars => TypeInv'
<1> SUFFICES ASSUME TypeInv, [Next]_vars
             PROVE  TypeInv'
  OBVIOUS
<1>0. OthersType /\ LimiterType /\ req \in [Requests -> Job] /\ Idle \in Job
  BY ShapesAreJobs DEF TypeInv, TypeOK, OthersType
<1>idle. Idle.pc = "idle"
  BY DEF Idle
<1>1. ASSUME NEW r \in Requests, NEW kind \in {"register", "login"}, NEW e \in Emails,
             SignIn(r, kind, e)
      PROVE  TypeInv'
  <2> DEFINE j == [pc |-> "admit", kind |-> kind, email |-> e]
  <2>1. j \in Job /\ j.pc = "admit"
    BY ShapesAreJobs DEF SignInJob
  <2>2. Goto(r, j) /\ OthersType' /\ UNCHANGED <<tokens, closed>>
    BY <1>0, <1>1 DEF SignIn, Arrives, OthersType, LimiterType
  <2> HIDE DEF j
  <2> QED BY <2>1, <2>2, PlainStep
<1>2. ASSUME NEW r \in Requests, NEW t \in DOMAIN tokens, Refresh(r, t)
      PROVE  TypeInv'
  <2> DEFINE j == [pc |-> "read", token |-> t]
  <2>0. t \in Nat
    BY TokenRow
  <2>1. j \in Job /\ j.pc = "read" /\ j.token = t
    BY <2>0, ShapesAreJobs DEF TokenJob
  <2>2. Goto(r, j) /\ OthersType' /\ UNCHANGED <<tokens, closed>>
    BY <1>0, <1>2 DEF Refresh, Arrives, OthersType, LimiterType
  <2>3. Grows
    BY <2>2 DEF Grows, TypeInv, TypeOK
  <2> HIDE DEF j
  <2>4. Refs'
    BY <2>1, <2>2, <2>3, RefsKept DEF TypeInv, Refs
  <2> QED BY <2>1, <2>2, <2>4, GotoType DEF TypeInv, TypeOK, OthersType
<1>3. ASSUME NEW r \in Requests, NEW t \in DOMAIN tokens, Logout(r, t)
      PROVE  TypeInv'
  <2> DEFINE j == [pc |-> "find", token |-> t]
  <2>0. t \in Nat
    BY TokenRow
  <2>1. j \in Job /\ j.pc = "find" /\ j.token = t
    BY <2>0, ShapesAreJobs DEF TokenJob
  <2>2. Goto(r, j) /\ OthersType' /\ UNCHANGED <<tokens, closed>>
    BY <1>0, <1>3 DEF Logout, Arrives, OthersType, LimiterType
  <2>3. Grows
    BY <2>2 DEF Grows, TypeInv, TypeOK
  <2> HIDE DEF j
  <2>4. Refs'
    BY <2>1, <2>2, <2>3, RefsKept DEF TypeInv, Refs
  <2> QED BY <2>1, <2>2, <2>4, GotoType DEF TypeInv, TypeOK, OthersType
<1>4. ASSUME NEW r \in Requests, NEW k \in APIKeys, CreateAPIKey(r, k) \/ RevokeAPIKey(r, k)
      PROVE  TypeInv'
  <2>1. OthersType' /\ UNCHANGED <<req, tokens, closed>>
    BY <1>0, <1>4 DEF CreateAPIKey, RevokeAPIKey, Arrives, OthersType, LimiterType
  <2> QED BY <2>1, OthersStep
<1>5. ASSUME NEW r \in Requests, NEW k \in APIKeys, APICall(r, k)
      PROVE  TypeInv'
  <2> DEFINE late == apiKey[k] = "revoked"
             j == [pc |-> "lookup", kind |-> "call", key |-> k, late |-> late]
  <2>1. late \in BOOLEAN
    OBVIOUS
  <2>2. Goto(r, j) /\ OthersType' /\ UNCHANGED <<tokens, closed>>
    BY <1>0, <1>5 DEF APICall, Arrives, OthersType, LimiterType
  <2> HIDE DEF late
  <2>3. j \in CallJob /\ j.pc = "lookup"
    BY <2>1 DEF CallJob
  <2> HIDE DEF j
  <2> QED BY <2>2, <2>3, ShapesAreJobs, PlainStep
<1>6. ASSUME NEW r \in Requests, AllowIncr(r)
      PROVE  TypeInv'
  <2>1. req[r] \in Job /\ req[r].pc \in {"admit", "expire"}
    BY <1>0, <1>6 DEF AllowIncr
  <2>2. PICK j \in Job : Goto(r, j) /\ j.pc \in {"idle", "expire", "account", "serve", "record"}
    <3> DEFINE k == Budget(req[r])
    <3>1. CASE OpensWindow(k)
      BY <1>6, <2>1, <3>1, AdmittedType DEF AllowIncr
    <3>2. CASE ~OpensWindow(k) /\ Refused(k)
      BY <1>0, <1>idle, <1>6, <3>2 DEF AllowIncr
    <3>3. CASE ~OpensWindow(k) /\ ~Refused(k)
      BY <1>6, <2>1, <3>3, AdmittedType DEF AllowIncr
    <3> QED BY <3>1, <3>2, <3>3
  <2>3. OthersType'
    BY <1>0, <1>6, <2>1, AdmittedType, LimiterTypes DEF AllowIncr, OthersType
  <2> QED BY <1>6, <2>2, <2>3, PlainStep DEF AllowIncr
<1>7. ASSUME NEW r \in Requests, AllowExpire(r)
      PROVE  TypeInv'
  <2>1. req[r] \in Job /\ req[r].pc \in {"admit", "expire"}
    BY <1>0, <1>7 DEF AllowExpire
  <2>2. OthersType'
    BY <1>0, <1>7, <2>1, AdmittedType, LimiterTypes DEF AllowExpire, OthersType
  <2> QED BY <1>7, <2>1, <2>2, AdmittedType, PlainStep DEF AllowExpire
<1>8. ASSUME NEW r \in Requests, AllowFails(r)
      PROVE  TypeInv'
  <2>1. req[r] \in Job /\ req[r].pc \in {"admit", "expire"} /\ Budget(req[r]) \in Keys
    BY <1>0, <1>8, AdmittedType DEF AllowFails
  <2> DEFINE k == Budget(req[r])
             x == lost[k] \/ req[r].pc = "expire"
  <2>2. x \in BOOLEAN /\ lost' = [lost EXCEPT ![k] = x]
    BY <1>8, <2>1, <1>0 DEF AllowFails, LimiterType
  <2> HIDE DEF x
  <2>3. LimiterType'
    BY <1>0, <1>8, <2>1, <2>2 DEF AllowFails, LimiterType
  <2>4. OthersType'
    BY <1>0, <1>8, <2>3 DEF AllowFails, OthersType, Fault
  <2> QED BY <1>8, <2>1, <2>4, AdmittedType, PlainStep DEF AllowFails
<1>9. ASSUME NEW r \in Requests, RequestDies(r)
      PROVE  TypeInv'
  <2>1. LimiterType'
    <3>1. CASE req[r].pc = "expire"
      <4>1. Budget(req[r]) \in Keys
        BY <1>0, <3>1, AdmittedType
      <4> QED BY <1>0, <1>9, <3>1, <4>1 DEF RequestDies, LimiterType
    <3>2. CASE req[r].pc # "expire"
      BY <1>0, <1>9, <3>2 DEF RequestDies, LimiterType
    <3> QED BY <3>1, <3>2
  <2>2. OthersType'
    BY <1>0, <1>9, <2>1 DEF RequestDies, OthersType, Fault
  <2>3. Goto(r, Idle) /\ UNCHANGED <<tokens, closed>>
    BY <1>9 DEF RequestDies, Finish
  <2> QED BY <1>0, <1>idle, <2>2, <2>3, PlainStep
<1>10. ASSUME NEW r \in Requests, Register(r)
       PROVE  TypeInv'
  <2>1. req[r] \in SignInJob
    BY <1>0, <1>10, JobShape DEF Register
  <2>2. OthersType'
    BY <1>0, <1>10, <2>1 DEF Register, OthersType, LimiterType, SignInJob
  <2>3. Goto(r, [pc |-> "issue"]) \/ Goto(r, Idle)
    BY <1>10 DEF Register, Finish
  <2>4. UNCHANGED <<tokens, closed>>
    BY <1>10 DEF Register
  <2>5. [pc |-> "issue"] \in Job
    BY ShapesAreJobs
  <2>6. CASE Goto(r, [pc |-> "issue"])
    BY <2>2, <2>4, <2>5, <2>6, PlainStep
  <2>7. CASE Goto(r, Idle)
    BY <1>0, <1>idle, <2>2, <2>4, <2>7, PlainStep
  <2> QED BY <2>3, <2>6, <2>7
<1>11. ASSUME NEW r \in Requests, Authenticate(r)
       PROVE  TypeInv'
  <2>1. Goto(r, [pc |-> "issue"]) \/ Goto(r, Idle)
    BY <1>11 DEF Authenticate, Finish
  <2>2. UNCHANGED <<bucket, lost, users, apiKey, ops, faults, tokens, closed>>
    BY <1>11 DEF Authenticate
  <2>3. [pc |-> "issue"] \in Job
    BY ShapesAreJobs
  <2>4. CASE Goto(r, [pc |-> "issue"])
    BY <2>2, <2>3, <2>4, QuietStep
  <2>5. CASE Goto(r, Idle)
    BY <1>0, <1>idle, <2>2, <2>5, QuietStep
  <2> QED BY <2>1, <2>4, <2>5
<1>12. ASSUME NEW r \in Requests, IssueRefreshToken(r)
       PROVE  TypeInv'
  <2> DEFINE f == Len(tokens) + 1
  <2>1. f \in Nat
    BY DEF TypeInv, TypeOK
  <2>2. tokens' = Append(tokens, NewToken(f)) /\ Goto(r, Idle) /\ closed' = closed
    BY <1>12 DEF IssueRefreshToken, Finish
  <2>3. OthersType'
    BY <1>0, <1>12 DEF IssueRefreshToken, OthersType, LimiterType
  <2>4. Refs'
    <3>1. \A t \in DOMAIN tokens' : tokens'[t].family \in DOMAIN tokens'
      <4> TAKE t \in DOMAIN tokens'
      <4>1. CASE t \in DOMAIN tokens
        BY <2>1, <2>2, <4>1, AppendToken DEF TypeInv, Refs, Grows
      <4>2. CASE t = f
        BY <2>1, <2>2, <4>2, AppendToken
      <4> QED BY <2>1, <2>2, <4>1, <4>2, AppendToken
    <3>2. Grows /\ closed' \subseteq DOMAIN tokens'
      BY <2>1, <2>2, AppendToken DEF TypeInv, Refs, Grows
    <3> QED BY <1>0, <1>idle, <2>2, <3>1, <3>2, RefsKept
  <2>5. tokens' \in Seq(Token)
    BY <2>1, <2>2, AppendToken DEF Grows
  <2> QED BY <1>0, <2>2, <2>3, <2>4, <2>5, GotoType DEF TypeInv, TypeOK, OthersType
<1>13. ASSUME NEW r \in Requests, ReadToken(r)
       PROVE  TypeInv'
  <2> DEFINE t == req[r].token
             f == tokens[t].family
             j1 == [pc |-> "revoke", family |-> f]
             j2 == [pc |-> "rotate", token |-> t]
  <2>1. t \in DOMAIN tokens /\ t \in Nat /\ f \in Nat
    BY <1>0, <1>13, TokenRow DEF ReadToken, TypeInv, Refs
  <2>2. UNCHANGED <<bucket, lost, users, apiKey, ops, faults, tokens, closed>>
    BY <1>13 DEF ReadToken
  <2>3. Goto(r, Idle) \/ Goto(r, j1) \/ Goto(r, j2)
    BY <1>13 DEF ReadToken
  <2>4. /\ j1 \in Job /\ j1.pc = "revoke" /\ j1.family = f
        /\ j2 \in Job /\ j2.pc = "rotate" /\ j2.token = t
    BY <2>1, ShapesAreJobs DEF TokenJob, FamilyJob
  <2>5. Grows
    BY <2>2 DEF Grows, TypeInv, TypeOK
  <2>6. CASE Goto(r, Idle)
    BY <1>0, <1>idle, <2>2, <2>6, QuietStep
  <2> HIDE DEF j1, j2
  <2>7. CASE Goto(r, j1)
    <3>1. Refs'
      BY <2>1, <2>2, <2>4, <2>5, <2>7, RefsKept DEF TypeInv, Refs
    <3> QED BY <2>2, <2>4, <2>7, <3>1, GotoType DEF TypeInv, TypeOK, LimiterType
  <2>8. CASE Goto(r, j2)
    <3>1. Refs'
      BY <2>1, <2>2, <2>4, <2>5, <2>8, RefsKept DEF TypeInv, Refs
    <3> QED BY <2>2, <2>4, <2>8, <3>1, GotoType DEF TypeInv, TypeOK, LimiterType
  <2> QED BY <2>3, <2>6, <2>7, <2>8
<1>14. ASSUME NEW r \in Requests, FindFamily(r)
       PROVE  TypeInv'
  <2> DEFINE t == req[r].token
             f == tokens[t].family
             j == [pc |-> "revoke", family |-> f]
  <2>1. t \in DOMAIN tokens /\ f \in Nat
    BY <1>0, <1>14, TokenRow DEF FindFamily, TypeInv, Refs
  <2>2. UNCHANGED <<bucket, lost, users, apiKey, ops, faults, tokens, closed>> /\ Goto(r, j)
    BY <1>14 DEF FindFamily
  <2>3. j \in Job /\ j.pc = "revoke" /\ j.family = f
    BY <2>1, ShapesAreJobs DEF FamilyJob
  <2>4. Grows
    BY <2>2 DEF Grows, TypeInv, TypeOK
  <2> HIDE DEF j
  <2>5. Refs'
    BY <2>1, <2>2, <2>3, <2>4, RefsKept DEF TypeInv, Refs
  <2> QED BY <2>2, <2>3, <2>5, GotoType DEF TypeInv, TypeOK, LimiterType
<1>15. ASSUME NEW r \in Requests, RotateIfUnrotated(r)
       PROVE  TypeInv'
  <2> DEFINE t == req[r].token
             f == tokens[t].family
             j1 == [pc |-> "insert", family |-> f]
             j2 == [pc |-> "revoke", family |-> f]
             T == [tokens EXCEPT ![t].rotated = TRUE]
  <2>1. t \in DOMAIN tokens /\ f \in Nat
    BY <1>0, <1>15, TokenRow DEF RotateIfUnrotated, TypeInv, Refs
  <2>2. UNCHANGED <<bucket, lost, users, apiKey, ops, faults, closed>>
    BY <1>15 DEF RotateIfUnrotated
  <2>3. (tokens' = T /\ Goto(r, j1)) \/ (tokens' = tokens /\ Goto(r, j2))
    BY <1>15 DEF RotateIfUnrotated
  <2>4. /\ j1 \in Job /\ j1.pc = "insert" /\ j1.family = f
        /\ j2 \in Job /\ j2.pc = "revoke" /\ j2.family = f
    BY <2>1, ShapesAreJobs DEF FamilyJob
  <2>5. tokens' = tokens \/ tokens' = T
    BY <2>3
  <2>6. Grows /\ DOMAIN tokens' = DOMAIN tokens
    <3>1. tokens \in [DOMAIN tokens -> Token]
      BY TokenRow DEF TypeInv, TypeOK
    <3>2. T \in [DOMAIN tokens -> Token] /\ \A u \in DOMAIN tokens : T[u].family = tokens[u].family
      BY <2>1, <3>1 DEF Token
    <3> HIDE DEF T
    <3> QED BY <2>5, <3>1, <3>2, UpdateTokens
  <2>7. /\ \A u \in DOMAIN tokens' : tokens'[u].family \in DOMAIN tokens'
        /\ closed' \subseteq DOMAIN tokens'
        /\ \E u \in DOMAIN tokens' : tokens'[u].family = f
    BY <2>1, <2>2, <2>6 DEF TypeInv, Refs, Grows
  <2> HIDE DEF j1, j2, T, f
  <2>8. CASE Goto(r, j1)
    <3>1. Refs'
      BY <2>4, <2>6, <2>7, <2>8, RefsKept
    <3> QED BY <2>2, <2>4, <2>6, <2>8, <3>1, GotoType DEF TypeInv, TypeOK, LimiterType, Grows
  <2>9. CASE Goto(r, j2)
    <3>1. Refs'
      BY <2>4, <2>6, <2>7, <2>9, RefsKept
    <3> QED BY <2>2, <2>4, <2>6, <2>9, <3>1, GotoType DEF TypeInv, TypeOK, LimiterType, Grows
  <2> QED BY <2>3, <2>8, <2>9
<1>16. ASSUME NEW r \in Requests, IssueInFamily(r)
       PROVE  TypeInv'
  <2> DEFINE f == req[r].family
  <2>1. f \in Nat /\ \E t \in DOMAIN tokens : tokens[t].family = f
    BY <1>0, <1>16, JobShape DEF IssueInFamily, FamilyJob, TypeInv, Refs
  <2>2. tokens' = Append(tokens, NewToken(f)) /\ Goto(r, Idle) /\ closed' = closed
    BY <1>16 DEF IssueInFamily, Finish
  <2>3. OthersType'
    BY <1>0, <1>16 DEF IssueInFamily, OthersType, LimiterType
  <2>4. f \in DOMAIN tokens
    BY <2>1 DEF TypeInv, Refs
  <2>5. Refs'
    <3>1. \A t \in DOMAIN tokens' : tokens'[t].family \in DOMAIN tokens'
      <4> TAKE t \in DOMAIN tokens'
      <4>1. CASE t \in DOMAIN tokens
        BY <2>1, <2>2, <4>1, AppendToken DEF TypeInv, Refs, Grows
      <4>2. CASE t = Len(tokens) + 1
        BY <2>1, <2>2, <2>4, <4>2, AppendToken DEF Grows
      <4> QED BY <2>1, <2>2, <4>1, <4>2, AppendToken
    <3>2. Grows /\ closed' \subseteq DOMAIN tokens'
      BY <2>1, <2>2, AppendToken DEF TypeInv, Refs, Grows
    <3> QED BY <1>0, <1>idle, <2>2, <3>1, <3>2, RefsKept
  <2>6. tokens' \in Seq(Token)
    BY <2>1, <2>2, AppendToken DEF Grows
  <2> QED BY <1>0, <2>2, <2>3, <2>5, <2>6, GotoType DEF TypeInv, TypeOK, OthersType
<1>17. ASSUME NEW r \in Requests, RevokeFamily(r)
       PROVE  TypeInv'
  <2> DEFINE f == req[r].family
             T == [t \in DOMAIN tokens |->
                    IF t \in Family(f) THEN [tokens[t] EXCEPT !.revoked = TRUE] ELSE tokens[t]]
  <2>1. f \in DOMAIN tokens /\ f \in Nat
    BY <1>0, <1>17, JobShape DEF RevokeFamily, FamilyJob, TypeInv, Refs
  <2>2. tokens' = T /\ Goto(r, Idle) /\ closed' \subseteq closed \cup {f}
    BY <1>17 DEF RevokeFamily, Finish
  <2>3. OthersType'
    BY <1>0, <1>17 DEF RevokeFamily, OthersType, LimiterType
  <2>4. \A t \in DOMAIN tokens : tokens[t] \in Token
    BY TokenRow
  <2>5. T \in [DOMAIN tokens -> Token] /\ \A t \in DOMAIN tokens : T[t].family = tokens[t].family
    BY <2>4 DEF Token
  <2> HIDE DEF T
  <2>6. Grows /\ DOMAIN tokens' = DOMAIN tokens
    BY <2>2, <2>5, UpdateTokens
  <2>7. Refs'
    BY <1>0, <1>idle, <2>1, <2>2, <2>6, RefsKept DEF TypeInv, Refs, Grows
  <2>8. closed' \subseteq Nat
    BY <2>1, <2>2 DEF TypeInv, TypeOK
  <2> QED BY <1>0, <2>2, <2>3, <2>6, <2>7, <2>8, GotoType DEF TypeInv, TypeOK, OthersType, Grows
<1>18. ASSUME NEW r \in Requests, GetAPIKeyByHash(r) \/ TouchAPIKey(r) \/ Serve(r)
       PROVE  TypeInv'
  <2>1. req[r] \in CallJob
    BY <1>0, <1>18, JobShape DEF GetAPIKeyByHash, TouchAPIKey, Serve
  <2>2. /\ [req[r] EXCEPT !.pc = "touch"] \in CallJob /\ [req[r] EXCEPT !.pc = "admit"] \in CallJob
        /\ [req[r] EXCEPT !.pc = "touch"].pc = "touch" /\ [req[r] EXCEPT !.pc = "admit"].pc = "admit"
    BY <2>1 DEF CallJob
  <2>3. UNCHANGED <<bucket, lost, users, apiKey, ops, faults, tokens, closed>>
    BY <1>18 DEF GetAPIKeyByHash, TouchAPIKey, Serve
  <2>4. \/ Goto(r, Idle) \/ Goto(r, [req[r] EXCEPT !.pc = "touch"])
        \/ Goto(r, [req[r] EXCEPT !.pc = "admit"])
    BY <1>18 DEF GetAPIKeyByHash, TouchAPIKey, Serve, Finish
  <2>5. PICK j \in Job : Goto(r, j) /\ j.pc \in {"idle", "touch", "admit"}
    BY <1>0, <1>idle, <2>2, <2>4, ShapesAreJobs
  <2> QED BY <2>3, <2>5, QuietStep
<1>19. ASSUME NEW t \in DOMAIN tokens, TokenExpires(t)
       PROVE  TypeInv'
  <2> DEFINE T == [tokens EXCEPT ![t].expired = TRUE]
  <2>1. tokens \in [DOMAIN tokens -> Token]
    BY TokenRow DEF TypeInv, TypeOK
  <2>2. T \in [DOMAIN tokens -> Token] /\ \A u \in DOMAIN tokens : T[u].family = tokens[u].family
    BY <2>1 DEF Token
  <2>3. tokens' = T /\ UNCHANGED <<bucket, lost, users, apiKey, req, closed, ops, faults>>
    BY <1>19 DEF TokenExpires
  <2> HIDE DEF T
  <2>4. Grows /\ DOMAIN tokens' = DOMAIN tokens
    BY <2>2, <2>3, UpdateTokens
  <2>5. Refs'
    BY <2>3, <2>4 DEF TypeInv, Refs, Grows
  <2> QED BY <2>3, <2>4, <2>5 DEF TypeInv, TypeOK, LimiterType, Grows
<1>20. ASSUME NEW k \in Keys, WindowEnds(k)
       PROVE  TypeInv'
  <2>1. OthersType' /\ UNCHANGED <<req, tokens, closed>>
    BY <1>0, <1>20, LimiterTypes DEF WindowEnds, OthersType
  <2> QED BY <2>1, OthersStep
<1>21. ASSUME RedisRestarts
       PROVE  TypeInv'
  <2>1. CASE Keys = {}
    BY <1>21, <2>1 DEF RedisRestarts, RedisLoses
  <2>2. CASE Keys # {}
    <3>1. LimiterType'
      BY <1>0, <1>21, <2>2, LimiterTypes DEF RedisRestarts
    <3>2. OthersType' /\ UNCHANGED <<req, tokens, closed>>
      BY <1>0, <1>21, <3>1 DEF RedisRestarts, OthersType, Fault
    <3> QED BY <3>2, OthersStep
  <2> QED BY <2>1, <2>2
<1>22. ASSUME NEW r \in Requests, Ping(r) \/ RecordCheckin(r)
       PROVE  TypeInv'
  <2> DEFINE j == [pc |-> "admit", kind |-> "ping"]
  <2>1. j \in PingJob /\ j.pc = "admit"
    BY DEF PingJob
  <2>2. /\ Goto(r, j) \/ Goto(r, Idle)
        /\ OthersType' /\ UNCHANGED <<tokens, closed>>
    BY <1>0, <1>22 DEF Ping, Arrives, RecordCheckin, Finish, OthersType, LimiterType
  <2> HIDE DEF j
  <2> QED BY <1>0, <1>idle, <2>1, <2>2, ShapesAreJobs, PlainStep
<1>23. CASE UNCHANGED vars
  BY <1>23 DEF vars, TypeInv, TypeOK, LimiterType, Refs
<1> QED
  BY <1>1, <1>2, <1>3, <1>4, <1>5, <1>6, <1>7, <1>8, <1>9, <1>10, <1>11, <1>12, <1>13,
     <1>14, <1>15, <1>16, <1>17, <1>18, <1>19, <1>20, <1>21, <1>22, <1>23
     DEF Next, RequestStep

(* The invariant of types and references, from which the theorems start.   *)
LEMMA TypeInvariant == Spec => []TypeInv
<1>1. Init => TypeInv
  BY ShapesAreJobs DEF Init, TypeInv, TypeOK, Refs, LimiterType, LimiterInit, Absent, Bucket,
     Idle
<1> QED BY <1>1, TypeStep, PTL DEF Spec

(* Every variable keeps its type, whatever requests interleave and         *)
(* wherever one of them dies.                                              *)
THEOREM TypeCorrect == Spec => []TypeOK
<1>1. TypeInv => TypeOK
  BY DEF TypeInv
<1> QED BY <1>1, TypeInvariant, PTL

----------------------------------------------------------------------------
(* Sessions.  Of all steps, four write to the sessions: the first token of *)
(* a family, the UPDATE and the INSERT of a rotation, and a revocation.    *)

(* The token can still be rotated.                                         *)
Usable(t) == ~tokens[t].rotated /\ ~tokens[t].revoked

(* The request has rotated a token of the family and owes its successor.   *)
Inserting(r, f) == req[r].pc = "insert" /\ req[r].family = f

(* A step that leaves the sessions alone; a fault may lose a successor.    *)
Steady ==
    /\ closed' = closed
    /\ DOMAIN tokens' = DOMAIN tokens
    /\ \A t \in DOMAIN tokens :
         /\ tokens'[t].family = tokens[t].family
         /\ tokens'[t].rotated = tokens[t].rotated
         /\ tokens'[t].revoked = tokens[t].revoked
    /\ \A s \in Requests : req'[s].pc = "insert" => req'[s] = req[s]
    /\ \/ faults' = faults + 1
       \/ /\ faults' = faults
          /\ \A s \in Requests : req[s].pc = "insert" => req'[s] = req[s]

(* A request that moves between other statements is steady.                *)
LEMMA SteadyMove ==
    ASSUME TypeInv, NEW r \in Requests, NEW j \in Job, Goto(r, j), j.pc # "insert",
           UNCHANGED <<tokens, closed>>,
           \/ faults' = faults + 1
           \/ faults' = faults /\ req[r].pc # "insert"
    PROVE  Steady
BY GotoType DEF Steady, TypeInv

(* Every other step is steady.                                             *)
LEMMA SessionSteps ==
    ASSUME TypeInv, [Next]_vars
    PROVE  \/ Steady
           \/ \E r \in Requests : \/ IssueRefreshToken(r) \/ RotateIfUnrotated(r)
                                  \/ IssueInFamily(r) \/ RevokeFamily(r)
<1>0. req \in [Requests -> Job] /\ Idle \in Job /\ Idle.pc = "idle"
  BY ShapesAreJobs DEF TypeInv, TypeOK, Idle
<1>1. ASSUME NEW r \in Requests, NEW kind \in {"register", "login"}, NEW e \in Emails,
             SignIn(r, kind, e)
      PROVE  Steady
  <2> DEFINE j == [pc |-> "admit", kind |-> kind, email |-> e]
  <2>1. j \in Job /\ j.pc = "admit"
    BY ShapesAreJobs DEF SignInJob
  <2>2. Goto(r, j) /\ req[r] = Idle /\ UNCHANGED <<tokens, closed, faults>>
    BY <1>1 DEF SignIn, Arrives
  <2> HIDE DEF j
  <2> QED BY <1>0, <2>1, <2>2, SteadyMove
<1>2. ASSUME NEW r \in Requests, NEW t \in DOMAIN tokens, Refresh(r, t) \/ Logout(r, t)
      PROVE  Steady
  <2> DEFINE j1 == [pc |-> "read", token |-> t]
             j2 == [pc |-> "find", token |-> t]
  <2>0. t \in Nat
    BY TokenRow
  <2>1. j1 \in Job /\ j1.pc = "read" /\ j2 \in Job /\ j2.pc = "find"
    BY <2>0, ShapesAreJobs DEF TokenJob
  <2>2. (Goto(r, j1) \/ Goto(r, j2)) /\ req[r] = Idle /\ UNCHANGED <<tokens, closed, faults>>
    BY <1>2 DEF Refresh, Logout, Arrives
  <2> HIDE DEF j1, j2
  <2> QED BY <1>0, <2>1, <2>2, SteadyMove
<1>3. ASSUME NEW r \in Requests, NEW k \in APIKeys, CreateAPIKey(r, k) \/ RevokeAPIKey(r, k)
      PROVE  Steady
  BY <1>3 DEF CreateAPIKey, RevokeAPIKey, Steady
<1>4. ASSUME NEW r \in Requests, NEW k \in APIKeys, APICall(r, k)
      PROVE  Steady
  <2> DEFINE late == apiKey[k] = "revoked"
             j == [pc |-> "lookup", kind |-> "call", key |-> k, late |-> late]
  <2>1. late \in BOOLEAN
    OBVIOUS
  <2>2. Goto(r, j) /\ req[r] = Idle /\ UNCHANGED <<tokens, closed, faults>>
    BY <1>4 DEF APICall, Arrives
  <2> HIDE DEF late
  <2>3. j \in CallJob /\ j.pc = "lookup"
    BY <2>1 DEF CallJob
  <2> HIDE DEF j
  <2> QED BY <1>0, <2>2, <2>3, ShapesAreJobs, SteadyMove
<1>5. ASSUME NEW r \in Requests, AllowIncr(r)
      PROVE  Steady
  <2>1. req[r] \in Job /\ req[r].pc \in {"admit", "expire"}
    BY <1>0, <1>5 DEF AllowIncr
  <2>2. PICK j \in Job : Goto(r, j) /\ j.pc # "insert"
    <3> DEFINE k == Budget(req[r])
    <3>1. CASE OpensWindow(k)
      BY <1>5, <2>1, <3>1, AdmittedType DEF AllowIncr
    <3>2. CASE ~OpensWindow(k) /\ Refused(k)
      BY <1>0, <1>5, <3>2 DEF AllowIncr
    <3>3. CASE ~OpensWindow(k) /\ ~Refused(k)
      BY <1>5, <2>1, <3>3, AdmittedType DEF AllowIncr
    <3> QED BY <3>1, <3>2, <3>3
  <2>3. UNCHANGED <<tokens, closed, faults>>
    BY <1>5 DEF AllowIncr
  <2> QED BY <2>1, <2>2, <2>3, SteadyMove
<1>6. ASSUME NEW r \in Requests, AllowExpire(r) \/ AllowFails(r)
      PROVE  Steady
  <2>1. req[r] \in Job /\ req[r].pc \in {"admit", "expire"}
    BY <1>0, <1>6 DEF AllowExpire, AllowFails
  <2>2. /\ Goto(r, Admitted(req[r])) /\ UNCHANGED <<tokens, closed>>
        /\ faults' = faults \/ faults' = faults + 1
    BY <1>6 DEF AllowExpire, AllowFails, Fault
  <2> QED BY <2>1, <2>2, AdmittedType, SteadyMove
<1>7. ASSUME NEW r \in Requests, RequestDies(r)
      PROVE  Steady
  BY <1>0, <1>7, SteadyMove DEF RequestDies, Finish, Fault
<1>8. ASSUME NEW r \in Requests, Register(r) \/ Authenticate(r)
      PROVE  Steady
  <2>1. /\ Goto(r, [pc |-> "issue"]) \/ Goto(r, Idle)
        /\ UNCHANGED <<tokens, closed, faults>> /\ req[r].pc = "account"
    BY <1>8 DEF Register, Authenticate, Finish
  <2>2. [pc |-> "issue"] \in Job
    BY ShapesAreJobs
  <2> QED BY <1>0, <2>1, <2>2, SteadyMove
<1>9. ASSUME NEW r \in Requests, ReadToken(r)
      PROVE  Steady
  <2> DEFINE t == req[r].token
             f == tokens[t].family
             j1 == [pc |-> "revoke", family |-> f]
             j2 == [pc |-> "rotate", token |-> t]
  <2>1. t \in Nat /\ f \in Nat
    BY <1>0, <1>9, TokenRow DEF ReadToken, TypeInv, Refs
  <2>2. /\ Goto(r, Idle) \/ Goto(r, j1) \/ Goto(r, j2)
        /\ UNCHANGED <<tokens, closed, faults>> /\ req[r].pc = "read"
    BY <1>9 DEF ReadToken
  <2>3. j1 \in Job /\ j1.pc = "revoke" /\ j2 \in Job /\ j2.pc = "rotate"
    BY <2>1, ShapesAreJobs DEF TokenJob, FamilyJob
  <2> HIDE DEF j1, j2
  <2> QED BY <1>0, <2>2, <2>3, SteadyMove
<1>10. ASSUME NEW r \in Requests, FindFamily(r)
       PROVE  Steady
  <2> DEFINE f == tokens[req[r].token].family
             j == [pc |-> "revoke", family |-> f]
  <2>1. f \in Nat
    BY <1>0, <1>10, TokenRow DEF FindFamily, TypeInv, Refs
  <2>2. Goto(r, j) /\ UNCHANGED <<tokens, closed, faults>> /\ req[r].pc = "find"
    BY <1>10 DEF FindFamily
  <2>3. j \in Job /\ j.pc = "revoke"
    BY <2>1, ShapesAreJobs DEF FamilyJob
  <2> HIDE DEF j
  <2> QED BY <2>2, <2>3, SteadyMove
<1>11. ASSUME NEW r \in Requests, GetAPIKeyByHash(r) \/ TouchAPIKey(r) \/ Serve(r)
       PROVE  Steady
  <2>1. req[r] \in CallJob
    BY <1>0, <1>11, JobShape DEF GetAPIKeyByHash, TouchAPIKey, Serve
  <2>2. /\ [req[r] EXCEPT !.pc = "touch"] \in CallJob /\ [req[r] EXCEPT !.pc = "admit"] \in CallJob
        /\ [req[r] EXCEPT !.pc = "touch"].pc = "touch" /\ [req[r] EXCEPT !.pc = "admit"].pc = "admit"
        /\ req[r].pc # "insert"
    BY <2>1 DEF CallJob
  <2>3. UNCHANGED <<tokens, closed, faults>>
    BY <1>11 DEF GetAPIKeyByHash, TouchAPIKey, Serve
  <2>4. \/ Goto(r, Idle) \/ Goto(r, [req[r] EXCEPT !.pc = "touch"])
        \/ Goto(r, [req[r] EXCEPT !.pc = "admit"])
    BY <1>11 DEF GetAPIKeyByHash, TouchAPIKey, Serve, Finish
  <2>5. PICK j \in Job : Goto(r, j) /\ j.pc \in {"idle", "touch", "admit"}
    BY <1>0, <2>2, <2>4, ShapesAreJobs
  <2> QED BY <2>2, <2>3, <2>5, SteadyMove
<1>12. ASSUME NEW t \in DOMAIN tokens, TokenExpires(t)
       PROVE  Steady
  <2>1. tokens \in [DOMAIN tokens -> Token]
    BY TokenRow DEF TypeInv, TypeOK
  <2> QED BY <1>12, <2>1 DEF TokenExpires, Steady, Token
<1>13. ASSUME NEW k \in Keys, WindowEnds(k)
       PROVE  Steady
  BY <1>13 DEF WindowEnds, Steady
<1>14. CASE RedisRestarts
  BY <1>14 DEF RedisRestarts, Fault, Steady
<1>15. ASSUME NEW r \in Requests, Ping(r) \/ RecordCheckin(r)
       PROVE  Steady
  <2> DEFINE j == [pc |-> "admit", kind |-> "ping"]
  <2>1. j \in PingJob /\ j.pc = "admit"
    BY DEF PingJob
  <2>2. /\ Goto(r, j) \/ Goto(r, Idle)
        /\ UNCHANGED <<tokens, closed, faults>> /\ req[r].pc # "insert"
    BY <1>0, <1>15 DEF Ping, Arrives, RecordCheckin, Finish
  <2> HIDE DEF j
  <2> QED BY <1>0, <2>1, <2>2, ShapesAreJobs, SteadyMove
<1>16. CASE UNCHANGED vars
  BY <1>16 DEF vars, Steady
<1> QED
  BY <1>1, <1>2, <1>3, <1>4, <1>5, <1>6, <1>7, <1>8, <1>9, <1>10, <1>11, <1>12, <1>13,
     <1>14, <1>15, <1>16 DEF Next, RequestStep

(* OneLiveToken without counting: no two usable tokens of a family, no two *)
(* successors under way, and not one of each.                              *)
NoFork ==
    /\ \A t, u \in DOMAIN tokens :
         Usable(t) /\ Usable(u) /\ tokens[t].family = tokens[u].family => t = u
    /\ \A r, s \in Requests :
         req[r].pc = "insert" /\ Inserting(s, req[r].family) => r = s
    /\ \A r \in Requests, t \in DOMAIN tokens :
         Usable(t) => ~Inserting(r, tokens[t].family)

(* SessionNotLost and RevokedForGood, token by token.                      *)
NotLost ==
    faults = 0 =>
      \A t \in DOMAIN tokens :
        \/ \E u \in DOMAIN tokens :
             tokens[u].family = tokens[t].family /\ (tokens[u].revoked \/ Usable(u))
        \/ \E r \in Requests : Inserting(r, tokens[t].family)

StaysClosed ==
    \A f \in closed :
      /\ \A t \in DOMAIN tokens : tokens[t].family = f => ~Usable(t)
      /\ \A r \in Requests : ~Inserting(r, f)

SessionInv == NoFork /\ NotLost /\ StaysClosed

(* The first token of a family: its id names no family yet.                *)
LEMMA IssueKeeps ==
    ASSUME TypeInv, SessionInv, NEW r \in Requests, IssueRefreshToken(r)
    PROVE  SessionInv'
<1> DEFINE f == Len(tokens) + 1
<1>1. f \in Nat
  BY DEF TypeInv, TypeOK
<1>2. tokens' = Append(tokens, NewToken(f)) /\ Goto(r, Idle) /\ UNCHANGED <<closed, faults>>
  BY <1>1 DEF IssueRefreshToken, Finish
<1>3. /\ \A t \in DOMAIN tokens : tokens'[t] = tokens[t] /\ t \in DOMAIN tokens'
      /\ \A t \in DOMAIN tokens' : t \in DOMAIN tokens \/ t = f
      /\ f \in DOMAIN tokens' /\ f \notin DOMAIN tokens
      /\ tokens'[f].family = f /\ ~tokens'[f].rotated /\ ~tokens'[f].revoked
  BY <1>1, <1>2, AppendToken
<1>4. \A s \in Requests : req'[s].pc = "insert" => req'[s] = req[s] /\ s # r
  BY <1>2, GotoType, ShapesAreJobs DEF TypeInv, Idle
<1>5. \A s \in Requests : req[s].pc = "insert" => req'[s] = req[s]
  BY <1>2, GotoType, ShapesAreJobs DEF TypeInv, IssueRefreshToken
<1>6. /\ \A t \in DOMAIN tokens : tokens[t].family # f
      /\ \A s \in Requests : ~Inserting(s, f)
      /\ f \notin closed
  BY <1>3 DEF TypeInv, Refs, Inserting
<1> HIDE DEF f
<1>7. NoFork'
  BY <1>3, <1>4, <1>6 DEF SessionInv, NoFork, Usable, Inserting
<1>8. NotLost'
  BY <1>2, <1>3, <1>5 DEF SessionInv, NotLost, Usable, Inserting
<1>9. StaysClosed'
  BY <1>2, <1>3, <1>4, <1>6 DEF SessionInv, StaysClosed, Usable, Inserting
<1> QED BY <1>7, <1>8, <1>9 DEF SessionInv

(* The UPDATE of a rotation takes the only usable token of its family.     *)
LEMMA RotateKeeps ==
    ASSUME TypeInv, SessionInv, NEW r \in Requests, RotateIfUnrotated(r)
    PROVE  SessionInv'
<1> DEFINE t == req[r].token
           f == tokens[t].family
           j1 == [pc |-> "insert", family |-> f]
           j2 == [pc |-> "revoke", family |-> f]
<1>1. t \in DOMAIN tokens /\ f \in Nat
  BY TokenRow DEF RotateIfUnrotated, TypeInv, Refs
<1>2. req[r].pc = "rotate" /\ UNCHANGED <<closed, faults>>
  BY DEF RotateIfUnrotated
<1>3. j1 \in Job /\ j1.pc = "insert" /\ j1.family = f /\ j2 \in Job /\ j2.pc = "revoke"
  BY <1>1, ShapesAreJobs DEF FamilyJob
<1>4. \/ Usable(t) /\ tokens' = [tokens EXCEPT ![t].rotated = TRUE] /\ Goto(r, j1)
      \/ ~Usable(t) /\ tokens' = tokens /\ Goto(r, j2)
  BY DEF RotateIfUnrotated, Rotates, Usable
<1> HIDE DEF j1, j2
<1>5. CASE Usable(t) /\ tokens' = [tokens EXCEPT ![t].rotated = TRUE] /\ Goto(r, j1)
  <2>1. tokens \in [DOMAIN tokens -> Token]
    BY TokenRow DEF TypeInv, TypeOK
  <2>2. /\ DOMAIN tokens' = DOMAIN tokens
        /\ \A u \in DOMAIN tokens :
             /\ tokens'[u].family = tokens[u].family /\ tokens'[u].revoked = tokens[u].revoked
             /\ u # t => tokens'[u].rotated = tokens[u].rotated
        /\ tokens'[t].rotated
    BY <1>1, <1>5, <2>1 DEF Token
  <2>3. /\ req'[r].pc = "insert" /\ req'[r].family = f
        /\ \A s \in Requests \ {r} : req'[s] = req[s]
    BY <1>3, <1>5, GotoType DEF TypeInv
  <2>4. /\ \A s \in Requests : ~Inserting(s, f)
        /\ \A u \in DOMAIN tokens : Usable(u) /\ tokens[u].family = f => u = t
        /\ f \notin closed
    BY <1>1, <1>5 DEF SessionInv, NoFork, StaysClosed
  <2> HIDE DEF t, f
  <2>5. NoFork'
    BY <2>2, <2>3, <2>4 DEF SessionInv, NoFork, Usable, Inserting
  <2>6. NotLost'
    BY <1>1, <1>2, <2>2, <2>3, <2>4 DEF SessionInv, NotLost, Usable, Inserting, f
  <2>7. StaysClosed'
    BY <1>2, <2>2, <2>3, <2>4 DEF SessionInv, StaysClosed, Usable, Inserting
  <2> QED BY <2>5, <2>6, <2>7 DEF SessionInv
<1>6. CASE ~Usable(t) /\ tokens' = tokens /\ Goto(r, j2)
  <2>1. /\ \A s \in Requests : req'[s].pc = "insert" => req'[s] = req[s]
        /\ \A s \in Requests : req[s].pc = "insert" => req'[s] = req[s]
    BY <1>2, <1>3, <1>6, GotoType DEF TypeInv
  <2> QED
    BY <1>2, <1>6, <2>1 DEF SessionInv, NoFork, NotLost, StaysClosed, Usable, Inserting
<1> QED BY <1>4, <1>5, <1>6

(* The INSERT replaces the successor that was owed by a usable token.      *)
LEMMA InsertKeeps ==
    ASSUME TypeInv, SessionInv, NEW r \in Requests, IssueInFamily(r)
    PROVE  SessionInv'
<1> DEFINE f == req[r].family
           n == Len(tokens) + 1
<1>1. f \in Nat /\ Inserting(r, f)
  BY JobShape DEF IssueInFamily, FamilyJob, TypeInv, TypeOK, Inserting
<1>2. tokens' = Append(tokens, NewToken(f)) /\ Goto(r, Idle) /\ UNCHANGED <<closed, faults>>
  BY DEF IssueInFamily, Finish
<1>3. /\ \A t \in DOMAIN tokens : tokens'[t] = tokens[t] /\ t \in DOMAIN tokens'
      /\ \A t \in DOMAIN tokens' : t \in DOMAIN tokens \/ t = n
      /\ n \in DOMAIN tokens' /\ n \notin DOMAIN tokens
      /\ tokens'[n].family = f /\ ~tokens'[n].rotated /\ ~tokens'[n].revoked
  BY <1>1, <1>2, AppendToken
<1>4. /\ req'[r].pc # "insert" /\ \A s \in Requests \ {r} : req'[s] = req[s]
  BY <1>2, GotoType, ShapesAreJobs DEF TypeInv, Idle
<1>5. /\ \A s \in Requests : Inserting(s, f) => s = r
      /\ \A t \in DOMAIN tokens : tokens[t].family = f => ~Usable(t)
      /\ f \notin closed
  BY <1>1 DEF SessionInv, NoFork, StaysClosed, Inserting
<1> HIDE DEF f, n
<1>6. NoFork'
  BY <1>3, <1>4, <1>5 DEF SessionInv, NoFork, Usable, Inserting
<1>7. NotLost'
  <2> SUFFICES ASSUME faults' = 0, NEW t \in DOMAIN tokens'
               PROVE  \/ \E u \in DOMAIN tokens' :
                           /\ tokens'[u].family = tokens'[t].family
                           /\ tokens'[u].revoked \/ Usable(u)'
                      \/ \E s \in Requests :
                           req'[s].pc = "insert" /\ req'[s].family = tokens'[t].family
    BY DEF NotLost, Usable, Inserting
  <2>1. CASE tokens'[t].family = f
    BY <1>3, <2>1 DEF Usable
  <2>2. CASE tokens'[t].family # f
    <3>1. t \in DOMAIN tokens /\ tokens'[t] = tokens[t]
      BY <1>3, <2>2
    <3>2. CASE \E u \in DOMAIN tokens :
                 tokens[u].family = tokens[t].family /\ (tokens[u].revoked \/ Usable(u))
      BY <1>3, <3>1, <3>2 DEF Usable
    <3>3. CASE \E s \in Requests : Inserting(s, tokens[t].family)
      BY <1>1, <1>4, <2>2, <3>1, <3>3 DEF Inserting
    <3> QED BY <1>2, <3>1, <3>2, <3>3 DEF SessionInv, NotLost
  <2> QED BY <2>1, <2>2
<1>8. StaysClosed'
  BY <1>2, <1>3, <1>4, <1>5 DEF SessionInv, StaysClosed, Usable, Inserting
<1> QED BY <1>6, <1>7, <1>8 DEF SessionInv

(* A revocation leaves no usable token of the family.                      *)
LEMMA RevokeKeeps ==
    ASSUME TypeInv, SessionInv, NEW r \in Requests, RevokeFamily(r)
    PROVE  SessionInv'
<1> DEFINE f == req[r].family
<1>1. /\ DOMAIN tokens' = DOMAIN tokens
      /\ \A t \in DOMAIN tokens :
           tokens'[t] = IF tokens[t].family = f THEN [tokens[t] EXCEPT !.revoked = TRUE]
                        ELSE tokens[t]
  BY DEF RevokeFamily, Family
<1>2. \A t \in DOMAIN tokens :
        /\ tokens'[t].family = tokens[t].family /\ tokens'[t].rotated = tokens[t].rotated
        /\ tokens[t].family = f => tokens'[t].revoked
        /\ tokens[t].family # f => tokens'[t].revoked = tokens[t].revoked
  <2> TAKE t \in DOMAIN tokens
  <2>1. tokens[t] \in Token
    BY TokenRow
  <2>2. CASE tokens[t].family = f
    BY <1>1, <2>1, <2>2 DEF Token
  <2>3. CASE tokens[t].family # f
    BY <1>1, <2>1, <2>3 DEF Token
  <2> QED BY <2>2, <2>3
<1>3. /\ Goto(r, Idle) /\ faults' = faults /\ req[r].pc = "revoke"
      /\ closed' \subseteq closed \cup {f}
      /\ f \in closed' => f \in closed \/ \A s \in Requests : ~Inserting(s, f)
  BY DEF RevokeFamily, Finish, Successors, Inserting
<1>4. \A s \in Requests : req'[s].pc = "insert" \/ req[s].pc = "insert" => req'[s] = req[s]
  BY <1>3, GotoType, ShapesAreJobs DEF TypeInv, Idle
<1> HIDE DEF f
<1>5. NoFork'
  BY <1>1, <1>2, <1>4 DEF SessionInv, NoFork, Usable, Inserting
<1>6. NotLost'
  BY <1>1, <1>2, <1>3, <1>4 DEF SessionInv, NotLost, Usable, Inserting
<1>7. StaysClosed'
  BY <1>1, <1>2, <1>3, <1>4 DEF SessionInv, StaysClosed, Usable, Inserting
<1> QED BY <1>5, <1>6, <1>7 DEF SessionInv

(* Every step keeps the invariant of the sessions.                         *)
LEMMA SessionStep == TypeInv /\ SessionInv /\ [Next]_vars => SessionInv'
<1> SUFFICES ASSUME TypeInv, SessionInv, [Next]_vars
             PROVE  SessionInv'
  OBVIOUS
<1>1. CASE Steady
  <2>1. NoFork'
    BY <1>1 DEF Steady, SessionInv, NoFork, Usable, Inserting
  <2>2. NotLost'
    <3>1. CASE faults' = faults + 1
      <4>1. faults' # 0
        BY <3>1 DEF TypeInv, TypeOK
      <4> QED BY <4>1 DEF NotLost
    <3>2. CASE faults' = faults /\ \A s \in Requests : req[s].pc = "insert" => req'[s] = req[s]
      BY <1>1, <3>2 DEF Steady, SessionInv, NotLost, Usable, Inserting
    <3> QED BY <1>1, <3>1, <3>2 DEF Steady
  <2>3. StaysClosed'
    BY <1>1 DEF Steady, SessionInv, StaysClosed, Usable, Inserting
  <2> QED BY <2>1, <2>2, <2>3 DEF SessionInv
<1> QED BY <1>1, SessionSteps, IssueKeeps, RotateKeeps, InsertKeeps, RevokeKeeps

LEMMA SessionInvariant == Spec => [](TypeInv /\ SessionInv)
<1>1. Init => SessionInv
  BY DEF Init, SessionInv, NoFork, NotLost, StaysClosed, Usable, Inserting, Idle
<1> QED BY <1>1, TypeInvariant, SessionStep, PTL DEF Spec

(* A set without two different elements has at most one.                   *)
LEMMA AtMostOne ==
    ASSUME NEW S, \A x, y \in S : x = y
    PROVE  Cardinality(S) \in {0, 1} /\ (S = {} => Cardinality(S) = 0)
<1>1. CASE S = {}
  BY <1>1, FS_EmptySet
<1>2. CASE S # {}
  <2>1. PICK x \in S : TRUE
    BY <1>2
  <2>2. S = {x}
    BY <2>1
  <2> QED BY <1>2, <2>2, FS_Singleton
<1> QED BY <1>1, <1>2

(* A family of refresh tokens never forks: one conditional UPDATE is       *)
(* enough for any number of refreshes of the same token, with logouts,     *)
(* reuse detection and requests that die in between.                       *)
THEOREM FamilyNeverForks == Spec => []OneLiveToken
<1>1. TypeInv /\ SessionInv => OneLiveToken
  <2> SUFFICES ASSUME SessionInv, NEW f \in Families
               PROVE  Cardinality(Live(f)) + Cardinality(Successors(f)) =< 1
    BY DEF OneLiveToken
  <2>1. \A t, u \in Live(f) : t = u
    BY DEF Live, Family, SessionInv, NoFork, Usable
  <2>2. \A r, s \in Successors(f) : r = s
    BY DEF Successors, SessionInv, NoFork, Inserting
  <2>3. Live(f) = {} \/ Successors(f) = {}
    BY DEF Live, Family, Successors, SessionInv, NoFork, Usable, Inserting
  <2> QED BY <2>1, <2>2, <2>3, AtMostOne
<1> QED BY <1>1, SessionInvariant, PTL

(* Without faults a session ends only by a revocation.                     *)
THEOREM SessionsKept == Spec => []SessionNotLost
<1>1. TypeInv /\ SessionInv => SessionNotLost
  <2> SUFFICES ASSUME SessionInv, faults = 0, NEW f \in Families
               PROVE  \/ \E t \in Family(f) : tokens[t].revoked
                      \/ Live(f) # {} \/ Successors(f) # {}
    BY DEF SessionNotLost
  <2>1. PICK t \in DOMAIN tokens : tokens[t].family = f
    BY DEF Families
  <2>2. CASE \E u \in DOMAIN tokens :
               tokens[u].family = tokens[t].family /\ (tokens[u].revoked \/ Usable(u))
    BY <2>1, <2>2 DEF Family, Live, Usable
  <2>3. CASE \E r \in Requests : Inserting(r, tokens[t].family)
    BY <2>1, <2>3 DEF Successors, Inserting
  <2> QED BY <2>2, <2>3 DEF SessionInv, NotLost
<1> QED BY <1>1, SessionInvariant, PTL

(* A family revoked while no rotation was half done stays revoked.         *)
THEOREM RevocationHolds == Spec => []RevokedForGood
<1>1. TypeInv /\ SessionInv => RevokedForGood
  BY DEF SessionInv, StaysClosed, RevokedForGood, Live, Family, Successors, Usable, Inserting
<1> QED BY <1>1, SessionInvariant, PTL

----------------------------------------------------------------------------
(* API keys.                                                               *)

(* A call that came after the revocation is never past the lookup, and a   *)
(* key, once revoked, stays so.                                            *)
LateInv ==
    \A r \in Requests : req[r] \in CallJob /\ req[r].late =>
      req[r].pc = "lookup" /\ apiKey[req[r].key] = "revoked"

(* The jobs that are no calls.                                             *)
LEMMA NotCalls ==
    /\ Idle \notin CallJob /\ [pc |-> "issue"] \notin CallJob
    /\ \A j \in SignInJob : j \notin CallJob
    /\ \A j \in TokenJob : j \notin CallJob
    /\ \A j \in FamilyJob : j \notin CallJob
    /\ \A j \in PingJob : j \notin CallJob
BY DEF Idle, SignInJob, TokenJob, FamilyJob, CallJob, PingJob

(* A request that moves on to a job that is no late call keeps LateInv.    *)
LEMMA LateMove ==
    ASSUME TypeInv, LateInv, NEW r \in Requests, NEW j \in Job, Goto(r, j),
           j \in CallJob => ~j.late \/ (j.pc = "lookup" /\ apiKey[j.key] = "revoked"),
           apiKey' = apiKey
    PROVE  LateInv'
BY GotoType DEF LateInv, TypeInv

(* Every step keeps LateInv: the lookup is the only way past itself, and   *)
(* it sees the revocation.                                                 *)
LEMMA LateStep == TypeInv /\ LateInv /\ [Next]_vars => LateInv'
<1> SUFFICES ASSUME TypeInv, LateInv, [Next]_vars
             PROVE  LateInv'
  OBVIOUS
<1>0. req \in [Requests -> Job] /\ Idle \in Job /\ apiKey \in [APIKeys -> {"none", "live", "revoked"}]
  BY ShapesAreJobs DEF TypeInv, TypeOK
<1>1. ASSUME NEW r \in Requests, NEW kind \in {"register", "login"}, NEW e \in Emails,
             SignIn(r, kind, e)
      PROVE  LateInv'
  <2> DEFINE j == [pc |-> "admit", kind |-> kind, email |-> e]
  <2>1. j \in SignInJob /\ Goto(r, j) /\ apiKey' = apiKey
    BY <1>1 DEF SignIn, SignInJob
  <2> HIDE DEF j
  <2> QED BY <2>1, NotCalls, ShapesAreJobs, LateMove
<1>2. ASSUME NEW r \in Requests, NEW t \in DOMAIN tokens, Refresh(r, t) \/ Logout(r, t)
      PROVE  LateInv'
  <2> DEFINE j1 == [pc |-> "read", token |-> t]
             j2 == [pc |-> "find", token |-> t]
  <2>0. t \in Nat
    BY TokenRow
  <2>1. j1 \in TokenJob /\ j2 \in TokenJob
    BY <2>0 DEF TokenJob
  <2>2. (Goto(r, j1) \/ Goto(r, j2)) /\ apiKey' = apiKey
    BY <1>2 DEF Refresh, Logout
  <2> HIDE DEF j1, j2
  <2> QED BY <2>1, <2>2, NotCalls, ShapesAreJobs, LateMove
<1>3. ASSUME NEW r \in Requests, NEW k \in APIKeys, CreateAPIKey(r, k) \/ RevokeAPIKey(r, k)
      PROVE  LateInv'
  <2>1. /\ req' = req /\ apiKey[k] # "revoked"
        /\ \A x \in APIKeys \ {k} : apiKey'[x] = apiKey[x]
    BY <1>0, <1>3 DEF CreateAPIKey, RevokeAPIKey
  <2>2. \A r1 \in Requests : req[r1] \in CallJob => req[r1].key \in APIKeys
    BY DEF CallJob
  <2> QED BY <2>1, <2>2 DEF LateInv
<1>4. ASSUME NEW r \in Requests, NEW k \in APIKeys, APICall(r, k)
      PROVE  LateInv'
  <2> DEFINE late == apiKey[k] = "revoked"
             j == [pc |-> "lookup", kind |-> "call", key |-> k, late |-> late]
  <2>1. late \in BOOLEAN
    OBVIOUS
  <2>2. Goto(r, j) /\ apiKey' = apiKey
    BY <1>4 DEF APICall
  <2>3. j.late => j.pc = "lookup" /\ apiKey[j.key] = "revoked"
    OBVIOUS
  <2> HIDE DEF late
  <2>4. j \in CallJob
    BY <2>1 DEF CallJob
  <2> HIDE DEF j
  <2> QED BY <2>2, <2>3, <2>4, ShapesAreJobs, LateMove
<1>5. ASSUME NEW r \in Requests, AllowIncr(r) \/ AllowExpire(r) \/ AllowFails(r)
      PROVE  LateInv'
  <2>1. req[r] \in Job /\ req[r].pc \in {"admit", "expire"} /\ apiKey' = apiKey
    BY <1>0, <1>5 DEF AllowIncr, AllowExpire, AllowFails
  <2> DEFINE j1 == [req[r] EXCEPT !.pc = "expire"]
             j2 == Admitted(req[r])
  <2>2. /\ j1 \in Job /\ j2 \in Job
        /\ j1 \in CallJob => ~j1.late
        /\ j2 \in CallJob => ~j2.late
    <3>1. CASE req[r] \in CallJob
      <4>1. ~req[r].late
        BY <2>1, <3>1 DEF LateInv
      <4>2. j1.late = req[r].late /\ j2.late = req[r].late
        BY <3>1 DEF CallJob, Admitted
      <4> QED BY <2>1, <4>1, <4>2, AdmittedType
    <3>2. CASE req[r] \in SignInJob
      <4>1. j1 \in SignInJob /\ j2 \in SignInJob
        BY <3>2 DEF SignInJob, Admitted
      <4> QED BY <4>1, NotCalls, ShapesAreJobs
    <3>3. CASE req[r] \in PingJob
      <4>1. j1 \in PingJob /\ j2 \in PingJob
        BY <3>3 DEF PingJob, Admitted
      <4> QED BY <4>1, NotCalls, ShapesAreJobs
    <3> QED BY <2>1, <3>1, <3>2, <3>3, JobShape
  <2>3. Goto(r, j1) \/ Goto(r, j2) \/ Goto(r, Idle)
    <3>1. CASE AllowIncr(r)
      <4> DEFINE k == Budget(req[r])
      <4>1. CASE OpensWindow(k)
        BY <3>1, <4>1 DEF AllowIncr
      <4>2. CASE ~OpensWindow(k) /\ Refused(k)
        BY <3>1, <4>2 DEF AllowIncr
      <4>3. CASE ~OpensWindow(k) /\ ~Refused(k)
        BY <3>1, <4>3 DEF AllowIncr
      <4> QED BY <4>1, <4>2, <4>3
    <3>2. CASE AllowExpire(r) \/ AllowFails(r)
      BY <3>2 DEF AllowExpire, AllowFails
    <3> QED BY <1>5, <3>1, <3>2
  <2> HIDE DEF j1, j2
  <2> QED BY <1>0, <2>1, <2>2, <2>3, NotCalls, LateMove
<1>6. ASSUME NEW r \in Requests,
             RequestDies(r) \/ IssueRefreshToken(r) \/ IssueInFamily(r) \/ RevokeFamily(r) \/ Serve(r)
             \/ RecordCheckin(r)
      PROVE  LateInv'
  <2>1. Goto(r, Idle) /\ apiKey' = apiKey
    BY <1>6 DEF RequestDies, IssueRefreshToken, IssueInFamily, RevokeFamily, Serve, RecordCheckin,
       Finish
  <2> QED BY <1>0, <2>1, NotCalls, LateMove
<1>7. ASSUME NEW r \in Requests, Register(r) \/ Authenticate(r)
      PROVE  LateInv'
  <2>1. (Goto(r, [pc |-> "issue"]) \/ Goto(r, Idle)) /\ apiKey' = apiKey
    BY <1>7 DEF Register, Authenticate, Finish
  <2>2. [pc |-> "issue"] \in Job
    BY ShapesAreJobs
  <2> QED BY <1>0, <2>1, <2>2, NotCalls, LateMove
<1>8. ASSUME NEW r \in Requests, ReadToken(r) \/ FindFamily(r) \/ RotateIfUnrotated(r)
      PROVE  LateInv'
  <2> DEFINE t == req[r].token
             f == tokens[t].family
             j1 == [pc |-> "revoke", family |-> f]
             j2 == [pc |-> "rotate", token |-> t]
             j3 == [pc |-> "insert", family |-> f]
  <2>1. t \in Nat /\ f \in Nat
    BY <1>0, <1>8, TokenRow DEF ReadToken, FindFamily, RotateIfUnrotated, TypeInv, Refs
  <2>2. /\ Goto(r, Idle) \/ Goto(r, j1) \/ Goto(r, j2) \/ Goto(r, j3)
        /\ apiKey' = apiKey
    BY <1>8 DEF ReadToken, FindFamily, RotateIfUnrotated
  <2>3. j1 \in FamilyJob /\ j2 \in TokenJob /\ j3 \in FamilyJob
    BY <2>1 DEF TokenJob, FamilyJob
  <2> HIDE DEF j1, j2, j3
  <2> QED BY <1>0, <2>2, <2>3, NotCalls, ShapesAreJobs, LateMove
<1>9. ASSUME NEW r \in Requests, GetAPIKeyByHash(r)
      PROVE  LateInv'
  <2>1. req[r] \in CallJob /\ req[r].pc = "lookup" /\ apiKey' = apiKey
    BY <1>0, <1>9, JobShape DEF GetAPIKeyByHash
  <2>2. CASE ValidKey(req[r].key)
    <3> DEFINE j == [req[r] EXCEPT !.pc = "touch"]
    <3>1. Goto(r, j)
      BY <1>9, <2>2 DEF GetAPIKeyByHash
    <3>2. ~req[r].late
      BY <2>1, <2>2 DEF LateInv, ValidKey
    <3>3. j \in CallJob /\ j.late = req[r].late
      BY <2>1 DEF CallJob
    <3> HIDE DEF j
    <3> QED BY <2>1, <3>1, <3>2, <3>3, ShapesAreJobs, LateMove
  <2>3. CASE ~ValidKey(req[r].key)
    <3>1. Goto(r, Idle)
      BY <1>9, <2>3 DEF GetAPIKeyByHash
    <3> QED BY <1>0, <2>1, <3>1, NotCalls, LateMove
  <2> QED BY <2>2, <2>3
<1>10. ASSUME NEW r \in Requests, TouchAPIKey(r)
       PROVE  LateInv'
  <2> DEFINE j == [req[r] EXCEPT !.pc = "admit"]
  <2>1. req[r] \in CallJob /\ req[r].pc = "touch" /\ apiKey' = apiKey /\ Goto(r, j)
    BY <1>0, <1>10, JobShape DEF TouchAPIKey
  <2>2. ~req[r].late
    BY <2>1 DEF LateInv
  <2>3. j \in CallJob /\ j.late = req[r].late
    BY <2>1 DEF CallJob
  <2> HIDE DEF j
  <2> QED BY <2>1, <2>2, <2>3, ShapesAreJobs, LateMove
<1>11. CASE \/ \E t \in DOMAIN tokens : TokenExpires(t)
            \/ \E k \in Keys : WindowEnds(k)
            \/ RedisRestarts \/ UNCHANGED vars
  BY <1>11 DEF TokenExpires, WindowEnds, RedisRestarts, vars, LateInv
<1>12. ASSUME NEW r \in Requests, Ping(r)
       PROVE  LateInv'
  <2> DEFINE j == [pc |-> "admit", kind |-> "ping"]
  <2>1. j \in PingJob /\ Goto(r, j) /\ apiKey' = apiKey
    BY <1>12 DEF Ping, PingJob
  <2> HIDE DEF j
  <2> QED BY <2>1, NotCalls, ShapesAreJobs, LateMove
<1> QED
  BY <1>1, <1>2, <1>3, <1>4, <1>5, <1>6, <1>7, <1>8, <1>9, <1>10, <1>11, <1>12
     DEF Next, RequestStep

(* A call that arrives after its key was revoked is not served.            *)
THEOREM RevocationSeen == Spec => []RevokedKeyRefused
<1>1. Init => LateInv
  BY NotCalls DEF Init, LateInv
<1>2. TypeInv /\ LateInv => RevokedKeyRefused
  BY JobShape DEF TypeInv, TypeOK, LateInv, RevokedKeyRefused
<1> QED BY <1>1, <1>2, TypeInvariant, LateStep, PTL DEF Spec

----------------------------------------------------------------------------
(* The rate limiter.                                                       *)

(* WindowHasEnd is inductive once the types are known: only three steps    *)
(* take a request away from its EXPIRE, one of which carries it out and    *)
(* two of which record that it is lost.                                    *)
LEMMA WindowStep == TypeInv /\ WindowHasEnd /\ [Next]_vars => WindowHasEnd'
<1> SUFFICES ASSUME TypeInv, WindowHasEnd, [Next]_vars
             PROVE  WindowHasEnd'
  OBVIOUS
<1>0. /\ req \in [Requests -> Job] /\ bucket \in [Keys -> Bucket] /\ lost \in [Keys -> BOOLEAN]
      /\ Idle.pc = "idle"
  BY DEF TypeInv, TypeOK, LimiterType, Idle
<1>same. ASSUME UNCHANGED <<bucket, lost>>,
                \A s \in Requests : req[s].pc = "expire" => req'[s] = req[s]
         PROVE  WindowHasEnd'
  BY <1>same DEF WindowHasEnd, Present
<1>1. ASSUME NEW r \in Requests, AllowIncr(r)
      PROVE  WindowHasEnd'
  <2> DEFINE k == Budget(req[r])
             j == [req[r] EXCEPT !.pc = "expire"]
  <2>1. k \in Keys /\ req[r] \in Job /\ j \in Job /\ j.pc = "expire" /\ Budget(j) = k
    BY <1>0, <1>1, AdmittedType DEF AllowIncr
  <2>2. /\ bucket' = [bucket EXCEPT ![k].count = Count(k)] /\ lost' = lost
        /\ req[r].pc = "admit" /\ \A s \in Requests \ {r} : req'[s] = req[s]
    BY <1>0, <1>1 DEF AllowIncr, Incr, Goto
  <2>3. /\ \A x \in Keys : bucket'[x].ttl = bucket[x].ttl
        /\ \A x \in Keys \ {k} : bucket'[x] = bucket[x]
    BY <1>0, <2>1, <2>2 DEF Bucket
  <2> SUFFICES ASSUME NEW x \in Keys, Present(x)', ~bucket'[x].ttl
               PROVE  lost'[x] \/ \E s \in Requests : req'[s].pc = "expire" /\ Budget(req'[s]) = x
    BY DEF WindowHasEnd
  <2>4. CASE x = k /\ OpensWindow(k)
    <3>1. Goto(r, j)
      BY <1>1, <2>4 DEF AllowIncr
    <3>2. req'[r] = j
      BY <1>0, <3>1 DEF Goto
    <3> QED BY <2>1, <2>4, <3>2
  <2>5. CASE x # k \/ ~OpensWindow(k)
    <3>1. Present(x)
      <4>1. CASE x # k
        BY <2>3, <4>1 DEF Present
      <4>2. CASE x = k /\ ~OpensWindow(k)
        <5>1. bucket[k].count \in Nat /\ bucket[k].count # 0
          BY <1>0, <2>1, <4>2 DEF OpensWindow, Count, Bucket
        <5> QED BY <4>2, <5>1 DEF Present
      <4> QED BY <2>5, <4>1, <4>2
    <3>2. lost[x] \/ \E s \in Requests : req[s].pc = "expire" /\ Budget(req[s]) = x
      BY <2>3, <3>1 DEF WindowHasEnd
    <3> QED BY <2>2, <3>2
  <2> QED BY <2>4, <2>5
<1>2. ASSUME NEW r \in Requests, AllowExpire(r)
      PROVE  WindowHasEnd'
  <2> DEFINE k == Budget(req[r])
             p == Present(k)
  <2>1. k \in Keys
    BY <1>0, <1>2, AdmittedType DEF AllowExpire
  <2>2. /\ bucket' = [bucket EXCEPT ![k].ttl = p] /\ lost' = lost
        /\ \A s \in Requests \ {r} : req'[s] = req[s]
    BY <1>0, <1>2 DEF AllowExpire, Expire, Goto
  <2>3. /\ bucket'[k].count = bucket[k].count /\ bucket'[k].ttl = p
        /\ \A x \in Keys \ {k} : bucket'[x] = bucket[x]
    BY <1>0, <2>1, <2>2 DEF Bucket
  <2>4. bucket'[k].count > 0 => bucket'[k].ttl
    <3> SUFFICES ASSUME bucket'[k].count > 0
                 PROVE  bucket'[k].ttl
      OBVIOUS
    <3>1. p
      BY <2>3 DEF Present
    <3> HIDE DEF p
    <3> QED BY <2>3, <3>1
  <2> HIDE DEF p, k
  <2> SUFFICES ASSUME NEW x \in Keys, Present(x)', ~bucket'[x].ttl
               PROVE  lost'[x] \/ \E s \in Requests : req'[s].pc = "expire" /\ Budget(req'[s]) = x
    BY DEF WindowHasEnd
  <2>5. x # k /\ bucket'[x] = bucket[x] /\ Present(x)
    <3>1. x # k
      BY <2>4 DEF Present
    <3> QED BY <2>3, <3>1 DEF Present
  <2>6. lost[x] \/ \E s \in Requests : req[s].pc = "expire" /\ Budget(req[s]) = x
    BY <2>5 DEF WindowHasEnd
  <2> QED BY <2>2, <2>5, <2>6 DEF k
<1>3. ASSUME NEW r \in Requests, AllowFails(r) \/ RequestDies(r)
      PROVE  WindowHasEnd'
  <2>1. bucket' = bucket /\ \A s \in Requests \ {r} : req'[s] = req[s]
    BY <1>0, <1>3 DEF AllowFails, RequestDies, Finish, Goto
  <2>2. /\ \A x \in Keys : lost[x] => lost'[x]
        /\ req[r].pc = "expire" => lost'[Budget(req[r])]
    <3>1. CASE req[r].pc \in {"admit", "expire"}
      <4>1. Budget(req[r]) \in Keys
        BY <1>0, <3>1, AdmittedType
      <4>2. CASE AllowFails(r)
        BY <1>0, <4>1, <4>2 DEF AllowFails
      <4>3. CASE RequestDies(r)
        BY <1>0, <4>1, <4>3 DEF RequestDies
      <4> QED BY <1>3, <4>2, <4>3
    <3>2. CASE req[r].pc \notin {"admit", "expire"}
      BY <1>3, <3>2 DEF AllowFails, RequestDies
    <3> QED BY <3>1, <3>2
  <2> QED BY <2>1, <2>2 DEF WindowHasEnd, Present
<1>4. ASSUME NEW k \in Keys, WindowEnds(k)
      PROVE  WindowHasEnd'
  BY <1>0, <1>4 DEF WindowEnds, WindowElapses, Absent, WindowHasEnd, Present
<1>5. ASSUME RedisRestarts
      PROVE  WindowHasEnd'
  BY <1>5 DEF RedisRestarts, RedisLoses, Absent, WindowHasEnd, Present
<1>6. ASSUME NEW r \in Requests,
             \/ \E kind \in {"register", "login"}, e \in Emails : SignIn(r, kind, e)
             \/ \E t \in DOMAIN tokens : Refresh(r, t) \/ Logout(r, t)
             \/ \E k \in APIKeys : CreateAPIKey(r, k) \/ RevokeAPIKey(r, k) \/ APICall(r, k)
             \/ Ping(r)
      PROVE  WindowHasEnd'
  <2>1. UNCHANGED <<bucket, lost>> /\ req[r].pc = "idle"
    BY <1>0, <1>6 DEF SignIn, Refresh, Logout, CreateAPIKey, RevokeAPIKey, APICall, Ping, Arrives
  <2>2. \A s \in Requests \ {r} : req'[s] = req[s]
    BY <1>0, <1>6 DEF SignIn, Refresh, Logout, CreateAPIKey, RevokeAPIKey, APICall, Ping, Goto
  <2> QED BY <1>same, <2>1, <2>2
<1>7. ASSUME NEW r \in Requests,
             \/ Register(r) \/ Authenticate(r) \/ IssueRefreshToken(r) \/ ReadToken(r)
             \/ FindFamily(r) \/ RotateIfUnrotated(r) \/ IssueInFamily(r) \/ RevokeFamily(r)
             \/ GetAPIKeyByHash(r) \/ TouchAPIKey(r) \/ Serve(r) \/ RecordCheckin(r)
      PROVE  WindowHasEnd'
  <2>1. UNCHANGED <<bucket, lost>> /\ req[r].pc # "expire"
    BY <1>7 DEF Register, Authenticate, IssueRefreshToken, ReadToken, FindFamily,
       RotateIfUnrotated, IssueInFamily, RevokeFamily, GetAPIKeyByHash, TouchAPIKey, Serve,
       RecordCheckin
  <2>2. \E j : Goto(r, j)
    BY <1>7 DEF Register, Authenticate, IssueRefreshToken, ReadToken, FindFamily,
       RotateIfUnrotated, IssueInFamily, RevokeFamily, GetAPIKeyByHash, TouchAPIKey, Serve,
       RecordCheckin, Finish
  <2>3. \A s \in Requests \ {r} : req'[s] = req[s]
    BY <1>0, <2>2 DEF Goto
  <2> QED BY <1>same, <2>1, <2>3
<1>8. CASE UNCHANGED vars \/ \E t \in DOMAIN tokens : TokenExpires(t)
  BY <1>same, <1>8 DEF vars, TokenExpires
<1> QED
  BY <1>1, <1>2, <1>3, <1>4, <1>5, <1>6, <1>7, <1>8 DEF Next, RequestStep

(* A key that counts and has no TTL is about to get one, or its EXPIRE was *)
(* lost: nothing else makes the limiter refuse for ever.                   *)
THEOREM WindowsClose == Spec => []WindowHasEnd
<1>1. Init => WindowHasEnd
  BY DEF Init, LimiterInit, Absent, WindowHasEnd, Present
<1> QED BY <1>1, TypeInvariant, WindowStep, PTL DEF Spec
==============================================================================
