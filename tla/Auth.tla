--------------------------------- MODULE Auth ---------------------------------
(***************************************************************************)
(* Accounts, sessions and API keys (server/auth.go, auth_middleware.go,    *)
(* apikey.go; store/user.go, session.go, apikey.go) behind the rate        *)
(* limiter.  No handler here opens a transaction: each SQL statement and   *)
(* each Redis command is a step of its own, and the steps of concurrent    *)
(* requests interleave.  A client may present any token it was ever given. *)
(***************************************************************************)
EXTENDS RateLimit, Sequences, FiniteSets

CONSTANTS
    Requests,       \* request handlers that can be in flight at once
    Emails,         \* addresses people register with
    APIKeys,        \* API keys that can be created
    Kinds,          \* the kinds of request that occur
    FaultKinds,     \* which of "redis" and "request" can fail
    MaxFaults,      \* bound: faults in a behaviour
    MaxOps          \* bound: requests in a behaviour

(* The keys Allow counts under: register, login and the pings of ingest    *)
(* have one each for a client address, of which there is one here; the     *)
(* calls with an API key have one for each key.                            *)
Counted == {"register", "login", "ping"} \cup APIKeys

ASSUME AuthAssumption ==
    /\ Counted \subseteq Keys
    /\ Kinds \subseteq {"register", "login", "refresh", "logout", "create", "revoke", "call", "ping"}
    /\ FaultKinds \subseteq {"redis", "request"}
    /\ MaxFaults \in Nat /\ MaxOps \in Nat

VARIABLES
    users,      \* the users table: the registered addresses
    tokens,     \* refresh_tokens, by id
    apiKey,     \* api_keys: whether each key exists and is revoked
    req,        \* what each request is doing
    closed,     \* history: families revoked while no rotation was half done
    ops,        \* requests so far
    faults      \* faults so far

vars == <<bucket, lost, users, tokens, apiKey, req, closed, ops, faults>>

(* A family is named by the id of its first token.                         *)
Token == [family: Nat, rotated: BOOLEAN, revoked: BOOLEAN, expired: BOOLEAN]

Idle == [pc |-> "idle"]
Job == {Idle}
  \cup [pc: {"admit", "expire", "account"}, kind: {"register", "login"}, email: Emails]
  \cup [pc: {"issue"}]
  \cup [pc: {"read", "rotate"}, token: Nat]
  \cup [pc: {"revoke", "insert"}, family: Nat]
  \cup [pc: {"find"}, token: Nat]
  \cup [pc: {"lookup", "touch", "admit", "expire", "serve"}, kind: {"call"},
        key: APIKeys, late: BOOLEAN]
  \cup [pc: {"admit", "expire", "record"}, kind: {"ping"}]

TypeOK ==
    /\ LimiterType
    /\ users \subseteq Emails
    /\ tokens \in Seq(Token)
    /\ apiKey \in [APIKeys -> {"none", "live", "revoked"}]
    /\ req \in [Requests -> Job]
    /\ closed \subseteq Nat
    /\ ops \in Nat /\ faults \in Nat

Init ==
    /\ LimiterInit
    /\ users = {}
    /\ tokens = <<>>
    /\ apiKey = [k \in APIKeys |-> "none"]
    /\ req = [r \in Requests |-> Idle]
    /\ closed = {}
    /\ ops = 0 /\ faults = 0

----------------------------------------------------------------------------

Fault(kind) == kind \in FaultKinds /\ faults < MaxFaults /\ faults' = faults + 1
Goto(r, job) == req' = [req EXCEPT ![r] = job]
Finish(r) == Goto(r, Idle)

(* A request of the kind arrives at an idle handler.                       *)
Arrives(r, kind) ==
    /\ kind \in Kinds /\ req[r] = Idle
    /\ ops < MaxOps /\ ops' = ops + 1

----------------------------------------------------------------------------
(* Allow, called by register, login, requireAuthOrAPIKey and ingest.       *)

(* The Redis key a request is counted under.                               *)
Budget(job) == IF job.kind = "call" THEN job.key ELSE job.kind

(* Where an admitted request goes on.                                      *)
Admitted(job) ==
    [job EXCEPT !.pc = CASE job.kind = "call" -> "serve"
                         [] job.kind = "ping" -> "record"
                         [] OTHER -> "account"]

(* INCR, and for a request over the limit the TTL of the answer.           *)
AllowIncr(r) ==
    LET j == req[r]
        k == Budget(j)
    IN
    /\ j.pc = "admit"
    /\ Incr(k)
    /\ Goto(r, CASE OpensWindow(k) -> [j EXCEPT !.pc = "expire"]
                 [] ~OpensWindow(k) /\ Refused(k) -> Idle
                 [] OTHER -> Admitted(j))
    /\ UNCHANGED <<lost, users, tokens, apiKey, closed, ops, faults>>

AllowExpire(r) ==
    /\ req[r].pc = "expire"
    /\ Expire(Budget(req[r]))
    /\ Goto(r, Admitted(req[r]))
    /\ UNCHANGED <<lost, users, tokens, apiKey, closed, ops, faults>>

(* Either command fails: Allow fails open and the request goes on.         *)
AllowFails(r) ==
    LET j == req[r] IN
    /\ j.pc \in {"admit", "expire"} /\ Fault("redis")
    /\ lost' = [lost EXCEPT ![Budget(j)] = @ \/ j.pc = "expire"]
    /\ Goto(r, Admitted(j))
    /\ UNCHANGED <<bucket, users, tokens, apiKey, closed, ops>>

RedisRestarts ==
    /\ Fault("redis") /\ RedisLoses
    /\ UNCHANGED <<users, tokens, apiKey, req, closed, ops>>

WindowEnds(k) ==
    /\ WindowElapses(k)
    /\ UNCHANGED <<users, tokens, apiKey, req, closed, ops, faults>>

----------------------------------------------------------------------------
(* register and login.                                                     *)

SignIn(r, kind, e) ==
    /\ Arrives(r, kind)
    /\ Goto(r, [pc |-> "admit", kind |-> kind, email |-> e])
    /\ UNCHANGED <<bucket, lost, users, tokens, apiKey, closed, faults>>

(* Store.Register: CreateUser.  A body, address or password that does not  *)
(* validate, a closed registration and a taken address end the request.    *)
Register(r) ==
    LET j == req[r] IN
    /\ j.pc = "account" /\ j.kind = "register"
    /\ \/ /\ j.email \notin users
          /\ users' = users \cup {j.email}
          /\ Goto(r, [pc |-> "issue"])
       \/ users' = users /\ Finish(r)
    /\ UNCHANGED <<bucket, lost, tokens, apiKey, closed, ops, faults>>

(* Store.Authenticate: an unknown address and a wrong password end alike.  *)
Authenticate(r) ==
    LET j == req[r] IN
    /\ j.pc = "account" /\ j.kind = "login"
    /\ \/ j.email \in users /\ Goto(r, [pc |-> "issue"])
       \/ Finish(r)
    /\ UNCHANGED <<bucket, lost, users, tokens, apiKey, closed, ops, faults>>

(* CreateRefreshToken.                                                     *)
NewToken(f) == [family |-> f, rotated |-> FALSE, revoked |-> FALSE, expired |-> FALSE]

(* IssueRefreshToken: the first token of a new family.                     *)
IssueRefreshToken(r) ==
    /\ req[r].pc = "issue"
    /\ tokens' = Append(tokens, NewToken(Len(tokens) + 1))
    /\ Finish(r)
    /\ UNCHANGED <<bucket, lost, users, apiKey, closed, ops, faults>>

----------------------------------------------------------------------------
(* refresh (RotateRefreshToken) and logout (RevokeFamilyByToken).          *)

Refresh(r, t) ==
    /\ Arrives(r, "refresh")
    /\ Goto(r, [pc |-> "read", token |-> t])
    /\ UNCHANGED <<bucket, lost, users, tokens, apiKey, closed, faults>>

Logout(r, t) ==
    /\ Arrives(r, "logout")
    /\ Goto(r, [pc |-> "find", token |-> t])
    /\ UNCHANGED <<bucket, lost, users, tokens, apiKey, closed, faults>>

(* GetRefreshTokenByHash and the switch on the row it returned.            *)
ReadToken(r) ==
    LET row == tokens[req[r].token] IN
    /\ req[r].pc = "read"
    /\ Goto(r, CASE row.revoked -> Idle
                 [] ~row.revoked /\ row.rotated -> [pc |-> "revoke", family |-> row.family]
                 [] ~row.revoked /\ ~row.rotated /\ row.expired -> Idle
                 [] OTHER -> [pc |-> "rotate", token |-> req[r].token])
    /\ UNCHANGED <<bucket, lost, users, tokens, apiKey, closed, ops, faults>>

FindFamily(r) ==
    /\ req[r].pc = "find"
    /\ Goto(r, [pc |-> "revoke", family |-> tokens[req[r].token].family])
    /\ UNCHANGED <<bucket, lost, users, tokens, apiKey, closed, ops, faults>>

(* Mutants of the UPDATE's condition: the row as it was read is trusted;   *)
(* a revocation in between is overlooked.                                  *)
RotatesAny(row) == TRUE
RotatesRevoked(row) == ~row.rotated

(* The condition of RotateRefreshTokenIfUnrotated.                         *)
Rotates(row) == ~row.rotated /\ ~row.revoked

(* The UPDATE; a request that lost the race revokes the family.            *)
RotateIfUnrotated(r) ==
    LET t == req[r].token IN
    /\ req[r].pc = "rotate"
    /\ \/ /\ Rotates(tokens[t])
          /\ tokens' = [tokens EXCEPT ![t].rotated = TRUE]
          /\ Goto(r, [pc |-> "insert", family |-> tokens[t].family])
       \/ /\ ~Rotates(tokens[t])
          /\ tokens' = tokens
          /\ Goto(r, [pc |-> "revoke", family |-> tokens[t].family])
    /\ UNCHANGED <<bucket, lost, users, apiKey, closed, ops, faults>>

(* Mutant: the successor starts a family of its own.                       *)
IssueInNewFamily(r) ==
    /\ req[r].pc = "insert"
    /\ tokens' = Append(tokens, NewToken(Len(tokens) + 1))
    /\ Finish(r)
    /\ UNCHANGED <<bucket, lost, users, apiKey, closed, ops, faults>>

(* issueInFamily: the successor, whatever became of the family meanwhile.  *)
IssueInFamily(r) ==
    /\ req[r].pc = "insert"
    /\ tokens' = Append(tokens, NewToken(req[r].family))
    /\ Finish(r)
    /\ UNCHANGED <<bucket, lost, users, apiKey, closed, ops, faults>>

Family(f) == {t \in DOMAIN tokens : tokens[t].family = f}
Families == {tokens[t].family : t \in DOMAIN tokens}
Successors(f) == {r \in Requests : req[r].pc = "insert" /\ req[r].family = f}

(* RevokeRefreshTokenFamily.                                               *)
RevokeFamily(r) ==
    LET f == req[r].family IN
    /\ req[r].pc = "revoke"
    /\ tokens' = [t \in DOMAIN tokens |->
         IF t \in Family(f) THEN [tokens[t] EXCEPT !.revoked = TRUE] ELSE tokens[t]]
    /\ closed' = IF Successors(f) = {} THEN closed \cup {f} ELSE closed
    /\ Finish(r)
    /\ UNCHANGED <<bucket, lost, users, apiKey, ops, faults>>

TokenExpires(t) ==
    /\ ~tokens[t].expired
    /\ tokens' = [tokens EXCEPT ![t].expired = TRUE]
    /\ UNCHANGED <<bucket, lost, users, apiKey, req, closed, ops, faults>>

----------------------------------------------------------------------------
(* API keys.                                                               *)

CreateAPIKey(r, k) ==
    /\ Arrives(r, "create") /\ apiKey[k] = "none"
    /\ apiKey' = [apiKey EXCEPT ![k] = "live"]
    /\ UNCHANGED <<bucket, lost, users, tokens, req, closed, faults>>

(* Mutant: revocation as a status the other statements do not know.        *)
DisableAPIKey(r, k) ==
    /\ Arrives(r, "revoke") /\ apiKey[k] = "live"
    /\ apiKey' = [apiKey EXCEPT ![k] = "disabled"]
    /\ UNCHANGED <<bucket, lost, users, tokens, req, closed, faults>>

RevokeAPIKey(r, k) ==
    /\ Arrives(r, "revoke") /\ apiKey[k] = "live"
    /\ apiKey' = [apiKey EXCEPT ![k] = "revoked"]
    /\ UNCHANGED <<bucket, lost, users, tokens, req, closed, faults>>

(* requireAuthOrAPIKey; late records that the key was revoked by then.     *)
APICall(r, k) ==
    /\ Arrives(r, "call") /\ apiKey[k] # "none"
    /\ Goto(r, [pc |-> "lookup", kind |-> "call", key |-> k, late |-> apiKey[k] = "revoked"])
    /\ UNCHANGED <<bucket, lost, users, tokens, apiKey, closed, faults>>

(* Mutant: the lookup forgets the filter on revoked_at.                    *)
KnownKey(k) == apiKey[k] # "none"

(* The rows GetAPIKeyByHash returns.                                       *)
ValidKey(k) == apiKey[k] = "live"

GetAPIKeyByHash(r) ==
    LET j == req[r] IN
    /\ j.pc = "lookup"
    /\ Goto(r, IF ValidKey(j.key) THEN [j EXCEPT !.pc = "touch"] ELSE Idle)
    /\ UNCHANGED <<bucket, lost, users, tokens, apiKey, closed, ops, faults>>

(* TouchAPIKeyLastUsed; then Allow counts the call.                        *)
TouchAPIKey(r) ==
    /\ req[r].pc = "touch"
    /\ Goto(r, [req[r] EXCEPT !.pc = "admit"])
    /\ UNCHANGED <<bucket, lost, users, tokens, apiKey, closed, ops, faults>>

(* The handler behind the middleware.                                      *)
Serve(r) ==
    /\ req[r].pc = "serve"
    /\ Finish(r)
    /\ UNCHANGED <<bucket, lost, users, tokens, apiKey, closed, ops, faults>>

----------------------------------------------------------------------------
(* Pings (ingest).                                                         *)

Ping(r) ==
    /\ Arrives(r, "ping")
    /\ Goto(r, [pc |-> "admit", kind |-> "ping"])
    /\ UNCHANGED <<bucket, lost, users, tokens, apiKey, closed, faults>>

(* RecordCheckin, whose transaction is in Heartbeat, and the answer.       *)
RecordCheckin(r) ==
    /\ req[r].pc = "record"
    /\ Finish(r)
    /\ UNCHANGED <<bucket, lost, users, tokens, apiKey, closed, ops, faults>>

----------------------------------------------------------------------------

(* A statement fails, the client hangs up or the server dies: the request  *)
(* ends between two steps and what it has written stays.                   *)
RequestDies(r) ==
    /\ req[r] # Idle /\ Fault("request")
    /\ lost' = IF req[r].pc = "expire" THEN [lost EXCEPT ![Budget(req[r])] = TRUE] ELSE lost
    /\ Finish(r)
    /\ UNCHANGED <<bucket, users, tokens, apiKey, closed, ops>>

RequestStep(r) ==
    \/ AllowIncr(r) \/ AllowExpire(r)
    \/ Register(r) \/ Authenticate(r) \/ IssueRefreshToken(r)
    \/ ReadToken(r) \/ FindFamily(r) \/ RotateIfUnrotated(r) \/ IssueInFamily(r)
    \/ RevokeFamily(r)
    \/ GetAPIKeyByHash(r) \/ TouchAPIKey(r) \/ Serve(r)
    \/ RecordCheckin(r)

Next ==
    \/ \E r \in Requests :
         \/ \E kind \in {"register", "login"}, e \in Emails : SignIn(r, kind, e)
         \/ \E t \in DOMAIN tokens : Refresh(r, t) \/ Logout(r, t)
         \/ \E k \in APIKeys : CreateAPIKey(r, k) \/ RevokeAPIKey(r, k) \/ APICall(r, k)
         \/ Ping(r) \/ RequestStep(r) \/ AllowFails(r) \/ RequestDies(r)
    \/ \E t \in DOMAIN tokens : TokenExpires(t)
    \/ \E k \in Keys : WindowEnds(k)
    \/ RedisRestarts

Spec == Init /\ [][Next]_vars

(* A request in flight goes on to its end (the server's timeouts), and     *)
(* Redis drops the keys whose TTL is over.                                 *)
FairSpec ==
    /\ Spec
    /\ \A r \in Requests : WF_vars(RequestStep(r))
    /\ \A k \in Keys : WF_vars(WindowEnds(k))

----------------------------------------------------------------------------
(* Properties.                                                             *)

Live(f) == {t \in Family(f) : ~tokens[t].rotated /\ ~tokens[t].revoked}

(* A family never forks: at most one of its tokens can still be rotated,   *)
(* and none while a rotation has yet to insert its successor, however many *)
(* refreshes present the same token at once (RotateRefreshTokenIfUnrotated *)
(* is one conditional UPDATE).                                             *)
OneLiveToken ==
    \A f \in Families : Cardinality(Live(f)) + Cardinality(Successors(f)) =< 1

(* Without faults a session ends only by a revocation: a family none of    *)
(* whose tokens is revoked has its current token, or a rotation that is    *)
(* about to insert it (RotateRefreshToken, issueInFamily).                 *)
SessionNotLost ==
    faults = 0 =>
      \A f \in Families :
        \/ \E t \in Family(f) : tokens[t].revoked
        \/ Live(f) # {} \/ Successors(f) # {}

(* A family that was revoked while no rotation stood between its UPDATE    *)
(* and its INSERT stays revoked: no refresh that read its token before the *)
(* revocation brings it back (RevokeRefreshTokenFamily).                   *)
RevokedForGood == \A f \in closed : Live(f) = {} /\ Successors(f) = {}

(* A call that arrives after the revocation of its API key is not served:  *)
(* there is no window in which the old answer counts (requireAuthOrAPIKey).*)
RevokedKeyRefused == \A r \in Requests : req[r].pc = "serve" => ~req[r].late

(* A counter without a TTL is on its way to one, or the EXPIRE of its      *)
(* window failed or its request died before it (Allow): nothing else makes *)
(* a key refuse for ever.                                                  *)
WindowHasEnd ==
    \A k \in Keys : Present(k) /\ ~bucket[k].ttl =>
      lost[k] \/ \E r \in Requests : req[r].pc = "expire" /\ Budget(req[r]) = k

(* Every window ends, so that a refused client is let in again, unless its *)
(* EXPIRE was lost.                                                        *)
WindowsEnd == \A k \in Keys : Present(k) ~> ~Present(k) \/ lost[k]
==============================================================================
