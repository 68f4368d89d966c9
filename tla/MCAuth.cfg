\* Two requests in flight, one address and one API key.
SPECIFICATION FairSpec
CONSTANTS
    Requests = {r1, r2}
    Emails = {e1}
    APIKeys = {k1}
    Keys = {"register", "login", "ping", k1}
    Limit <- MCLimit
    Kinds = {"register", "login", "refresh", "logout", "create", "revoke", "call", "ping"}
    FaultKinds = {"redis", "request"}
    MaxFaults = 2
    MaxOps = 4
\* Behaviours end where the request budget does.
CHECK_DEADLOCK FALSE
INVARIANTS
    TypeOK
    OneLiveToken
    SessionNotLost
    RevokedForGood
    RevokedKeyRefused
    WindowHasEnd
PROPERTIES
    WindowsEnd
