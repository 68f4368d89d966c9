\* One replica; resumes and pings meet no probe in flight, pauses do.
SPECIFICATION FairSpec
CONSTANTS
    Monitors = {m1}
    Probers = {p1}
    Thresholds = {0, 1}
    Intervals = {1}
    ClaimLimit = 1
    Ops = {"pause", "resume", "ping", "update", "delete"}
    OpsInFlight = FALSE
    MayReturn = FALSE
    MaxCert = 2
    MaxChanges = 2
    MaxOps = 2
    MaxProbes = 4
\* Behaviours end where the numbers of probes, changes and operations do.
CHECK_DEADLOCK FALSE
INVARIANTS
    TypeOK
    NoRepeatedTransition
    TimelineMatchesState
    OneWarningPerCertificate
PROPERTIES
    ConfirmedDown
    ImplementsTimeline
    BrokenTargetGoesDown
