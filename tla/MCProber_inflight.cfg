\* Resumes and pings while a probe is in flight.
SPECIFICATION Spec
CONSTANTS
    Monitors = {m1}
    Probers = {p1}
    Thresholds = {0}
    Intervals = {1}
    ClaimLimit = 1
    Ops = {"pause", "resume", "ping"}
    OpsInFlight = TRUE
    MayReturn = FALSE
    MaxCert = 0
    MaxChanges = 2
    MaxOps = 2
    MaxProbes = 4
\* Behaviours end where the numbers of probes, changes and operations do.
CHECK_DEADLOCK FALSE
INVARIANTS
    TimelineMatchesState
