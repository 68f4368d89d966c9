\* Two monitors, a batch of one row, two replicas; requests one after another.
SPECIFICATION FairSpec
CONSTANTS
    r1 = r1
    r2 = r2
    s1 = s1
    s2 = s2
    Monitors = {m1, m2}
    Requests = {r1}
    Schedulers = {s1, s2}
    Free = Free
    Configs <- MCConfigs
    Patches <- MCNoPatches
    ClaimLimit = 1
    MaxTime = 3
    MaxOps = 2
\* Behaviours end where the clock and the request budget reach their bounds.
CHECK_DEADLOCK FALSE
INVARIANTS
    LateOnlyAfterOccurrence
PROPERTIES
    SilentMonitorGoesDown
