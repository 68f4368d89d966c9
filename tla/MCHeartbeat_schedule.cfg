\* A PATCH that changes the kind of the schedule.
SPECIFICATION Spec
CONSTANTS
    r1 = r1
    r2 = r2
    s1 = s1
    s2 = s2
    Monitors = {m1}
    Requests = {r1}
    Schedulers = {s1}
    Free = Free
    Configs <- MCConfigs
    Patches <- MCPatches
    ClaimLimit = 1
    MaxTime = 3
    MaxOps = 3
\* Behaviours end where the clock and the request budget reach their bounds.
CHECK_DEADLOCK FALSE
INVARIANTS
    StoredScheduleValidates
