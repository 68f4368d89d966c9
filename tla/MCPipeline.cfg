\* A page limit of one row in both workers; requests one after another.
SPECIFICATION PipelineSpec
CONSTANTS
    Monitors = {m1}
    Requests = {r1}
    Schedulers = {s1}
    Alerters = {w1}
    Free = Free
    Configs <- MCConfigs
    Patches = {}
    ClaimLimit = 1
    AlertLimit = 1
    Channels = {TRUE}
    MaxAttempts = 2
    Backoff <- MCBackoff
    Cadence <- MCNoReminders
    FaultKinds = {"crash", "db"}
    MaxFaults = 1
    MaxTime = 4
    MaxOps = 2
    MaxAlerts = 3
\* Behaviours end where the clock and the request budget reach their bounds.
CHECK_DEADLOCK FALSE
PROPERTIES
    OutageIsReported
