\* Two replicas and no fault.
SPECIFICATION Spec
CONSTANTS
    m1 = m1
    w1 = w1
    w2 = w2
    Monitors = {m1}
    Workers = {w1, w2}
    Channels = {TRUE}
    MaxAttempts = 3
    Backoff <- MCBackoff
    ClaimLimit = 1
    Cadence <- MCNoReminders
    FaultKinds = {}
    MaxFaults = 0
    MaxTime = 3
    MaxAlerts = 1
INVARIANTS
    AtMostOnce
