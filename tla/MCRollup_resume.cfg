\* An outage that the owner ends with a resume.
SPECIFICATION Spec
CONSTANTS
    Monitors = {m1}
    Workers = {w1}
    DayLength = 2
    Retention = 2
    BatchLimit = 3
    RowKinds = {}
    ResumeEndsOutage = TRUE
    MaxFaults = 0
    MaxOps = 2
    MaxTime = 4
INVARIANTS
    StatsExact
