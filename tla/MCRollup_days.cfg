\* One replica and two monitors over four days; outages end with an "up".
SPECIFICATION Spec
CONSTANTS
    Monitors = {m1, m2}
    Workers = {w1}
    DayLength = 2
    Retention = 2
    BatchLimit = 2
    RowKinds <- MCRowKinds
    ResumeEndsOutage = FALSE
    MaxFaults = 1
    MaxOps = 3
    MaxTime = 6
SYMMETRY MCSymmetry
INVARIANTS
    TypeOK
    StatsExact
    RolledUpIsComplete
PROPERTIES
    RetentionKept
    TransitionAlertsKept
