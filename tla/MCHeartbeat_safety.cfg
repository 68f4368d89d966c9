\* One monitor, two requests in flight and two scheduler replicas.
SPECIFICATION Spec
CONSTANTS
    r1 = r1
    r2 = r2
    s1 = s1
    s2 = s2
    Monitors = {m1}
    Requests = {r1, r2}
    Schedulers = {s1, s2}
    Free = Free
    Configs <- MCConfigs
    Patches <- MCPatches
    ClaimLimit = 1
    MaxTime = 3
    MaxOps = 4
SYMMETRY MCSymmetry
\* Behaviours end where the clock and the request budget reach their bounds.
CHECK_DEADLOCK FALSE
INVARIANTS
    TypeOK
    NoRepeatedTransition
    TimelineMatchesState
    OneAlertPerTransition
    ArmedWhileWatched
    DecisionsAreCurrent
PROPERTIES
    PausedIsLeftAlone
    ImplementsTimeline
