\* One replica with or without SMTP, crashes, failed statements and lost
\* acknowledgements, over an outage of two cadences.
SPECIFICATION Spec
CONSTANTS
    m1 = m1
    w1 = w1
    w2 = w2
    Monitors = {m1}
    Workers = {w1}
    Channels = {TRUE, FALSE}
    MaxAttempts = 2
    Backoff <- MCBackoff
    ClaimLimit = 2
    Cadence <- MCCadence
    FaultKinds = {"crash", "db", "ack"}
    MaxFaults = 2
    MaxTime = 4
    MaxAlerts = 3
INVARIANTS
    TypeOK
    DuplicatesNeedFaults
    AttemptBudget
    OutcomeIsVisible
    RemindersSpaced
PROPERTIES
    ResolvedIsFinal
