\* Every list, pages of one and of two rows, three rows.
SPECIFICATION FairSpec
CONSTANTS
    Feeds = {"events", "monitor_events", "checkins", "probe_results", "monitors"}
    Limits = {1, 2}
    MaxTime = 1
    MaxRows = 3
\* Behaviours end when the rows are used up and the walk is over.
CHECK_DEADLOCK FALSE
INVARIANTS
    TypeOK
    NewestFirst
    NothingSkipped
PROPERTIES
    WalkEnds
