--------------------------------- MODULE Feed ---------------------------------
(***************************************************************************)
(* A client that walks a list page by page while the list changes: the     *)
(* global and the per-monitor event feed, the check-in log and the probe   *)
(* log, which are keyed by a serial id, and the monitor list, which is     *)
(* keyed by creation time and a random id (server/events.go,               *)
(* server/monitor.go, and the List functions of the store).  Each page is  *)
(* one query; the cursor of the next page is the last row of a full one.   *)
(***************************************************************************)
EXTENDS Integers, Sequences, FiniteSets

CONSTANTS
    Feeds,          \* the lists that are walked
    Limits,         \* values of ?limit
    MaxTime,        \* bound: the clock stops here
    MaxRows         \* bound: rows inserted in a behaviour

PerMonitor == {"monitor_events", "checkins", "probe_results"}

ASSUME FeedAssumption ==
    /\ Feeds \subseteq PerMonitor \cup {"events", "monitors"}
    /\ Limits \subseteq Nat \ {0}
    /\ MaxTime \in Nat /\ MaxRows \in Nat

VARIABLES
    feed,       \* the list that is walked
    clock,      \* the wall clock
    used,       \* ids handed out so far
    open,       \* rows inserted by transactions that have not committed
    rows,       \* the committed rows
    matching,   \* ids of the rows that pass the filter of the walk
    exists,     \* whether the monitor of a per-monitor list exists
    walk,       \* the client
    steady      \* history: matching rows that were there ever since the first page

vars == <<feed, clock, used, open, rows, matching, exists, walk, steady>>

Row == [id: 1 .. MaxRows, created: 0 .. MaxTime]
None == [id |-> 0, created |-> 0]
(* The pages of a walk are what the client has of it, empty ones left out. *)
Walk == [state: {"idle", "reading", "done", "refused"}, limit: Limits,
         cursor: Row \cup {None}, pages: Seq((SUBSET Row) \ {{}})]

TypeOK ==
    /\ feed \in Feeds
    /\ clock \in 0 .. MaxTime
    /\ used \subseteq 1 .. MaxRows
    /\ open \subseteq Row
    /\ rows \subseteq Row
    /\ matching \subseteq used
    /\ exists \in BOOLEAN
    /\ walk \in Walk
    /\ steady \subseteq rows

Init ==
    /\ feed \in Feeds
    /\ clock = 0
    /\ used = {} /\ open = {} /\ rows = {} /\ matching = {}
    /\ exists = TRUE
    /\ \E n \in Limits :
         walk = [state |-> "idle", limit |-> n, cursor |-> None, pages |-> <<>>]
    /\ steady = {}

----------------------------------------------------------------------------
(* The rest of the system: rows come and go.                               *)

(* A BIGSERIAL hands out the next number, gen_random_uuid() any; created   *)
(* is the time the transaction began.  Whether the row passes the filter   *)
(* is a matter of its contents.                                            *)
Insert(id, passes) ==
    /\ exists
    /\ id \notin used
    /\ feed # "monitors" => \A n \in 1 .. id - 1 : n \in used
    /\ used' = used \cup {id}
    /\ matching' = IF passes THEN matching \cup {id} ELSE matching
    /\ \E t \in 0 .. clock :
         open' = open \cup {[id |-> id, created |-> t]}
    /\ UNCHANGED <<feed, clock, rows, exists, walk, steady>>

Commit(row) ==
    /\ row \in open
    /\ open' = open \ {row}
    /\ rows' = rows \cup {row}
    /\ UNCHANGED <<feed, clock, used, matching, exists, walk, steady>>

Rollback(row) ==
    /\ row \in open
    /\ open' = open \ {row}
    /\ UNCHANGED <<feed, clock, used, rows, matching, exists, walk, steady>>

(* Retention, or the deletion of what the row belongs to.                  *)
Prune(row) ==
    /\ row \in rows
    /\ rows' = rows \ {row}
    /\ steady' = steady \ {row}
    /\ UNCHANGED <<feed, clock, used, open, matching, exists, walk>>

(* A monitor changes its state, its name or its pause: it enters or leaves *)
(* what ?state= and ?q= select.  The other lists are append-only.          *)
Change(row) ==
    /\ feed = "monitors" /\ row \in rows
    /\ matching' = IF row.id \in matching THEN matching \ {row.id} ELSE matching \cup {row.id}
    /\ steady' = steady \ {row}
    /\ UNCHANGED <<feed, clock, used, open, rows, exists, walk>>

(* DeleteMonitor takes the rows along; an open insert holds the monitor.   *)
DeleteMonitor ==
    /\ feed \in PerMonitor /\ exists /\ open = {}
    /\ exists' = FALSE
    /\ rows' = {} /\ steady' = {}
    /\ UNCHANGED <<feed, clock, used, open, matching, walk>>

Tick ==
    /\ clock < MaxTime
    /\ clock' = clock + 1
    /\ UNCHANGED <<feed, used, open, rows, matching, exists, walk, steady>>

----------------------------------------------------------------------------
(* The walk.                                                               *)

(* The order of a list: (created_at, id) for monitors, else the id.        *)
Older(a, b) ==
    IF feed = "monitors"
    THEN a.created < b.created \/ (a.created = b.created /\ a.id < b.id)
    ELSE a.id < b.id

(* Mutants: the cursor's own row is returned again; rows created at the    *)
(* same time as the cursor's are passed over.                              *)
PastCursorInclusive(row) == walk.cursor \in {None, row} \/ Older(row, walk.cursor)
PastCursorByTime(row) ==
    \/ walk.cursor = None
    \/ feed = "monitors" /\ row.created < walk.cursor.created
    \/ feed # "monitors" /\ row.id < walk.cursor.id

(* The cursor in the WHERE clause; NULL on the first page.                 *)
PastCursor(row) == walk.cursor = None \/ Older(row, walk.cursor)

Selected == {row \in rows : row.id \in matching /\ PastCursor(row)}

(* ORDER BY ... DESC LIMIT.                                                *)
IsPage(page) ==
    /\ page \subseteq Selected
    /\ Cardinality(page) =< walk.limit
    /\ page = Selected \/ Cardinality(page) = walk.limit
    /\ \A a \in page, b \in Selected \ page : Older(b, a)

Full(page) == Cardinality(page) = walk.limit
Last(page) == CHOOSE last \in page : \A row \in page : row = last \/ Older(last, row)

(* Mutants: the cursor is the bare time; a page that is not full carries   *)
(* the old cursor on.                                                      *)
NextCursorTime(page) == IF Full(page) THEN [Last(page) EXCEPT !.id = 0] ELSE None
NextCursorAlways(page) == IF Full(page) THEN Last(page) ELSE walk.cursor

(* The cursor a page carries: its last row if it is full.                  *)
NextCursor(page) == IF Full(page) THEN Last(page) ELSE None

(* One page and what the client keeps of it.                               *)
ReadPage ==
    /\ walk.state \in {"idle", "reading"}
    /\ \E page \in SUBSET rows :
         /\ IsPage(page)
         /\ walk' = [walk EXCEPT
              !.pages = IF page = {} THEN @ ELSE Append(@, page),
              !.cursor = NextCursor(page),
              !.state = IF NextCursor(page) = None THEN "done" ELSE "reading"]
    /\ steady' = IF walk.state = "idle" THEN Selected ELSE steady
    /\ UNCHANGED <<feed, clock, used, open, rows, matching, exists>>

(* The handlers; those of one monitor's lists look the monitor up first.   *)
ListMonitors == feed = "monitors" /\ ReadPage
ListEvents == feed = "events" /\ ReadPage
ListMonitorEvents == feed = "monitor_events" /\ exists /\ ReadPage
ListMonitorCheckins == feed = "checkins" /\ exists /\ ReadPage
ListMonitorProbeResults == feed = "probe_results" /\ exists /\ ReadPage

(* GetMonitor answers 404: the monitor is gone.                            *)
Refuse ==
    /\ walk.state \in {"idle", "reading"} /\ ~exists
    /\ walk' = [walk EXCEPT !.state = "refused"]
    /\ UNCHANGED <<feed, clock, used, open, rows, matching, exists, steady>>

Request ==
    \/ ListMonitors \/ ListEvents
    \/ ListMonitorEvents \/ ListMonitorCheckins \/ ListMonitorProbeResults
    \/ Refuse

Next ==
    \/ Tick \/ DeleteMonitor \/ Request
    \/ \E id \in 1 .. MaxRows, passes \in BOOLEAN : Insert(id, passes)
    \/ \E row \in open : Commit(row) \/ Rollback(row)
    \/ \E row \in rows : Prune(row) \/ Change(row)

Spec == Init /\ [][Next]_vars

(* The client asks on as long as there is a cursor.                        *)
FairSpec == Spec /\ WF_vars(Request)

----------------------------------------------------------------------------
(* Properties.                                                             *)

(* Newest first, across pages too: every row of a later page comes after   *)
(* every row of an earlier one, so no row is returned twice although rows  *)
(* are committed out of order of their ids, pruned and changed in between  *)
(* (id < cursor, and (created_at, id) < cursor).                           *)
NewestFirst ==
    \A i, j \in DOMAIN walk.pages : i < j =>
      \A a \in walk.pages[i], b \in walk.pages[j] : Older(b, a)

(* A finished walk has returned every row that was there and passed the    *)
(* filter from the first page to the last (toEventPage, ListMonitors).     *)
NothingSkipped ==
    walk.state = "done" => steady \subseteq UNION {walk.pages[i] : i \in DOMAIN walk.pages}

(* The walk ends, however many rows arrive behind it.                      *)
WalkEnds == walk.state = "reading" ~> walk.state \in {"done", "refused"}
==============================================================================
