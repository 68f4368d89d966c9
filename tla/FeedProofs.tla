------------------------------ MODULE FeedProofs ------------------------------
(***************************************************************************)
(* Proofs about Feed, for any lists, page sizes and numbers of rows: what  *)
(* a client that follows the cursors gets, whatever is inserted, committed *)
(* out of order, pruned or changed between its requests.                   *)
(***************************************************************************)
EXTENDS Feed, FiniteSetTheorems, WellFoundedInduction, TLAPS

----------------------------------------------------------------------------
(* The order of a list.                                                    *)

(* Every nonempty set of naturals has a least member.                      *)
LEMMA Least ==
    ASSUME NEW S, S \subseteq Nat, S # {}
    PROVE  \E x \in S : \A y \in S : x =< y
<1> DEFINE R == OpToRel(<, Nat)
<1>1. \A x, y \in Nat : y < x => <<y, x>> \in R
  BY DEF OpToRel
<1>2. IsWellFoundedOn(R, Nat)
  BY NatLessThanWellFounded
<1> HIDE DEF R
<1>3. PICK x \in S : \A y \in S : ~(<<y, x>> \in R)
  BY <1>2, WFMin
<1>4. \A y \in S : ~(y < x)
  BY <1>1, <1>3
<1>5. x \in Nat /\ \A y \in S : y \in Nat
  OBVIOUS
<1> QED BY <1>4, <1>5

LEMMA RowFields ==
    ASSUME NEW r \in Row
    PROVE  r.id \in Nat \ {0} /\ r.created \in Nat
BY FeedAssumption DEF Row

LEMMA OlderTransitive ==
    ASSUME NEW a \in Row, NEW b \in Row, NEW c \in Row, Older(a, b), Older(b, c)
    PROVE  Older(a, c)
<1>1. /\ a.id \in Nat /\ b.id \in Nat /\ c.id \in Nat
      /\ a.created \in Nat /\ b.created \in Nat /\ c.created \in Nat
  BY RowFields
<1>2. CASE feed = "monitors"
  BY <1>1, <1>2 DEF Older
<1>3. CASE feed # "monitors"
  BY <1>1, <1>3 DEF Older
<1> QED BY <1>2, <1>3

(* Ids are not used twice.                                                 *)
UniqueIds ==
    /\ \A r \in rows \cup open : r.id \in used
    /\ \A r, s \in rows \cup open : r.id = s.id => r = s

(* The last row of a page.                                                 *)
LEMMA LastOfPage ==
    ASSUME UniqueIds, rows \subseteq Row, NEW page, page \subseteq rows, page # {}
    PROVE  /\ Last(page) \in page
           /\ \A row \in page : row = Last(page) \/ Older(Last(page), row)
<1>0. \A r \in page : r \in Row /\ r.id \in Nat /\ r.created \in Nat
  BY RowFields
<1>1. \E last \in page : \A row \in page : row = last \/ Older(last, row)
  <2>1. CASE feed = "monitors"
    <3> DEFINE T == {r.created : r \in page}
    <3>1. T \subseteq Nat /\ T # {}
      BY <1>0
    <3>2. PICK t \in T : \A u \in T : t =< u
      <4> HIDE DEF T
      <4> QED BY <3>1, Least
    <3> DEFINE I == {r.id : r \in {s \in page : s.created = t}}
    <3>3. I \subseteq Nat /\ I # {}
      BY <1>0
    <3>4. PICK i \in I : \A j \in I : i =< j
      <4> HIDE DEF I
      <4> QED BY <3>3, Least
    <3>5. PICK last \in page : last.id = i /\ last.created = t
      BY <3>4
    <3>6. ASSUME NEW row \in page PROVE row = last \/ Older(last, row)
      <4>1. t =< row.created
        BY <3>2
      <4>2. row.created = t => i =< row.id
        BY <3>4
      <4>3. row.id = i => row = last
        BY <3>5 DEF UniqueIds
      <4>4. t \in Nat /\ i \in Nat /\ row.created \in Nat /\ row.id \in Nat
        BY <1>0, <3>5
      <4> HIDE DEF T, I
      <4> QED BY <2>1, <3>5, <4>1, <4>2, <4>3, <4>4 DEF Older
    <3> QED BY <3>6
  <2>2. CASE feed # "monitors"
    <3> DEFINE I == {r.id : r \in page}
    <3>1. I \subseteq Nat /\ I # {}
      BY <1>0
    <3>2. PICK i \in I : \A j \in I : i =< j
      <4> HIDE DEF I
      <4> QED BY <3>1, Least
    <3>3. PICK last \in page : last.id = i
      BY <3>2
    <3>4. ASSUME NEW row \in page PROVE row = last \/ Older(last, row)
      <4>1. i =< row.id
        BY <3>2
      <4>2. row.id = i => row = last
        BY <3>3 DEF UniqueIds
      <4>3. i \in Nat /\ row.id \in Nat
        BY <1>0, <3>3
      <4> HIDE DEF I
      <4> QED BY <2>2, <3>3, <4>1, <4>2, <4>3 DEF Older
    <3> QED BY <3>4
  <2> QED BY <2>1, <2>2
<1> QED BY <1>1 DEF Last

----------------------------------------------------------------------------
(* One page.                                                               *)

(* What the walk is after a page: a full page is not empty and its last    *)
(* row is the cursor, and a page that is not full is all there is.         *)
LEMMA PageCursor ==
    ASSUME TypeOK, UniqueIds, NEW page \in SUBSET rows, IsPage(page)
    PROVE  \/ /\ Full(page) /\ page # {} /\ NextCursor(page) = Last(page)
              /\ Last(page) \in page /\ NextCursor(page) # None
              /\ \A row \in page : row = Last(page) \/ Older(Last(page), row)
           \/ ~Full(page) /\ page = Selected /\ NextCursor(page) = None
<1>1. walk.limit \in Nat \ {0}
  BY FeedAssumption DEF TypeOK, Walk
<1>2. CASE Full(page)
  <2>1. page # {}
    BY <1>1, <1>2, FS_EmptySet DEF Full
  <2>2. /\ Last(page) \in page
        /\ \A row \in page : row = Last(page) \/ Older(Last(page), row)
    BY <2>1, LastOfPage DEF TypeOK
  <2>3. NextCursor(page) = Last(page)
    BY <1>2 DEF NextCursor
  <2>4. Last(page) # None
    <3>1. Last(page).id # 0
      BY <2>2, RowFields DEF TypeOK
    <3> QED BY <3>1 DEF None
  <2> QED BY <1>2, <2>1, <2>2, <2>3, <2>4
<1>3. CASE ~Full(page)
  BY <1>3 DEF Full, IsPage, NextCursor
<1> QED BY <1>2, <1>3

(* A handler that answers reads one page.                                  *)
LEMMA RequestReads ==
    ASSUME Request
    PROVE  ReadPage \/ Refuse
BY DEF Request, ListMonitors, ListEvents, ListMonitorEvents, ListMonitorCheckins,
   ListMonitorProbeResults

(* The pages the client has after one more.                                *)
LEMMA WalkAfter ==
    ASSUME TypeOK, UniqueIds, ReadPage
    PROVE  \E page \in SUBSET rows :
             /\ IsPage(page)
             /\ walk' \in Walk
             /\ walk'.pages = IF page = {} THEN walk.pages ELSE Append(walk.pages, page)
             /\ walk'.cursor = NextCursor(page)
             /\ walk'.state = IF NextCursor(page) = None THEN "done" ELSE "reading"
<1>1. PICK page \in SUBSET rows :
        /\ IsPage(page)
        /\ walk' = [walk EXCEPT
              !.pages = IF page = {} THEN @ ELSE Append(@, page),
              !.cursor = NextCursor(page),
              !.state = IF NextCursor(page) = None THEN "done" ELSE "reading"]
  BY DEF ReadPage
<1> DEFINE P == IF page = {} THEN walk.pages ELSE Append(walk.pages, page)
           c == NextCursor(page)
           s == IF c = None THEN "done" ELSE "reading"
<1>2. walk \in Walk
  BY DEF TypeOK
<1>3. P \in Seq((SUBSET Row) \ {{}})
  <2> DEFINE Page == (SUBSET Row) \ {{}}
  <2>1. page # {} => page \in Page
    <3>1. page \subseteq Row
      BY DEF TypeOK
    <3> QED BY <3>1
  <2>2. Walk = [state: {"idle", "reading", "done", "refused"}, limit: Limits,
                cursor: Row \cup {None}, pages: Seq(Page)]
    BY DEF Walk
  <2> HIDE DEF Page
  <2>3. walk.pages \in Seq(Page)
    BY <1>2, <2>2
  <2>4. P \in Seq(Page)
    BY <2>1, <2>3
  <2> QED BY <2>4 DEF Page
<1>4. c \in Row \cup {None}
  BY <1>1, PageCursor DEF TypeOK
<1>5. s \in {"idle", "reading", "done", "refused"}
  OBVIOUS
<1>6. walk' = [walk EXCEPT !.pages = P, !.cursor = c, !.state = s]
  BY <1>1, <1>2 DEF Walk
<1> HIDE DEF P, c, s
<1>7. walk' \in Walk /\ walk'.pages = P /\ walk'.cursor = c /\ walk'.state = s
  BY <1>2, <1>3, <1>4, <1>5, <1>6 DEF Walk
<1> QED BY <1>1, <1>7 DEF P, c, s

----------------------------------------------------------------------------
(* Types and ids.                                                          *)

TypeInv == TypeOK /\ UniqueIds

LEMMA TypeInit == Init => TypeInv
<1> SUFFICES ASSUME Init PROVE TypeInv
  OBVIOUS
<1>1. PICK n \in Limits :
        walk = [state |-> "idle", limit |-> n, cursor |-> None, pages |-> <<>>]
  BY DEF Init
<1>2. walk \in Walk
  BY <1>1 DEF Walk
<1>3. clock \in 0 .. MaxTime
  BY FeedAssumption DEF Init
<1> QED BY <1>2, <1>3 DEF Init, TypeInv, TypeOK, UniqueIds

LEMMA TypeStep == TypeInv /\ [Next]_vars => TypeInv'
<1> SUFFICES ASSUME TypeOK, UniqueIds, [Next]_vars PROVE TypeInv'
  BY DEF TypeInv
<1>1. CASE Tick
  <2>1. clock' \in 0 .. MaxTime
    BY <1>1, FeedAssumption DEF Tick, TypeOK
  <2> QED BY <1>1, <2>1 DEF Tick, TypeInv, TypeOK, UniqueIds
<1>2. CASE DeleteMonitor
  BY <1>2 DEF DeleteMonitor, TypeInv, TypeOK, UniqueIds
<1>3. CASE ReadPage
  <2>1. walk' \in Walk
    BY <1>3, WalkAfter
  <2>2. steady' \subseteq rows
    BY <1>3 DEF ReadPage, Selected, TypeOK
  <2> QED BY <1>3, <2>1, <2>2 DEF ReadPage, TypeInv, TypeOK, UniqueIds
<1>4. CASE Refuse
  <2>1. walk' \in Walk
    BY <1>4 DEF Refuse, TypeOK, Walk
  <2> QED BY <1>4, <2>1 DEF Refuse, TypeInv, TypeOK, UniqueIds
<1>5. ASSUME NEW id \in 1 .. MaxRows, NEW passes \in BOOLEAN, Insert(id, passes)
      PROVE  TypeInv'
  <2>1. PICK t \in 0 .. clock : open' = open \cup {[id |-> id, created |-> t]}
    BY <1>5 DEF Insert
  <2> DEFINE row == [id |-> id, created |-> t]
  <2>2. row \in Row /\ row.id = id
    <3>1. t \in 0 .. MaxTime
      BY FeedAssumption DEF TypeOK
    <3> QED BY <3>1 DEF Row
  <2>3. open' = open \cup {row}
    BY <2>1
  <2> HIDE DEF row
  <2>4. id \notin used /\ used' = used \cup {id} /\ rows' = rows
    BY <1>5 DEF Insert
  <2>5. UniqueIds'
    BY <2>2, <2>3, <2>4 DEF UniqueIds
  <2>6. matching' \subseteq used'
    BY <1>5 DEF Insert, TypeOK
  <2>7. open' \subseteq Row
    BY <2>2, <2>3 DEF TypeOK
  <2> QED BY <1>5, <2>5, <2>6, <2>7 DEF Insert, TypeInv, TypeOK
<1>6. ASSUME NEW row \in open, Commit(row) \/ Rollback(row)
      PROVE  TypeInv'
  BY <1>6 DEF Commit, Rollback, TypeInv, TypeOK, UniqueIds
<1>7. ASSUME NEW row \in rows, Prune(row) \/ Change(row)
      PROVE  TypeInv'
  BY <1>7 DEF Prune, Change, TypeInv, TypeOK, UniqueIds
<1>8. CASE UNCHANGED vars
  BY <1>8 DEF vars, TypeInv, TypeOK, UniqueIds
<1> QED BY <1>1, <1>2, <1>3, <1>4, <1>5, <1>6, <1>7, <1>8, RequestReads DEF Next

LEMMA TypeInvHolds == Spec => []TypeInv
BY TypeInit, TypeStep, PTL DEF Spec

(* Every variable keeps its type: in particular the cursor a page carries  *)
(* is always a row, which takes that a full page has a last row.           *)
THEOREM TypeCorrect == Spec => []TypeOK
<1>1. TypeInv => TypeOK
  BY DEF TypeInv
<1> QED BY <1>1, TypeInvHolds, PTL

----------------------------------------------------------------------------
(* The order of the rows that are returned.                                *)

(* What the client has lies before the cursor.                             *)
BeforeCursor ==
    /\ walk.state = "idle" => walk.pages = <<>> /\ walk.cursor = None
    /\ walk.state = "reading" =>
         /\ walk.cursor # None
         /\ \A i \in DOMAIN walk.pages : \A a \in walk.pages[i] :
              a = walk.cursor \/ Older(walk.cursor, a)

OrderInv == BeforeCursor /\ NewestFirst

(* One more page.                                                          *)
LEMMA OneMorePage ==
    ASSUME NEW S, NEW P \in Seq(S), NEW page \in S
    PROVE  /\ DOMAIN P = 1 .. Len(P) /\ Len(P) \in Nat
           /\ DOMAIN Append(P, page) = 1 .. Len(P) + 1
           /\ Append(P, page)[Len(P) + 1] = page
           /\ \A i \in 1 .. Len(P) : Append(P, page)[i] = P[i]
OBVIOUS

(* A page continues where the ones before it ended.                        *)
LEMMA PageFollows ==
    ASSUME TypeInv, BeforeCursor, walk.state \in {"idle", "reading"},
           NEW page, page \subseteq Selected,
           NEW i \in DOMAIN walk.pages, NEW a \in walk.pages[i], NEW b \in page
    PROVE  Older(b, a) /\ a \in Row /\ b \in Row
<1>1. walk.state = "reading"
  BY DEF BeforeCursor
<1>2. a \in Row
  <2>1. walk.pages \in Seq((SUBSET Row) \ {{}})
    BY DEF TypeInv, TypeOK, Walk
  <2>2. walk.pages[i] \in (SUBSET Row) \ {{}}
    BY <2>1
  <2> QED BY <2>2
<1>3. b \in Row /\ walk.cursor \in Row
  BY <1>1 DEF TypeInv, TypeOK, Walk, Selected, BeforeCursor
<1>4. Older(b, walk.cursor)
  BY <1>1 DEF BeforeCursor, Selected, PastCursor
<1> QED BY <1>1, <1>2, <1>3, <1>4, OlderTransitive DEF BeforeCursor

LEMMA OrderStep ==
    ASSUME TypeInv, OrderInv, [Next]_vars
    PROVE  OrderInv'
<1>1. CASE ReadPage
  <2>1. PICK page \in SUBSET rows :
          /\ IsPage(page)
          /\ walk' \in Walk
          /\ walk'.pages = IF page = {} THEN walk.pages ELSE Append(walk.pages, page)
          /\ walk'.cursor = NextCursor(page)
          /\ walk'.state = IF NextCursor(page) = None THEN "done" ELSE "reading"
    BY <1>1, WalkAfter DEF TypeInv
  <2>2. feed' = feed /\ walk.state \in {"idle", "reading"} /\ page \subseteq Selected
    BY <1>1, <2>1 DEF ReadPage, IsPage
  <2>3. \A i \in DOMAIN walk.pages : \A a \in walk.pages[i], b \in page :
          Older(b, a) /\ a \in Row /\ b \in Row
    BY <2>2, PageFollows DEF OrderInv
  <2> DEFINE P == walk.pages
             Q == walk'.pages
             n == Len(P)
  <2>4. /\ DOMAIN P = 1 .. n /\ n \in Nat
        /\ \/ page = {} /\ Q = P
           \/ /\ DOMAIN Q = 1 .. n + 1 /\ Q[n + 1] = page
              /\ \A i \in 1 .. n : Q[i] = P[i]
    <3>1. P \in Seq((SUBSET Row) \ {{}})
      BY DEF TypeInv, TypeOK, Walk
    <3>2. CASE page = {}
      BY <2>1, <3>1, <3>2
    <3>3. CASE page # {}
      <4>1. page \in (SUBSET Row) \ {{}}
        BY <3>3 DEF TypeInv, TypeOK
      <4>2. Q = Append(P, page)
        BY <2>1, <3>3
      <4> QED BY <3>1, <4>1, <4>2, OneMorePage
    <3> QED BY <3>2, <3>3
  <2>5. \A i, j \in DOMAIN P : i < j => \A a \in P[i], b \in P[j] : Older(b, a)
    BY DEF OrderInv, NewestFirst
  <2> HIDE DEF P, Q, n
  <2>6. NewestFirst'
    <3>1. \A i, j \in DOMAIN Q : i < j => \A a \in Q[i], b \in Q[j] : Older(b, a)
      <4>1. CASE page = {} /\ Q = P
        BY <2>5, <4>1
      <4>2. CASE /\ DOMAIN Q = 1 .. n + 1 /\ Q[n + 1] = page
                 /\ \A i \in 1 .. n : Q[i] = P[i]
        <5> SUFFICES ASSUME NEW i \in 1 .. n + 1, NEW j \in 1 .. n + 1, i < j,
                            NEW a \in Q[i], NEW b \in Q[j]
                     PROVE  Older(b, a)
          BY <4>2
        <5>1. i \in 1 .. n /\ a \in P[i]
          BY <2>4, <4>2
        <5>2. CASE j = n + 1
          BY <2>3, <2>4, <4>2, <5>1, <5>2 DEF P
        <5>3. CASE j # n + 1
          BY <2>4, <2>5, <4>2, <5>1, <5>3
        <5> QED BY <5>2, <5>3
      <4> QED BY <2>4, <4>1, <4>2
    <3>2. \A a, b : Older(b, a)' <=> Older(b, a)
      BY <2>2 DEF Older
    <3> QED BY <3>1, <3>2 DEF NewestFirst, Q
  <2>7. CASE Full(page)
    <3>1. /\ walk'.cursor = Last(page) /\ walk'.cursor # None /\ Last(page) \in page
          /\ \A row \in page : row = Last(page) \/ Older(Last(page), row)
      BY <2>1, <2>7, PageCursor DEF TypeInv
    <3>2. walk'.state = "reading"
      BY <2>1, <3>1
    <3>3. \A i \in DOMAIN Q : \A a \in Q[i] : a = Last(page) \/ Older(Last(page), a)
      <4>1. \A i \in DOMAIN P : \A a \in P[i] : Older(Last(page), a)
        BY <2>3, <3>1 DEF P
      <4> QED BY <2>4, <3>1, <4>1
    <3>4. \A i \in DOMAIN Q : \A a \in Q[i] : a = walk'.cursor \/ Older(walk.cursor, a)'
      BY <2>2, <3>1, <3>3 DEF Older
    <3> QED BY <2>6, <3>1, <3>2, <3>4 DEF OrderInv, BeforeCursor, Q
  <2>8. CASE ~Full(page)
    <3>1. walk'.state = "done"
      BY <2>1, <2>8 DEF NextCursor
    <3> QED BY <2>6, <3>1 DEF OrderInv, BeforeCursor
  <2> QED BY <2>7, <2>8
<1>2. CASE Refuse
  <2>1. walk'.state = "refused" /\ walk'.pages = walk.pages /\ feed' = feed
    BY <1>2 DEF Refuse, TypeInv, TypeOK, Walk
  <2> QED BY <2>1 DEF OrderInv, BeforeCursor, NewestFirst, Older
<1>3. ASSUME walk' = walk, feed' = feed PROVE OrderInv'
  BY <1>3 DEF OrderInv, BeforeCursor, NewestFirst, Older
<1> QED BY <1>1, <1>2, <1>3, RequestReads
    DEF Next, Tick, DeleteMonitor, Insert, Commit, Rollback, Prune, Change, vars

LEMMA OrderInvHolds == Spec => []OrderInv
<1>1. Init => OrderInv
  BY DEF Init, OrderInv, BeforeCursor, NewestFirst
<1>2. OrderInv /\ TypeInv /\ [Next]_vars => OrderInv'
  BY OrderStep
<1> QED BY <1>1, <1>2, TypeInvHolds, PTL DEF Spec

(* Newest first across pages, for walks of any length: no row comes back   *)
(* on a later page and none comes out of order, whatever is committed out  *)
(* of order, pruned or changed between two requests.                       *)
THEOREM PagesInOrder == Spec => []NewestFirst
<1>1. OrderInv => NewestFirst
  BY DEF OrderInv
<1> QED BY <1>1, OrderInvHolds, PTL

----------------------------------------------------------------------------
(* What the client misses.                                                 *)

Returned(row) == \E i \in DOMAIN walk.pages : row \in walk.pages[i]

(* A row that was there all along is returned already or still to come.    *)
NothingPassedOver ==
    /\ \A row \in steady : row.id \in matching
    /\ walk.state = "reading" =>
         \A row \in steady : Returned(row) \/ Older(row, walk.cursor)
    /\ walk.state = "done" => \A row \in steady : Returned(row)

(* What is selected and not on the page is older than its last row, and    *)
(* there is no such row unless the page is full.                           *)
LEMMA PageTakesNewest ==
    ASSUME TypeInv, NEW page \in SUBSET rows, IsPage(page), NEW row \in Selected \ page
    PROVE  Full(page) /\ Older(row, Last(page))
<1>1. Full(page) /\ Last(page) \in page
  BY PageCursor DEF TypeInv
<1> QED BY <1>1 DEF IsPage

LEMMA CompleteStep ==
    ASSUME TypeInv, NothingPassedOver, [Next]_vars
    PROVE  NothingPassedOver'
<1>1. CASE ReadPage
  <2>1. PICK page \in SUBSET rows :
          /\ IsPage(page)
          /\ walk' \in Walk
          /\ walk'.pages = IF page = {} THEN walk.pages ELSE Append(walk.pages, page)
          /\ walk'.cursor = NextCursor(page)
          /\ walk'.state = IF NextCursor(page) = None THEN "done" ELSE "reading"
    BY <1>1, WalkAfter DEF TypeInv
  <2>2. /\ feed' = feed /\ matching' = matching /\ walk.state \in {"idle", "reading"}
        /\ steady' = IF walk.state = "idle" THEN Selected ELSE steady
    BY <1>1 DEF ReadPage
  <2>3. \A row : Returned(row) \/ row \in page => Returned(row)'
    <3> DEFINE P == walk.pages
               n == Len(P)
    <3>1. P \in Seq((SUBSET Row) \ {{}})
      BY DEF TypeInv, TypeOK, Walk
    <3>2. CASE page = {}
      BY <2>1, <3>2 DEF Returned
    <3>3. CASE page # {}
      <4>1. page \in (SUBSET Row) \ {{}}
        BY <3>3 DEF TypeInv, TypeOK
      <4>2. walk'.pages = Append(P, page)
        BY <2>1, <3>3
      <4>3. /\ DOMAIN P = 1 .. n /\ n \in Nat
            /\ DOMAIN walk'.pages = 1 .. n + 1 /\ walk'.pages[n + 1] = page
            /\ \A i \in 1 .. n : walk'.pages[i] = P[i]
        BY <3>1, <4>1, <4>2, OneMorePage
      <4>4. n + 1 \in 1 .. n + 1 /\ 1 .. n \subseteq 1 .. n + 1
        BY <4>3
      <4> HIDE DEF n
      <4> QED BY <4>3, <4>4 DEF Returned
    <3> QED BY <3>2, <3>3
  <2>4. \A row \in steady' : row.id \in matching /\ (Returned(row) \/ row \in Selected)
    <3>1. CASE walk.state = "idle"
      BY <2>2, <3>1 DEF Selected
    <3>2. CASE walk.state = "reading"
      BY <2>2, <3>2 DEF NothingPassedOver, Selected, PastCursor, TypeInv, TypeOK
    <3> QED BY <2>2, <3>1, <3>2
  <2>5. \A row \in steady' : Returned(row)' \/ (Full(page) /\ Older(row, Last(page)))
    BY <2>1, <2>3, <2>4, PageTakesNewest
  <2>6. CASE Full(page)
    <3>1. walk'.cursor = Last(page) /\ walk'.state = "reading"
      BY <2>1, <2>6, PageCursor DEF TypeInv
    <3>2. \A row \in steady' : Returned(row)' \/ Older(row, walk.cursor)'
      BY <2>2, <2>5, <3>1 DEF Older
    <3> QED BY <2>2, <2>4, <3>1, <3>2 DEF NothingPassedOver
  <2>7. CASE ~Full(page)
    <3>1. walk'.state = "done"
      BY <2>1, <2>7 DEF NextCursor
    <3> QED BY <2>2, <2>4, <2>5, <2>7, <3>1 DEF NothingPassedOver
  <2> QED BY <2>6, <2>7
<1>2. CASE Refuse
  <2>1. walk'.state = "refused" /\ steady' = steady /\ matching' = matching
    BY <1>2 DEF Refuse, TypeInv, TypeOK, Walk
  <2> QED BY <2>1 DEF NothingPassedOver
<1>3. ASSUME walk' = walk, feed' = feed, steady' \subseteq steady,
             \A row \in steady' : row.id \in matching'
      PROVE  NothingPassedOver'
  BY <1>3 DEF NothingPassedOver, Returned, Older
<1>4. CASE Tick \/ DeleteMonitor \/ UNCHANGED vars
  BY <1>3, <1>4 DEF Tick, DeleteMonitor, vars, NothingPassedOver
<1>5. ASSUME NEW id \in 1 .. MaxRows, NEW passes \in BOOLEAN, Insert(id, passes)
      PROVE  NothingPassedOver'
  BY <1>3, <1>5 DEF Insert, NothingPassedOver
<1>6. ASSUME NEW row \in open, Commit(row) \/ Rollback(row)
      PROVE  NothingPassedOver'
  BY <1>3, <1>6 DEF Commit, Rollback, NothingPassedOver
<1>7. ASSUME NEW row \in rows, Prune(row)
      PROVE  NothingPassedOver'
  BY <1>3, <1>7 DEF Prune, NothingPassedOver
<1>8. ASSUME NEW row \in rows, Change(row)
      PROVE  NothingPassedOver'
  <2>1. \A r \in steady \ {row} : r.id # row.id
    BY DEF TypeInv, TypeOK, UniqueIds
  <2>2. walk' = walk /\ feed' = feed /\ steady' = steady \ {row}
    BY <1>8 DEF Change
  <2>3. \A r \in steady' : r.id \in matching'
    BY <1>8, <2>1 DEF Change, NothingPassedOver
  <2> QED BY <1>3, <2>2, <2>3
<1> QED BY <1>1, <1>2, <1>4, <1>5, <1>6, <1>7, <1>8, RequestReads DEF Next

(* A finished walk has returned every row that was there and passed the    *)
(* filter all along, for lists and pages of any size: a full page's last   *)
(* row is a cursor that leaves nothing out, and a page that is not full    *)
(* ends the walk only when nothing is left.                                *)
THEOREM WalkIsComplete == Spec => []NothingSkipped
<1>1. Init => NothingPassedOver
  BY DEF Init, NothingPassedOver
<1>2. NothingPassedOver /\ TypeInv /\ [Next]_vars => NothingPassedOver'
  BY CompleteStep
<1>3. NothingPassedOver => NothingSkipped
  BY DEF NothingPassedOver, Returned, NothingSkipped
<1> QED BY <1>1, <1>2, <1>3, TypeInvHolds, PTL DEF Spec
===============================================================================
