------------------------------ MODULE Listing -------------------------------
(***************************************************************************)
(* Lists: customers, resources, orders, invoices and stock adjustments are *)
(* listed the same way -- newest first, by page number, with the number of *)
(* pages -- over a table that changes between the pages.  A client walks a *)
(* list from its first page to the last one it is told of.                 *)
(*                                                                         *)
(* A page is two queries that run at once: the rows and their count.  The  *)
(* order is by createdAt alone: rows of one millisecond come in any order, *)
(* another one each time.                                                  *)
(*                                                                         *)
(* Left out: filters (they select a smaller table), mapping, search (the   *)
(* first page of each list).                                               *)
(***************************************************************************)
EXTENDS Integers, FiniteSets

CONSTANTS
    Records,       \* ids the database hands out
    MaxStamp,      \* bound: createdAt in 0 .. MaxStamp
    DefaultLimit,  \* 20
    MaxLimit       \* 100

ASSUME ListingAssumption ==
    /\ IsFiniteSet(Records)
    /\ MaxStamp \in Nat
    /\ MaxLimit \in Nat \ {0}
    /\ DefaultLimit \in 1 .. MaxLimit

VARIABLES
    table,     \* the rows: their createdAt, -1 for none
    now,       \* the clock
    walk,      \* the client's walk, and the page it waits for
    disturbed  \* history: a row was deleted during the walk, or came between the
               \* two queries of a page

listingVars == <<table, now, walk, disturbed>>

-----------------------------------------------------------------------------
Present == {r \in Records : table[r] >= 0}

NoWalk == [pc |-> "idle", page |-> 1, limit |-> 1, found |-> {}, count |-> -1,
           had |-> {}, shown |-> {}]

\* Mutant: a limit that is not sent stays so.
NormalizePagingBare(page, limit) ==
    LET safePage  == IF page > 0 THEN page ELSE 1
        safeLimit == IF limit > MaxLimit THEN MaxLimit ELSE limit
    IN  [page |-> safePage, limit |-> safeLimit, skip |-> (safePage - 1) * safeLimit]

\* A page or limit that is not sent (0 here) gets its default, a limit its cap.
NormalizePaging(page, limit) ==
    LET safePage  == IF page > 0 THEN page ELSE 1
        safeLimit == IF limit = 0 THEN DefaultLimit
                     ELSE IF limit > MaxLimit THEN MaxLimit ELSE limit
    IN  [page |-> safePage, limit |-> safeLimit, skip |-> (safePage - 1) * safeLimit]

\* Mutant: the rows of a last page that is not full are not counted as a page.
TotalPagesFull(total, limit) == total \div limit

\* paginate: the number of pages, rounded up.
TotalPages(total, limit) == (total + limit - 1) \div limit

\* The rows newest first: one sequence for every order of equal stamps.
NewestFirst ==
    {rows \in [1 .. Cardinality(Present) -> Present] :
        \A i, j \in DOMAIN rows : i < j => /\ rows[i] # rows[j]
                                          /\ table[rows[i]] >= table[rows[j]]}

\* What the query may answer: `limit` rows, after the first `skip`.
FindAnswers(skip, limit) ==
    {{rows[i] : i \in DOMAIN rows \cap (skip + 1 .. skip + limit)} : rows \in NewestFirst}

-----------------------------------------------------------------------------
StartWalk(limit) ==
    /\ walk.pc = "idle"
    /\ walk' = [NoWalk EXCEPT !.pc = "query", !.had = Present,
                              !.limit = NormalizePaging(0, limit).limit]
    /\ disturbed' = FALSE
    /\ UNCHANGED <<table, now>>

\* The two queries of a page, in either order.
FindPage ==
    LET paging == NormalizePaging(walk.page, walk.limit)
    IN  /\ walk.pc \in {"query", "counted"}
        /\ \E rows \in FindAnswers(paging.skip, paging.limit) :
              walk' = [walk EXCEPT !.found = rows,
                                   !.pc = IF @ = "query" THEN "found" ELSE "answered"]
        /\ UNCHANGED <<table, now, disturbed>>

CountRows ==
    /\ walk.pc \in {"query", "found"}
    /\ walk' = [walk EXCEPT !.count = Cardinality(Present),
                            !.pc = IF @ = "query" THEN "counted" ELSE "answered"]
    /\ UNCHANGED <<table, now, disturbed>>

\* The client shows the page, and asks for the next one if there is one.
ReadPage ==
    /\ walk.pc = "answered"
    /\ walk' = [walk EXCEPT !.shown = @ \cup walk.found, !.found = {}, !.count = -1,
                            !.pc = IF walk.page < TotalPages(walk.count, walk.limit)
                                   THEN "query" ELSE "done",
                            !.page = @ + 1]
    /\ UNCHANGED <<table, now, disturbed>>

CloseWalk ==
    /\ walk.pc # "idle"
    /\ walk' = NoWalk
    /\ UNCHANGED <<table, now, disturbed>>

\* Rows come with the time of their insert, and go.
AddRecord(r) ==
    /\ table[r] < 0 /\ r \notin walk.had
    /\ table' = [table EXCEPT ![r] = now]
    /\ disturbed' = (disturbed \/ walk.pc \in {"found", "counted"})
    /\ UNCHANGED <<now, walk>>

RemoveRecord(r) ==
    /\ table[r] >= 0
    /\ table' = [table EXCEPT ![r] = -1]
    /\ disturbed' = TRUE
    /\ UNCHANGED <<now, walk>>

Tick ==
    /\ now < MaxStamp
    /\ now' = now + 1
    /\ UNCHANGED <<table, walk, disturbed>>

-----------------------------------------------------------------------------
ListingInit ==
    /\ table = [r \in Records |-> -1]
    /\ now = 0
    /\ walk = NoWalk
    /\ disturbed = FALSE

ListingNext ==
    \/ \E limit \in 0 .. MaxLimit : StartWalk(limit)
    \/ FindPage
    \/ CountRows
    \/ ReadPage
    \/ CloseWalk
    \/ \E r \in Records : AddRecord(r) \/ RemoveRecord(r)
    \/ Tick

ListingSpec == ListingInit /\ [][ListingNext]_listingVars

-----------------------------------------------------------------------------
(* Properties *)

\* The values the variables take.
ListingTypeOK ==
    /\ table \in [Records -> -1 .. MaxStamp]
    /\ now \in 0 .. MaxStamp
    /\ walk.pc \in {"idle", "query", "found", "counted", "answered", "done"}
    /\ walk.page \in Nat \ {0} /\ walk.limit \in 1 .. MaxLimit
    /\ walk.found \cup walk.had \cup walk.shown \subseteq Records
    /\ disturbed \in BOOLEAN

\* Walking a list to its last page shows every row that was there when the walk
\* began, however many are added meanwhile: they push rows to later pages, never
\* past the walk.  Not so when a row is deleted, when one comes between the two
\* queries of a page, or for rows of one millisecond (normalizePaging, paginate,
\* the repositories' findAndCount).
WalkShowsEveryRow ==
    walk.pc = "done" /\ ~disturbed =>
        \A r \in walk.had :
            \/ r \in walk.shown
            \/ \E q \in Records \ {r} : table[q] = table[r]

=============================================================================
