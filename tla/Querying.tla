------------------------------ MODULE Querying -------------------------------
(***************************************************************************)
(* A client that walks a listing page by page (GET of a resource,          *)
(* generators/routes.ts handleList) while others write the rows: in memory *)
(* over the array of rows (query/apply.ts), over a database with the       *)
(* clauses query/builder.ts makes of the request.                          *)
(*                                                                         *)
(* What a filter, the search, the scope of the requester, the parent of a  *)
(* nested route and a tombstone have in common is that they hide a row     *)
(* from this request.  The database is external: a cursor names a row of   *)
(* the table, hidden or not, and selects the rows that do not come before  *)
(* it; `skip` then drops the first row selected, whichever it is.          *)
(***************************************************************************)
EXTENDS Integers, FiniteSets

CONSTANTS None,
          Ids,            \* ids of rows: integers, for their order
          Keys,           \* values of the sorted field: integers
          RawLimits,      \* what ?limit= may say: an integer, None or a text
          Text,           \* a ?limit= that is no number
          DefaultLimit, MaxLimit,
          MaxWrites,      \* bound: writes by others during the walk
          MaxPages        \* bound: pages the client asks for

VARIABLES
    backing,    \* "memory" or "database"
    paging,     \* "cursor" or "offset"
    sorted,     \* does the request sort by the field?
    rawLimit,
    inserted,   \* per id: when it was inserted into the table, or None
    key,        \* per id: the value of the sorted field
    hidden,     \* the ids the request must not see
    cursor,     \* of the next page, or None
    page,       \* pages fetched so far
    walk,       \* "walking" or "ended"
    got,        \* per id: how often it was returned
    steady,     \* history: visible since the walk began and never edited
    astray,     \* history: the row held as the cursor, or any row of an offset walk, was written
    moved,      \* history: the row held as the cursor may have got another place in the listing
    writes

queryOwn == <<backing, paging, sorted, rawLimit, inserted, key, hidden, cursor, page, walk, got,
              steady, astray, moved, writes>>

QueryingAssumption ==
    /\ Ids \subseteq Nat /\ IsFiniteSet(Ids) /\ Keys \subseteq Int /\ None \notin Int
    /\ RawLimits \subseteq Int \cup {None, Text}
    /\ DefaultLimit \in Nat \ {0} /\ MaxLimit \in Nat \ {0}
    /\ MaxWrites \in Nat /\ MaxPages \in Nat

Table == {i \in Ids : inserted[i] # None}

\* The ways to number rows in the order they were inserted.
Numberings(rows) ==
    {at \in [rows -> 1 .. Cardinality(rows)] : \A i, j \in rows : at[i] = at[j] => i = j}

\* The order of insertion matters in memory only, and the field to a request that sorts.
Init ==
    /\ backing \in {"memory", "database"} /\ paging \in {"cursor", "offset"} /\ sorted \in BOOLEAN
    /\ rawLimit \in RawLimits
    /\ \E rows \in SUBSET Ids :
           \E at \in IF backing = "memory" THEN Numberings(rows) ELSE {[i \in rows |-> i]} :
               inserted = [i \in Ids |-> IF i \in rows THEN at[i] ELSE None]
    /\ key \in IF sorted THEN [Ids -> Keys] ELSE {[i \in Ids |-> k] : k \in Keys}
    /\ hidden = {}
    /\ cursor = None /\ page = 0 /\ walk = "walking"
    /\ got = [i \in Ids |-> 0]
    /\ steady = Table /\ astray = FALSE /\ moved = FALSE /\ writes = 0

(***************************************************************************)
(* The request.  A listing is a set of rows and the order between them.    *)
(***************************************************************************)
Limit ==
    IF rawLimit = None \/ rawLimit = Text THEN DefaultLimit
    ELSE IF rawLimit < 1 THEN 1 ELSE IF rawLimit > MaxLimit THEN MaxLimit ELSE rawLimit

\* What the request selects.
Selected == Table \ hidden

\* applySorts: the field, then the id.  Without a sort, memory lists in insertion order and
\* the database by id.
Before(i, j) ==
    IF sorted /\ key[i] # key[j] THEN key[i] < key[j]
    ELSE IF backing = "memory" /\ ~sorted THEN inserted[i] < inserted[j]
    ELSE i < j

\* The index, from 0, of a row in the listing.
Index(rows, i) == Cardinality({j \in rows : Before(j, i)})
Slice(rows, start, n) == {i \in rows : Index(rows, i) \in start .. start + n - 1}
Final(rows) == CHOOSE i \in rows : \A j \in rows \ {i} : Before(j, i)

AfterItself(i) == Index(Selected, i)  \* mutant: the page starts at the cursor's own row

After(i) == Index(Selected, i) + 1

\* applyPagination: a cursor that is not in the listing starts again at the first row.
MemoryPage ==
    LET start == IF cursor \in Selected THEN After(cursor) ELSE 0 IN
    [data |-> Slice(Selected, start, Limit), more |-> start + Limit < Cardinality(Selected)]

\* Keyset: anchored on the cursor's row, which is skipped, with one row more than the page
\* to know whether there is another.
Anchored(i) == cursor = None \/ (cursor \in Table /\ ~Before(i, cursor))
DatabasePage ==
    LET rows == {i \in Selected : Anchored(i)}
        skip == IF cursor = None THEN 0 ELSE 1
        fetched == Slice(rows, skip, Limit + 1)
        data == Slice(rows, skip, Limit) IN
    [data |-> data, more |-> fetched # data]

Count(rows, i) == IF i \in rows THEN 1 ELSE 0
Return(rows) == got' = [i \in Ids |-> got[i] + Count(rows, i)]

CursorPage ==
    LET result == IF backing = "memory" THEN MemoryPage ELSE DatabasePage IN
    /\ paging = "cursor" /\ walk = "walking" /\ page < MaxPages
    /\ Return(result.data)
    /\ IF result.more
       THEN cursor' = Final(result.data) /\ UNCHANGED walk
       ELSE walk' = "ended" /\ UNCHANGED cursor
    /\ page' = page + 1
    /\ UNCHANGED <<backing, paging, sorted, rawLimit, inserted, key, hidden>>
    /\ UNCHANGED <<steady, astray, moved, writes>>

\* totalPages by rounding up; the client goes on while hasNext.
TotalPages == (Cardinality(Selected) + Limit - 1) \div Limit

OffsetPage ==
    /\ paging = "offset" /\ walk = "walking" /\ page < MaxPages
    /\ Return(Slice(Selected, page * Limit, Limit))
    /\ page' = page + 1
    /\ walk' = IF page + 1 < TotalPages THEN "walking" ELSE "ended"
    /\ UNCHANGED <<backing, paging, sorted, rawLimit, inserted, key, hidden, cursor>>
    /\ UNCHANGED <<steady, astray, moved, writes>>

(***************************************************************************)
(* Others create, delete, edit, hide and show rows while the walk goes on. *)
(***************************************************************************)
Write(i) ==
    /\ walk = "walking" /\ page > 0 /\ writes < MaxWrites
    /\ writes' = writes + 1
    /\ astray' = (astray \/ paging = "offset" \/ i = cursor)
    /\ UNCHANGED <<backing, paging, sorted, rawLimit, cursor, page, walk, got>>

Moves(i) == moved' = (moved \/ i = cursor)

\* A new row comes last: the rows of the start are numbered up to Cardinality(Ids).
Create(i) ==
    /\ i \notin Table /\ inserted' = [inserted EXCEPT ![i] = Cardinality(Ids) + writes + 1]
    /\ Write(i) /\ Moves(i) /\ UNCHANGED <<key, hidden, steady>>

Delete(i) ==
    /\ i \in Table /\ inserted' = [inserted EXCEPT ![i] = None]
    /\ steady' = steady \ {i}
    /\ Write(i) /\ UNCHANGED <<key, hidden, moved>>

Edit(i) ==
    /\ i \in Table
    /\ \/ /\ \E k \in Keys \ {key[i]} : key' = [key EXCEPT ![i] = k]
          /\ Moves(i) /\ UNCHANGED hidden
       \/ hidden' = hidden \cup {i} /\ i \notin hidden /\ UNCHANGED <<key, moved>>
       \/ hidden' = hidden \ {i} /\ i \in hidden /\ UNCHANGED <<key, moved>>
    /\ steady' = steady \ {i}
    /\ Write(i) /\ UNCHANGED inserted

Next ==
    \/ CursorPage \/ OffsetPage
    \/ \E i \in Ids : Create(i) \/ Delete(i) \/ Edit(i)
-----------------------------------------------------------------------------
TypeOK ==
    /\ backing \in {"memory", "database"} /\ paging \in {"cursor", "offset"} /\ sorted \in BOOLEAN
    /\ rawLimit \in RawLimits /\ inserted \in [Ids -> Nat \cup {None}] /\ key \in [Ids -> Keys]
    /\ hidden \subseteq Ids /\ cursor \in Ids \cup {None} /\ page \in 0 .. MaxPages
    /\ walk \in {"walking", "ended"} /\ got \in [Ids -> 0 .. MaxPages]
    /\ steady \subseteq Ids /\ astray \in BOOLEAN /\ moved \in BOOLEAN /\ writes \in 0 .. MaxWrites

\* Whatever others write during the walk, a row that was there all along and that nobody
\* edited is returned exactly once by the time the walk ends.  Excepted are walks in which the
\* row the client held as its cursor was deleted, edited or hidden before the next page was
\* asked for, and walks by page number, which any write shifts.  In memory a walk whose cursor
\* was deleted or hidden starts again at the first row: it returns rows twice, but still
\* every one of them, unless the cursor's row was created anew or got another place.
WalkedOnce ==
    \A i \in steady :
        /\ ~astray => got[i] <= 1 /\ (walk = "ended" => got[i] = 1)
        /\ backing = "memory" /\ paging = "cursor" /\ ~moved /\ walk = "ended" => got[i] >= 1
=============================================================================
