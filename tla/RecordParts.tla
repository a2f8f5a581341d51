---------------------------- MODULE RecordParts -----------------------------
(***************************************************************************)
(* The parts of the server that read and write records: creation in the    *)
(* database, cascades of a user's deletion, listings, and the rules of     *)
(* access.  They share no state with each other in the code; a behaviour   *)
(* exercises the one that `part` names.                                    *)
(***************************************************************************)
EXTENDS ServerPart, Integers, FiniteSets, Sequences

CONSTANTS
    Stock, Related, Plans, Bodies, Initial, Rows, Links, Gone, RowIds, SortKeys,
    RawLimits, Text, DefaultLimit, MaxLimit, MaxWrites, MaxPages, Absent, Seeded, Values,
    PermBodies, Urls, Requesters, RuleSets, RoleNames, Roles, Parents, Hierarchies, Allowed

VARIABLES
    joinOnDelete, stock, held, records, joins, related, createPc, todo, body,
    plan, committed,   \* DatabaseRoutes
    store, userStore, onDelete, refs, given, touched, staged, user, step, link,   \* Cascades
    backing, paging, sorted, rawLimit, inserted, key, hidden, cursor, page, walk, got,
    steady, astray, moved, writes,   \* Querying
    mode, rules, inherits, required, allowed, rows, accessPc, req, scope, seen, everIn,
    by, last   \* Permissions

Database == INSTANCE DatabaseRoutes WITH onDelete <- joinOnDelete, pc <- createPc
Cascade == INSTANCE Cascades
Query == INSTANCE Querying WITH Ids <- RowIds, Keys <- SortKeys
Access == INSTANCE Permissions WITH Bodies <- PermBodies, pc <- accessPc

RecordAssumption ==
    /\ Database!DatabaseRoutesAssumption
    /\ Cascade!CascadesAssumption
    /\ Query!QueryingAssumption
    /\ Access!PermissionsAssumption

RecordPartNames == {"Database", "Cascade", "Query", "Access"}

\* The variables of each part.
DatabaseVars == <<joinOnDelete, stock, held, records, joins, related, createPc, todo,
    body, plan, committed>>
CascadeVars == <<store, userStore, onDelete, refs, given, touched, staged, user, step, link>>
QueryVars == <<backing, paging, sorted, rawLimit, inserted, key, hidden, cursor, page, walk,
    got, steady, astray, moved, writes>>
AccessVars == <<mode, rules, inherits, required, allowed, rows, accessPc, req, scope,
    seen, everIn, by, last>>

recordVars == <<part, DatabaseVars, CascadeVars, QueryVars, AccessVars>>

\* The variables of a part that is not exercised have no value.
DatabaseUnused ==
    /\ joinOnDelete = None /\ stock = None /\ held = None /\ records = None /\ joins = None
    /\ related = None /\ createPc = None /\ todo = None /\ body = None /\ plan = None
    /\ committed = None
CascadeUnused ==
    /\ store = None /\ userStore = None /\ onDelete = None /\ refs = None /\ given = None
    /\ touched = None /\ staged = None /\ user = None /\ step = None /\ link = None
QueryUnused ==
    /\ backing = None /\ paging = None /\ sorted = None /\ rawLimit = None /\ inserted = None
    /\ key = None /\ hidden = None /\ cursor = None /\ page = None /\ walk = None /\ got = None
    /\ steady = None /\ astray = None /\ moved = None /\ writes = None
AccessUnused ==
    /\ mode = None /\ rules = None /\ inherits = None /\ required = None /\ allowed = None
    /\ rows = None /\ accessPc = None /\ req = None /\ scope = None /\ seen = None
    /\ everIn = None /\ by = None /\ last = None

RecordInit ==
    /\ IF part = "Database" THEN Database!Init ELSE DatabaseUnused
    /\ IF part = "Cascade" THEN Cascade!Init ELSE CascadeUnused
    /\ IF part = "Query" THEN Query!Init ELSE QueryUnused
    /\ IF part = "Access" THEN Access!Init ELSE AccessUnused

RecordNext ==
    /\ UNCHANGED part
    /\ \/ part = "Database" /\ Database!Next /\ UNCHANGED <<CascadeVars, QueryVars, AccessVars>>
       \/ part = "Cascade" /\ Cascade!Next /\ UNCHANGED <<DatabaseVars, QueryVars, AccessVars>>
       \/ part = "Query" /\ Query!Next /\ UNCHANGED <<DatabaseVars, CascadeVars, AccessVars>>
       \/ part = "Access" /\ Access!Next /\ UNCHANGED <<DatabaseVars, CascadeVars, QueryVars>>

RecordSpec == RecordInit /\ [][RecordNext]_recordVars
-----------------------------------------------------------------------------
RecordTypeOK ==
    /\ part = "Database" => Database!TypeOK
    /\ part = "Cascade" => Cascade!TypeOK
    /\ part = "Query" => Query!TypeOK
    /\ part = "Access" => Access!TypeOK

\* Nothing is sold twice: a stock row has lost exactly one unit per committed transaction
\* that decremented it, and never more than it had, whatever order the requests declare
\* their operations in, whoever is aborted and whoever stops.
StockAccounted == part = "Database" => Database!StockAccounted

\* A request takes all the stock of its transaction or none of it, and a record exists only
\* if it took all.  It takes stock and has no record only while it is about to create it, or
\* because it stopped before it did, because the database refused the record afterwards, or
\* because a nested item was refused and the record undone; join rows have both their ends.
RecordsPaid == part = "Database" => Database!RecordsPaid

\* A user is deleted with everything the policies of its children ask for, or not at all:
\* while it is there, rows nobody else wrote are as they were; once it is gone, no row of the
\* database refers to it, and in memory only rows written by others or by a relation without
\* a policy do.  With resources in memory and users in a database the children go first: the
\* user outlives them until its own deletion, and for good if that fails.
CascadeAllOrNothing == part = "Cascade" => Cascade!CascadeAllOrNothing

\* Whatever others write during the walk, a row that was there all along and that nobody
\* edited is returned exactly once by the time the walk ends.  Excepted are walks in which the
\* row the client held as its cursor was deleted, edited or hidden before the next page was
\* asked for: in memory such a walk starts again at the first row, over a database it loses
\* rows; and walks by page number, which any write shifts.
WalkedOnce == part = "Query" => Query!WalkedOnce

\* A requester with a scope only ever writes rows that were in that scope at some time, and
\* leaves each of them in its scope (or deleted), whatever the body and the URL say and
\* whatever others write between its read and its write.
ScopeKept == part = "Access" => Access!ScopeKept

\* The roles a role stands for are those its inheritance leads to, through any cycle.
RolesExact == part = "Access" => Access!RolesExact
=============================================================================
