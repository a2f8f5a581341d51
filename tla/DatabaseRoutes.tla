--------------------------- MODULE DatabaseRoutes ----------------------------
(***************************************************************************)
(* POST of a resource in database mode (generators/routes.ts): the guarded *)
(* decrements of its transaction (transactions/prisma-executor.ts), the    *)
(* record that is created after the transaction committed, the join rows   *)
(* of its nested relation (relations/index.ts), and the deletion that      *)
(* should undo the record (store/prisma-resource-store.ts).                *)
(*                                                                         *)
(* The database is external: it locks a row until the transaction that     *)
(* wrote it ends, evaluates a guard on the row it then finds, aborts a     *)
(* transaction that would wait forever, and keeps foreign keys.            *)
(***************************************************************************)
EXTENDS Integers, FiniteSets, Sequences

CONSTANTS Requests, None,
          Stock,      \* the rows the transaction decrements
          Related,    \* the rows nested items refer to
          Plans,      \* the orders in which a transaction's operations are declared
          Bodies,     \* the nested items of a body: sequences of related rows
          Initial     \* what each stock row holds at first

VARIABLES
    onDelete,   \* of the join model: "Restrict" (the default) or "Cascade"
    stock,      \* committed value of each stock row
    held,       \* the transaction that has written each stock row, or None
    records,    \* the created records, each named by its request
    joins,      \* the join rows: <<record, related>>
    related,    \* the related rows that exist
    pc,         \* per request
    todo,       \* per request: operations, then nested items, still to do
    body,       \* per request: its nested items
    plan,       \* history: per request, the operations its transaction was given
    committed   \* history: per request, the rows its committed transaction decremented

dbOwn == <<onDelete, stock, held, records, joins, related, pc, todo, body, plan, committed>>

\* A declared transaction decrements something, and no row twice.
DatabaseRoutesAssumption ==
    /\ Plans \subseteq Seq(Stock) /\ Bodies \subseteq Seq(Related)
    /\ \A ops \in Plans : ops # <<>> /\ \A i, j \in DOMAIN ops : ops[i] = ops[j] => i = j
    /\ Initial \in Nat /\ None \notin Requests /\ IsFiniteSet(Requests)

Init ==
    /\ onDelete \in {"Restrict", "Cascade"}
    /\ stock = [s \in Stock |-> Initial]
    /\ held = [s \in Stock |-> None]
    /\ records = {} /\ joins = {} /\ related = Related
    /\ pc = [r \in Requests |-> "new"]
    /\ todo = [r \in Requests |-> <<>>]
    /\ body = [r \in Requests |-> <<>>]
    /\ plan = [r \in Requests |-> <<>>]
    /\ committed = [r \in Requests |-> {}]

Goto(r, label) == pc' = [pc EXCEPT ![r] = label]

\* The rows r's transaction has written, and lets go of.
Written(r) == {s \in Stock : held[s] = r}
Released(r) == [s \in Stock |-> IF held[s] = r THEN None ELSE held[s]]

Begin(r) ==
    /\ pc[r] = "new"
    /\ \E ops \in Plans, items \in Bodies :
           /\ todo' = [todo EXCEPT ![r] = ops] /\ plan' = [plan EXCEPT ![r] = ops]
           /\ body' = [body EXCEPT ![r] = items]
    /\ Goto(r, "tx")
    /\ UNCHANGED <<onDelete, stock, held, records, joins, related, committed>>

\* mutant: the handler does not look at the transaction's verdict
RollbackUnseen(r) == held' = Released(r) /\ Goto(r, "create")

Rollback(r) == held' = Released(r) /\ Goto(r, "409")

EnoughUnguarded(s) == TRUE  \* mutant: the row is decremented without `gte`

Enough(s) == stock[s] >= 1

\* updateMany: guard and decrement in one statement, once the row is free.
Decrement(r) ==
    LET s == Head(todo[r]) IN
    /\ pc[r] = "tx" /\ todo[r] # <<>> /\ held[s] = None
    /\ IF Enough(s)
       THEN /\ held' = [held EXCEPT ![s] = r]
            /\ todo' = [todo EXCEPT ![r] = Tail(@)]
            /\ UNCHANGED pc
       ELSE Rollback(r) /\ UNCHANGED todo
    /\ UNCHANGED <<onDelete, stock, records, joins, related, body, plan, committed>>

Waits(r, q) == pc[r] = "tx" /\ todo[r] # <<>> /\ held[Head(todo[r])] = q

\* Two transactions that wait for each other: the database aborts one.
AbortDeadlocked(r) ==
    /\ \E q \in Requests : Waits(r, q) /\ Waits(q, r)
    /\ Rollback(r)
    /\ UNCHANGED <<onDelete, stock, records, joins, related, todo, body, plan, committed>>

Commit(r) ==
    /\ pc[r] = "tx" /\ todo[r] = <<>>
    /\ stock' = [s \in Stock |-> IF held[s] = r THEN stock[s] - 1 ELSE stock[s]]
    /\ committed' = [committed EXCEPT ![r] = Written(r)]
    /\ held' = Released(r)
    /\ Goto(r, "create")
    /\ UNCHANGED <<onDelete, records, joins, related, todo, body, plan>>

\* resourceStore.create, outside the transaction: a unique column or a foreign key may refuse
\* the row, and nothing in the handler catches that.
CreateRecord(r) ==
    /\ pc[r] = "create"
    /\ \/ /\ records' = records \cup {r}
          /\ todo' = [todo EXCEPT ![r] = body[r]]
          /\ Goto(r, "find")
       \/ UNCHANGED <<records, todo>> /\ Goto(r, "500")
    /\ UNCHANGED <<onDelete, stock, held, joins, related, body, plan, committed>>

\* persistNestedRelationsPrisma, item by item: is the related row there?
FindRelated(r) ==
    /\ pc[r] = "find"
    /\ Goto(r, IF todo[r] = <<>> THEN "201"
               ELSE IF Head(todo[r]) \in related THEN "join" ELSE "undo")
    /\ UNCHANGED <<onDelete, stock, held, records, joins, related, todo, body, plan, committed>>

\* The join row needs both ends and a key of its own.
CreateJoin(r) ==
    LET row == <<r, Head(todo[r])>> IN
    /\ pc[r] = "join"
    /\ IF row[2] \in related /\ row \notin joins
       THEN joins' = joins \cup {row} /\ todo' = [todo EXCEPT ![r] = Tail(@)] /\ Goto(r, "find")
       ELSE Goto(r, "undo") /\ UNCHANGED <<joins, todo>>
    /\ UNCHANGED <<onDelete, stock, held, records, related, body, plan, committed>>

LeftJoins(r) == {j \in joins : j[1] # r}

\* delete() answers false when the database refuses, and the handler does not look.
UndoRecord(r) ==
    /\ pc[r] = "undo"
    /\ IF onDelete = "Restrict" /\ LeftJoins(r) # joins
       THEN UNCHANGED <<records, joins>>
       ELSE records' = records \ {r} /\ joins' = LeftJoins(r)
    /\ Goto(r, "409")
    /\ UNCHANGED <<onDelete, stock, held, related, todo, body, plan, committed>>

\* The process stops: what the database has not committed is rolled back.
Stop(r) ==
    /\ pc[r] \in {"tx", "create", "find", "join", "undo"}
    /\ held' = Released(r)
    /\ Goto(r, "stopped")
    /\ UNCHANGED <<onDelete, stock, records, joins, related, todo, body, plan, committed>>

\* Somebody deletes a related row; the database may refuse.
DeleteRelated ==
    /\ \E x \in related :
           LET bound == {j \in joins : j[2] = x} IN
           /\ bound = {} \/ onDelete = "Cascade"
           /\ related' = related \ {x}
           /\ joins' = joins \ bound
    /\ UNCHANGED <<onDelete, stock, held, records, pc, todo, body, plan, committed>>

Next ==
    \/ DeleteRelated
    \/ \E r \in Requests :
          \/ Begin(r) \/ Decrement(r) \/ AbortDeadlocked(r) \/ Commit(r)
          \/ CreateRecord(r) \/ FindRelated(r) \/ CreateJoin(r) \/ UndoRecord(r) \/ Stop(r)

Spec == Init /\ [][Next]_dbOwn
-----------------------------------------------------------------------------
TypeOK ==
    /\ onDelete \in {"Restrict", "Cascade"}
    /\ stock \in [Stock -> Int]
    /\ held \in [Stock -> Requests \cup {None}]
    /\ records \subseteq Requests /\ joins \subseteq Requests \X Related /\ related \subseteq Related
    /\ pc \in [Requests -> {"new", "tx", "create", "find", "join", "undo", "201", "409", "500",
                         "stopped"}]
    /\ todo \in [Requests -> Seq(Stock) \cup Seq(Related)] /\ body \in [Requests -> Seq(Related)]
    /\ plan \in [Requests -> Seq(Stock)]
    /\ committed \in [Requests -> SUBSET Stock]

\* Nothing is sold twice: a stock row has lost exactly one unit per committed transaction
\* that decremented it, and never more than it had, whatever order the requests declare
\* their operations in, whoever is aborted and whoever stops.
StockAccounted ==
    \A s \in Stock :
        /\ stock[s] >= 0
        /\ stock[s] = Initial - Cardinality({r \in Requests : s \in committed[r]})

\* What the transaction of a request was to take.
Asked(r) == {plan[r][i] : i \in DOMAIN plan[r]}

\* A request takes all the stock of its transaction or none of it, and a record exists only
\* if it took all.  It takes stock and has no record only while it is about to create it, or
\* because it stopped before it did, because the database refused the record afterwards, or
\* because a nested item was refused and the record undone; join rows have both their ends.
RecordsPaid ==
    /\ \A r \in Requests : committed[r] \in {{}, Asked(r)}
    /\ \A r \in records : committed[r] = Asked(r) /\ Asked(r) # {}
    /\ \A r \in Requests :
           committed[r] # {} /\ r \notin records =>
               pc[r] \in {"create", "500", "stopped"} \/ (pc[r] = "409" /\ body[r] # <<>>)
    /\ \A j \in joins : j[1] \in records /\ j[2] \in related
=============================================================================
