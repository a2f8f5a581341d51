------------------------- MODULE MemoryResourceRoutes -------------------------
(***************************************************************************)
(* The generated CRUD handlers (src/generators/routes.ts) over the memory  *)
(* store (store/resource-store.ts), with declarative transactions          *)
(* (transactions/executor.ts) and state machines (state/state-machine.ts). *)
(*                                                                         *)
(* The rows are those of one resource, say Product.  PUT and DELETE act on *)
(* it; POST creates a record of another resource, say Order, and runs a    *)
(* transaction over products first.  Handlers interleave at every await.   *)
(***************************************************************************)
EXTENDS Integers, Sequences, FiniteSets, Functions

CONSTANTS Requests,     \* HTTP requests
          Products,     \* ids of the rows that exist at the start
          InitialStock, \* their stock
          Initial,      \* the state machine's initial state
          Transitions,  \* its transitions: [from, to, roles]; no roles means any
          Bodies,       \* the requests clients may send: [kind, id, to, role, ops]
          TxVerbs,      \* the verbs the spec declares a transaction for
          SoftDelete,   \* does the resource declare softDelete?
          Unset,        \* the `to` of a PUT whose body leaves the state field out
          NoRow

VARIABLES
    mounted,  \* the Map the CRUD handlers captured when the routes were mounted
    live,     \* the Map the DataStore holds: transactions, hooks and relations use it
    split,    \* have the two become different Map objects?
    orders,   \* the records POST created
    pc,       \* where each handler is
    req,      \* its request
    existing, \* the row a PUT or DELETE read
    step,     \* operations of the transaction executed so far
    snapshot, \* what a rollback restores
    txQueue,  \* txLocks: the promise chain of withStoreLock
    result    \* the answer

storeVars == <<mounted, live, split>>
txVars    == <<step, snapshot, txQueue>>
vars == <<storeVars, orders, pc, req, existing, txVars, result>>

Ids  == Products \cup Requests  \* a row a transaction creates has its request's id
Verbs == {"POST", "PUT", "DELETE"}
Row(phase, stock, deleted) == [phase |-> phase, stock |-> stock, deleted |-> deleted]

\* An operation as the spec declares it.  Only a decrement compares its amount with
\* what is left: an increment's must be declared so that the body cannot make it
\* negative (a literal, or a field with a minimum).
IsOperation(op) ==
    /\ op.action \in {"create", "update", "delete", "increment", "decrement"}
    /\ op.id \in Products
    /\ op.amount \in Int
    /\ op.action \in {"create", "increment"} => op.amount \in Nat

ASSUME RoutesAssumption ==
    /\ Products \cap Requests = {}
    /\ IsFiniteSet(Requests)
    /\ InitialStock \in Nat
    /\ TxVerbs \subseteq Verbs
    /\ SoftDelete \in BOOLEAN
    /\ \A b \in Bodies :
           /\ b.kind \in Verbs /\ b.id \in Products
           /\ Len(b.ops) \in Nat \ {0} /\ DOMAIN b.ops = 1..Len(b.ops)
           /\ \A k \in DOMAIN b.ops : IsOperation(b.ops[k])

Init ==
    /\ live = [i \in Ids |-> IF i \in Products THEN Row(Initial, InitialStock, FALSE) ELSE NoRow]
    /\ mounted = live
    /\ split = FALSE
    /\ orders = {}
    /\ pc = [r \in Requests |-> "new"]
    /\ req \in [Requests -> Bodies]
    /\ existing = [r \in Requests |-> NoRow]
    /\ step = [r \in Requests |-> 0]
    /\ snapshot = live
    /\ txQueue = <<>>
    /\ result = [r \in Requests |-> "none"]

(***************************************************************************)
(* A write through one of the two references; while both name one Map, it  *)
(* is seen through the other.                                              *)
(***************************************************************************)
SetMounted(rows) == mounted' = rows /\ live' = (IF split THEN live ELSE rows) /\ UNCHANGED split
SetLive(rows)    == live' = rows /\ mounted' = (IF split THEN mounted ELSE rows) /\ UNCHANGED split

Answer(r, a) ==
    /\ pc' = [pc EXCEPT ![r] = "done"]
    /\ result' = [result EXCEPT ![r] = a]

Goto(r, label) == pc' = [pc EXCEPT ![r] = label] /\ UNCHANGED result

(***************************************************************************)
(* checkTransition(sm, from, to, role)                                     *)
(***************************************************************************)
\* mutant: the roles of a transition are not looked at
CheckTransitionOnly(from, to, role) ==
    from = to \/ \E t \in Transitions : t.from = from /\ t.to = to

CheckTransition(from, to, role) ==
    \/ from = to
    \/ \E t \in Transitions :
           t.from = from /\ t.to = to /\ (t.roles = {} \/ role \in t.roles)

\* The phase a PUT writes: the one asked for, or else the one read.
PhaseAfter(r) == IF req[r].to = Unset THEN existing[r].phase ELSE req[r].to

(***************************************************************************)
(* The handlers up to their transaction.  handleUpdate and handleDelete    *)
(* read the row first and answer 404 when it is missing or a tombstone.    *)
(***************************************************************************)
Visible(row) == row # NoRow /\ ~(SoftDelete /\ row.deleted)

ReadExisting(r) ==
    LET row == mounted[req[r].id] IN
    /\ pc[r] = "new" /\ req[r].kind # "POST"
    /\ IF Visible(row)
       THEN existing' = [existing EXCEPT ![r] = row] /\ Goto(r, "read")
       ELSE Answer(r, "rejected") /\ UNCHANGED existing
    /\ UNCHANGED <<storeVars, orders, req, txVars>>

\* The body is read and, on PUT, the transition is checked against the row read
\* before; then the handler joins the transaction queue or goes on to its write.
Prepare(r) ==
    /\ pc[r] = IF req[r].kind = "POST" THEN "new" ELSE "read"
    /\ IF req[r].kind = "PUT" /\ ~CheckTransition(existing[r].phase, PhaseAfter(r), req[r].role)
       THEN Answer(r, "rejected") /\ UNCHANGED txQueue
       ELSE IF req[r].kind \in TxVerbs
            THEN txQueue' = Append(txQueue, r) /\ Goto(r, "queued")
            ELSE Goto(r, "write") /\ UNCHANGED txQueue
    /\ UNCHANGED <<storeVars, orders, req, existing, step, snapshot>>

(***************************************************************************)
(* executeOperation: one operation of the transaction.                     *)
(***************************************************************************)
OpFailsOnMissing(op) == op.action # "create" /\ live[op.id] = NoRow  \* mutant: no guard on the stock

OpFails(op) ==
    /\ op.action # "create"
    /\ \/ live[op.id] = NoRow
       \/ op.action = "decrement" /\ live[op.id].stock < op.amount

OpEffect(r, op) ==
    CASE op.action = "create"    -> [live EXCEPT ![r] = Row(op.to, op.amount, FALSE)]
      [] op.action = "update"    -> [live EXCEPT ![op.id].phase = op.to]
      [] op.action = "delete"    -> [live EXCEPT ![op.id] = NoRow]
      [] op.action = "increment" -> [live EXCEPT ![op.id].stock = @ + op.amount]
      [] op.action = "decrement" -> [live EXCEPT ![op.id].stock = @ - op.amount]

\* mutant: a transaction that failed keeps the lock
ReleaseOnSuccess(r) == txQueue' = IF pc[r] = "failing" THEN txQueue ELSE Tail(txQueue)

Release(r) == txQueue' = Tail(txQueue)

\* The transaction at the head of the queue holds the lock.  It takes its snapshot
\* together with its first operation, and awaits between operations.
HoldsNoLock(r) == txQueue # <<>>  \* mutant: transactions do not wait for each other

HoldsLock(r) == txQueue # <<>> /\ Head(txQueue) = r

ExecuteOperation(r) ==
    LET op == req[r].ops[step[r] + 1] IN
    /\ pc[r] \in {"queued", "running"} /\ HoldsLock(r)
    /\ snapshot' = IF pc[r] = "queued" THEN live ELSE snapshot
    /\ IF OpFails(op)
       THEN Goto(r, "failing") /\ UNCHANGED <<storeVars, step, txQueue>>
       ELSE /\ SetLive(OpEffect(r, op))
            /\ step' = [step EXCEPT ![r] = @ + 1]
            /\ IF step'[r] < Len(req[r].ops)
               THEN Goto(r, "running") /\ UNCHANGED txQueue
               ELSE Goto(r, "write") /\ Release(r)
    /\ UNCHANGED <<orders, req, existing>>

\* The rollback puts the copy taken as the snapshot in place of the Map, so the
\* handlers keep the Map they captured, with whatever the transaction did to it.
Rollback(r) ==
    /\ pc[r] = "failing"
    /\ live' = snapshot
    /\ split' = TRUE
    /\ Release(r)
    /\ Answer(r, "rejected")
    /\ UNCHANGED <<mounted, orders, req, existing, step, snapshot>>

(***************************************************************************)
(* The handlers' own write.  PUT and soft DELETE store the row they read,  *)
(* with their change, whatever the store holds by then.                    *)
(***************************************************************************)
RowAfter(r) ==
    IF req[r].kind = "PUT" THEN [existing[r] EXCEPT !.phase = PhaseAfter(r)]
    ELSE IF SoftDelete THEN [existing[r] EXCEPT !.deleted = TRUE]
    ELSE NoRow

CreateRecord(r) ==
    /\ pc[r] = "write" /\ req[r].kind = "POST"
    /\ orders' = orders \cup {r}
    /\ Answer(r, "ok")
    /\ UNCHANGED <<storeVars, req, existing, txVars>>

WriteRow(r) ==
    /\ pc[r] = "write" /\ req[r].kind # "POST"
    /\ SetMounted([mounted EXCEPT ![req[r].id] = RowAfter(r)])
    /\ Answer(r, "ok")
    /\ UNCHANGED <<orders, req, existing, txVars>>

Handle(r) ==
    \/ ReadExisting(r) \/ Prepare(r)
    \/ ExecuteOperation(r) \/ Rollback(r)
    \/ CreateRecord(r) \/ WriteRow(r)

Next == \E r \in Requests : Handle(r)

Spec == Init /\ [][Next]_vars

\* The event loop runs every callback that is ready.
FairSpec == Spec /\ \A r \in Requests : WF_vars(Handle(r))

-----------------------------------------------------------------------------
\* The initial state, those a transition leads to, and those a transaction writes.
StatesWritten ==
    {Initial} \cup {t.to : t \in Transitions}
              \cup UNION {{b.ops[k].to : k \in DOMAIN b.ops} : b \in Bodies}

\* stock is a natural number: no decrement takes it below zero.
RowType == [phase : StatesWritten, stock : Nat, deleted : BOOLEAN] \cup {NoRow}

TypeOK ==
    /\ mounted \in [Ids -> RowType] /\ live \in [Ids -> RowType]
    /\ split \in BOOLEAN
    /\ orders \subseteq Requests
    /\ pc \in [Requests -> {"new", "read", "queued", "running", "failing", "write", "done"}]
    /\ req \in [Requests -> Bodies]
    /\ existing \in [Requests -> RowType]
    /\ step \in [Requests -> Nat]
    /\ snapshot \in [Ids -> RowType]
    /\ txQueue \in Seq(Requests)
    /\ result \in [Requests -> {"none", "ok", "rejected"}]

\* The transaction of r ran to its end.
Committed(r) ==
    /\ req[r].kind \in TxVerbs
    /\ step[r] = Len(req[r].ops)

\* What operation k of r's transaction adds to the stock of i.
Delta(r, k, i) ==
    LET op == req[r].ops[k] IN
    IF op.id # i THEN 0
    ELSE CASE op.action = "increment" -> op.amount
           [] op.action = "decrement" -> 0 - op.amount
           [] OTHER -> 0

\* What the transaction of r adds to the stock of i.
Effect(r, i) == SumFunction([k \in DOMAIN req[r].ops |-> Delta(r, k, i)])

ExpectedStock(i) ==
    InitialStock
        + SumFunctionOnSet([r \in Requests |-> Effect(r, i)], {r \in Requests : Committed(r)})

\* Requests that write the row otherwise than by adding to its stock.
Overwrites(r, i) ==
    \/ req[r].kind # "POST" /\ req[r].id = i
    \/ \E k \in DOMAIN req[r].ops : req[r].ops[k].id = i /\ req[r].ops[k].action = "delete"

CountedOnly(i) == \A r \in Requests : ~Overwrites(r, i)

\* Whenever no transaction runs, the stock the next one will see is the initial
\* stock and the effect of exactly the transactions that committed: none is lost to
\* another's rollback and no failed one leaves a trace.
TransactionsAtomic ==
    txQueue = <<>> =>
        \A i \in Products : CountedOnly(i) => live[i].stock = ExpectedStock(i)

\* A failed transaction is rolled back for the clients too: the stock a GET shows
\* is what the committed transactions made it.
RollbackVisible ==
    txQueue = <<>> =>
        \A i \in Products : CountedOnly(i) => mounted[i].stock = ExpectedStock(i)

\* A state every way into which needs a role is entered only by a request of
\* such a role, or by a transaction the spec declares.
MayEnter(r, i, phase) ==
    \/ /\ req[r].kind = "PUT" /\ req[r].id = i /\ req[r].to = phase
       /\ \E t \in Transitions : t.to = phase /\ (t.roles = {} \/ req[r].role \in t.roles)
    \/ \E k \in DOMAIN req[r].ops : req[r].ops[k].action = "update" /\ req[r].ops[k].to = phase

RoleGated ==
    \A i \in Products :
        mounted[i] # NoRow /\ mounted[i].phase # Initial
            => \E r \in Requests : MayEnter(r, i, mounted[i].phase)

\* A row moves only along the declared transitions.
TransitionsRespected ==
    [][\A i \in Products :
          mounted[i] # NoRow /\ mounted'[i] # NoRow /\ mounted'[i].phase # mounted[i].phase
              => \E t \in Transitions : t.from = mounted[i].phase /\ t.to = mounted'[i].phase]_vars

\* Every request is answered: a transaction that fails lets the next one start.
EveryRequestAnswered == \A r \in Requests : <>(pc[r] = "done")
=============================================================================
