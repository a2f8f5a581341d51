---------------------- MODULE MemoryResourceRoutes_proofs ----------------------
(***************************************************************************)
(* Proofs about the CRUD handlers over the memory store, for any number of *)
(* requests and rows, any state machine and any declared transactions.     *)
(***************************************************************************)
EXTENDS MemoryResourceRoutes, FiniteSetTheorems, SequenceTheorems, TLAPS

-----------------------------------------------------------------------------
(***************************************************************************)
(* Type correctness.  What a handler writes back is the row it read, so    *)
(* the types need that it read one, that a PUT was checked before it got   *)
(* any further, that a transaction that goes on has operations left, and   *)
(* that one that is under way is at the head of the queue.                 *)
(***************************************************************************)
Records == [phase : StatesWritten, stock : Nat, deleted : BOOLEAN]

Checked == {"queued", "running", "failing", "write"}

RowWasRead ==
    \A r \in Requests :
        req[r].kind # "POST" /\ pc[r] \in Checked \cup {"read"}
            => existing[r] \in Records \ {NoRow}

PutWasChecked ==
    \A r \in Requests :
        req[r].kind = "PUT" /\ pc[r] \in Checked
            => CheckTransition(existing[r].phase, PhaseAfter(r), req[r].role)

OperationsLeft ==
    \A r \in Requests :
        pc[r] \in {"new", "read", "queued", "running"} => step[r] < Len(req[r].ops)

LockHeld == \A r \in Requests : pc[r] \in {"running", "failing"} => HoldsLock(r)

TypeInv == TypeOK /\ RowWasRead /\ PutWasChecked /\ OperationsLeft /\ LockHeld

\* The queue of transactions is joined at its end.
LEMMA JoinQueue ==
    ASSUME NEW S, NEW queue \in Seq(S), NEW r \in S
    PROVE  /\ Append(queue, r) \in Seq(S) /\ Append(queue, r) # <<>>
           /\ queue # <<>> => Head(Append(queue, r)) = Head(queue)
BY AppendProperties

\* What the assumptions say of a request.
LEMMA RequestBody ==
    ASSUME TypeInv, NEW r \in Requests
    PROVE  /\ req[r] \in Bodies /\ req[r].kind \in Verbs
           /\ req[r].id \in Products /\ req[r].id \in Ids
           /\ Len(req[r].ops) \in Nat \ {0}
           /\ \A k \in 1..Len(req[r].ops) :
                  IsOperation(req[r].ops[k]) /\ req[r].ops[k].to \in StatesWritten
<1>1. req[r] \in Bodies
  BY DEF TypeInv, TypeOK
<1>2. /\ req[r].kind \in Verbs /\ req[r].id \in Products
      /\ Len(req[r].ops) \in Nat \ {0} /\ DOMAIN req[r].ops = 1..Len(req[r].ops)
      /\ \A k \in DOMAIN req[r].ops : IsOperation(req[r].ops[k])
  BY <1>1, RoutesAssumption
<1>3. \A k \in DOMAIN req[r].ops : req[r].ops[k].to \in StatesWritten
  BY <1>1 DEF StatesWritten
<1> QED
  BY <1>1, <1>2, <1>3 DEF Ids

\* An operation that does not fail leaves rows.
LEMMA OpEffectType ==
    ASSUME TypeInv, NEW r \in Requests, NEW op, IsOperation(op), op.to \in StatesWritten,
           ~OpFails(op)
    PROVE  OpEffect(r, op) \in [Ids -> RowType]
<1>1. live \in [Ids -> RowType] /\ op.id \in Ids /\ r \in Ids
  BY DEF TypeInv, TypeOK, IsOperation, Ids
<1>2. op.action # "create" => live[op.id] \in Records
  BY <1>1 DEF OpFails, RowType, Records
<1>3. CASE op.action = "create"
  <2>1. Row(op.to, op.amount, FALSE) \in RowType
    BY <1>3 DEF IsOperation, Row, RowType
  <2> QED
    BY <1>1, <1>3, <2>1 DEF OpEffect
<1>4. CASE op.action = "update"
  <2>1. [live[op.id] EXCEPT !.phase = op.to] \in RowType
    BY <1>2, <1>4 DEF Records, RowType
  <2>2. OpEffect(r, op) = [live EXCEPT ![op.id] = [live[op.id] EXCEPT !.phase = op.to]]
    BY <1>4 DEF OpEffect
  <2> QED
    BY <1>1, <2>1, <2>2
<1>5. CASE op.action = "delete"
  BY <1>1, <1>5 DEF OpEffect, RowType
<1>6. CASE op.action = "increment"
  <2>1. [live[op.id] EXCEPT !.stock = @ + op.amount] \in RowType
    BY <1>2, <1>6 DEF Records, RowType, IsOperation
  <2>2. OpEffect(r, op) = [live EXCEPT ![op.id] = [live[op.id] EXCEPT !.stock = @ + op.amount]]
    BY <1>6 DEF OpEffect
  <2> QED
    BY <1>1, <2>1, <2>2
<1>7. CASE op.action = "decrement"
  <2>1. live[op.id].stock - op.amount \in Nat
    BY <1>2, <1>7 DEF OpFails, Records, IsOperation
  <2>2. [live[op.id] EXCEPT !.stock = @ - op.amount] \in RowType
    BY <1>2, <1>7, <2>1 DEF Records, RowType
  <2>3. OpEffect(r, op) = [live EXCEPT ![op.id] = [live[op.id] EXCEPT !.stock = @ - op.amount]]
    BY <1>7 DEF OpEffect
  <2> QED
    BY <1>1, <2>2, <2>3
<1> QED
  BY <1>3, <1>4, <1>5, <1>6, <1>7 DEF IsOperation

\* The row a handler writes is the one it read, with its change.
LEMMA RowAfterType ==
    ASSUME TypeInv, NEW r \in Requests, pc[r] = "write", req[r].kind # "POST"
    PROVE  RowAfter(r) \in RowType
<1>1. existing[r] \in Records
  BY DEF TypeInv, RowWasRead, Checked
<1>2. CASE req[r].kind = "PUT"
  <2>1. CheckTransition(existing[r].phase, PhaseAfter(r), req[r].role)
    BY <1>2 DEF TypeInv, PutWasChecked, Checked
  <2>2. PhaseAfter(r) \in StatesWritten
    BY <1>1, <2>1 DEF CheckTransition, Records, StatesWritten
  <2> QED
    BY <1>1, <1>2, <2>2 DEF RowAfter, Records, RowType
<1>3. CASE req[r].kind # "PUT"
  BY <1>1, <1>3 DEF RowAfter, Records, RowType
<1> QED
  BY <1>2, <1>3

\* The parts of the type invariant that follow from a handler's own step.
LEMMA OthersStay ==
    ASSUME TypeInv, NEW r \in Requests,
           UNCHANGED req,
           \A q \in Requests \ {r} :
               pc'[q] = pc[q] /\ existing'[q] = existing[q] /\ step'[q] = step[q],
           req[r].kind # "POST" /\ pc'[r] \in Checked \cup {"read"}
               => existing'[r] \in Records \ {NoRow},
           req[r].kind = "PUT" /\ pc'[r] \in Checked
               => CheckTransition(existing'[r].phase, PhaseAfter(r)', req[r].role),
           pc'[r] \in {"new", "read", "queued", "running"} => step'[r] < Len(req[r].ops)
    PROVE  RowWasRead' /\ PutWasChecked' /\ OperationsLeft'
<1>1. RowWasRead'
  BY DEF TypeInv, RowWasRead
<1>2. PutWasChecked'
  <2>1. ASSUME NEW q \in Requests, req'[q].kind = "PUT", pc'[q] \in Checked
        PROVE  CheckTransition(existing'[q].phase, PhaseAfter(q)', req'[q].role)
    <3>1. CASE q = r
      BY <2>1, <3>1
    <3>2. CASE q # r
      <4>1. CheckTransition(existing[q].phase, PhaseAfter(q), req[q].role)
        BY <2>1, <3>2 DEF TypeInv, PutWasChecked
      <4>2. PhaseAfter(q)' = PhaseAfter(q)
        BY <3>2 DEF PhaseAfter
      <4> QED
        BY <3>2, <4>1, <4>2 DEF CheckTransition
    <3> QED
      BY <3>1, <3>2
  <2> QED
    BY <2>1 DEF PutWasChecked, CheckTransition
<1>3. OperationsLeft'
  BY DEF TypeInv, OperationsLeft
<1> QED
  BY <1>1, <1>2, <1>3

\* The handlers up to their transaction.
LEMMA PrepareType ==
    ASSUME TypeInv, NEW r \in Requests, ReadExisting(r) \/ Prepare(r) PROVE TypeInv'
<1> USE DEF storeVars, txVars
<1>1. CASE ReadExisting(r)
  <2>1. /\ pc[r] = "new" /\ req[r].kind # "POST"
        /\ UNCHANGED <<storeVars, orders, req, txVars>>
    BY <1>1 DEF ReadExisting
  <2>2. CASE Visible(mounted[req[r].id])
    <3>1. /\ existing' = [existing EXCEPT ![r] = mounted[req[r].id]]
          /\ pc' = [pc EXCEPT ![r] = "read"] /\ UNCHANGED result
      BY <1>1, <2>2 DEF ReadExisting, Goto
    <3>2. mounted[req[r].id] \in Records \ {NoRow}
      BY <2>2, RequestBody DEF Visible, TypeInv, TypeOK, RowType, Records
    <3>3. TypeOK'
      BY <2>1, <3>1, <3>2 DEF TypeInv, TypeOK, RowType, Records
    <3>4. step[r] < Len(req[r].ops)
      BY <2>1 DEF TypeInv, OperationsLeft
    <3>5. LockHeld'
      BY <2>1, <3>1 DEF TypeInv, TypeOK, LockHeld, HoldsLock
    <3> QED
      BY <2>1, <3>1, <3>2, <3>3, <3>4, <3>5, OthersStay DEF TypeInv, TypeOK, Checked
  <2>3. CASE ~Visible(mounted[req[r].id])
    <3>1. /\ pc' = [pc EXCEPT ![r] = "done"] /\ result' = [result EXCEPT ![r] = "rejected"]
          /\ UNCHANGED existing
      BY <1>1, <2>3 DEF ReadExisting, Answer
    <3>2. TypeOK' /\ LockHeld'
      BY <2>1, <3>1 DEF TypeInv, TypeOK, LockHeld, HoldsLock
    <3> QED
      BY <2>1, <3>1, <3>2, OthersStay DEF TypeInv, TypeOK, Checked
  <2> QED
    BY <2>2, <2>3
<1>2. CASE Prepare(r)
  <2>1. /\ pc[r] = IF req[r].kind = "POST" THEN "new" ELSE "read"
        /\ UNCHANGED <<storeVars, orders, req, existing, step, snapshot>>
    BY <1>2 DEF Prepare
  <2>2. req[r].kind # "POST" => existing[r] \in Records \ {NoRow}
    BY <2>1 DEF TypeInv, RowWasRead
  <2>3. step[r] < Len(req[r].ops)
    BY <2>1 DEF TypeInv, OperationsLeft
  <2>4. /\ pc' \in [Requests -> {"new", "read", "queued", "running", "failing", "write", "done"}]
        /\ result' \in [Requests -> {"none", "ok", "rejected"}]
        /\ txQueue' = txQueue \/ txQueue' = Append(txQueue, r)
        /\ \A q \in Requests \ {r} : pc'[q] = pc[q]
        /\ pc'[r] \in {"done", "queued", "write"}
        /\ pc'[r] # "done" =>
               ~(req[r].kind = "PUT"
                    /\ ~CheckTransition(existing[r].phase, PhaseAfter(r), req[r].role))
    BY <1>2 DEF Prepare, Answer, Goto, TypeInv, TypeOK
  <2>5. TypeOK'
    <3>1. txQueue \in Seq(Requests)
      BY DEF TypeInv, TypeOK
    <3>2. txQueue' \in Seq(Requests)
      BY <2>4, <3>1, JoinQueue
    <3> QED
      BY <2>1, <2>4, <3>2 DEF TypeInv, TypeOK
  <2>6. PhaseAfter(r)' = PhaseAfter(r)
    BY <2>1 DEF PhaseAfter
  <2>7. LockHeld'
    <3>1. txQueue \in Seq(Requests)
      BY DEF TypeInv, TypeOK
    <3>2. txQueue # <<>> => txQueue' # <<>> /\ Head(txQueue') = Head(txQueue)
      BY <2>4, <3>1, JoinQueue
    <3> QED
      BY <2>4, <3>2 DEF TypeInv, LockHeld, HoldsLock
  <2> QED
    BY <2>1, <2>2, <2>3, <2>4, <2>5, <2>6, <2>7, OthersStay DEF TypeInv, Checked
<1> QED
  BY <1>1, <1>2

\* A step that leaves what a handler read alone, and does not bring it back to a check.
LEMMA KeepsRead ==
    ASSUME TypeInv, NEW r \in Requests, TypeOK', LockHeld',
           UNCHANGED <<req, existing>>, pc[r] \in Checked,
           \A q \in Requests \ {r} : pc'[q] = pc[q] /\ step'[q] = step[q],
           pc'[r] \in Checked \cup {"done"},
           pc'[r] \in {"queued", "running"} => step'[r] < Len(req[r].ops)
    PROVE  TypeInv'
<1>1. req[r].kind # "POST" => existing[r] \in Records \ {NoRow}
  BY DEF TypeInv, RowWasRead
<1>2. req[r].kind = "PUT" => CheckTransition(existing[r].phase, PhaseAfter(r), req[r].role)
  BY DEF TypeInv, PutWasChecked
<1>3. PhaseAfter(r)' = PhaseAfter(r)
  BY DEF PhaseAfter
<1> QED
  BY <1>1, <1>2, <1>3, OthersStay DEF TypeInv, Checked

\* The transaction.
LEMMA TransactionType ==
    ASSUME TypeInv, NEW r \in Requests, ExecuteOperation(r) \/ Rollback(r) PROVE TypeInv'
<1> USE DEF storeVars, txVars
<1>1. CASE ExecuteOperation(r)
  <2> DEFINE op == req[r].ops[step[r] + 1]
  <2>1. /\ pc[r] \in {"queued", "running"} /\ HoldsLock(r)
        /\ snapshot' = IF pc[r] = "queued" THEN live ELSE snapshot
        /\ UNCHANGED <<orders, req, existing>>
    BY <1>1 DEF ExecuteOperation
  <2>2. step[r] \in Nat /\ step[r] + 1 \in 1..Len(req[r].ops)
    BY <2>1, RequestBody DEF TypeInv, TypeOK, OperationsLeft
  <2>3. IsOperation(op) /\ op.to \in StatesWritten
    BY <2>2, RequestBody
  <2>4. Tail(txQueue) \in Seq(Requests)
    BY <2>1 DEF HoldsLock, TypeInv, TypeOK
  <2>5. CASE OpFails(op)
    <3>1. /\ pc' = [pc EXCEPT ![r] = "failing"]
          /\ UNCHANGED <<result, storeVars, step, txQueue>>
      BY <1>1, <2>5 DEF ExecuteOperation, Goto
    <3>2. TypeOK'
      BY <2>1, <3>1 DEF TypeInv, TypeOK
    <3>3. \A q \in Requests \ {r} : pc'[q] = pc[q]
      BY <3>1 DEF TypeInv, TypeOK
    <3>4. LockHeld'
      BY <2>1, <3>1, <3>3 DEF TypeInv, LockHeld, HoldsLock
    <3>5. pc'[r] = "failing"
      BY <3>1 DEF TypeInv, TypeOK
    <3> QED
      BY <2>1, <3>1, <3>2, <3>3, <3>4, <3>5, KeepsRead DEF Checked
  <2>6. CASE ~OpFails(op)
    <3>1. /\ SetLive(OpEffect(r, op))
          /\ step' = [step EXCEPT ![r] = @ + 1]
          /\ UNCHANGED result
          /\ \/ /\ step'[r] < Len(req[r].ops)
                /\ pc' = [pc EXCEPT ![r] = "running"] /\ UNCHANGED txQueue
             \/ pc' = [pc EXCEPT ![r] = "write"] /\ txQueue' = Tail(txQueue)
      BY <1>1, <2>6 DEF ExecuteOperation, Goto, Release
    <3>2. OpEffect(r, op) \in [Ids -> RowType]
      BY <2>3, <2>6, OpEffectType
    <3>3. live' \in [Ids -> RowType] /\ mounted' \in [Ids -> RowType] /\ split' \in BOOLEAN
      BY <3>1, <3>2 DEF SetLive, TypeInv, TypeOK
    <3>4. TypeOK'
      <4>1. step' \in [Requests -> Nat]
        BY <2>2, <3>1 DEF TypeInv, TypeOK
      <4>2. txQueue' \in Seq(Requests) /\ snapshot' \in [Ids -> RowType]
        BY <2>1, <2>4, <3>1 DEF TypeInv, TypeOK
      <4>3. pc' = [pc EXCEPT ![r] = "running"] \/ pc' = [pc EXCEPT ![r] = "write"]
        BY <3>1
      <4> QED
        BY <2>1, <3>1, <3>3, <4>1, <4>2, <4>3 DEF TypeInv, TypeOK
    <3>5. /\ \A q \in Requests \ {r} : pc'[q] = pc[q] /\ step'[q] = step[q]
          /\ pc'[r] \in {"running", "write"}
          /\ pc'[r] = "running" => step'[r] < Len(req[r].ops)
      BY <3>1 DEF TypeInv, TypeOK
    <3>6. LockHeld'
      <4>1. \A q \in Requests \ {r} : pc[q] \notin {"running", "failing"}
        BY <2>1 DEF TypeInv, LockHeld, HoldsLock
      <4>2. pc'[r] = "running" => txQueue' = txQueue
        BY <3>1 DEF TypeInv, TypeOK
      <4> QED
        BY <2>1, <3>5, <4>1, <4>2 DEF LockHeld, HoldsLock
    <3> QED
      BY <2>1, <3>4, <3>5, <3>6, KeepsRead DEF Checked
  <2> QED
    BY <2>5, <2>6
<1>2. CASE Rollback(r)
  <2>1. /\ pc[r] = "failing" /\ live' = snapshot /\ split' = TRUE
        /\ txQueue' = Tail(txQueue)
        /\ pc' = [pc EXCEPT ![r] = "done"] /\ result' = [result EXCEPT ![r] = "rejected"]
        /\ UNCHANGED <<mounted, orders, req, existing, step, snapshot>>
    BY <1>2 DEF Rollback, Release, Answer
  <2>2. HoldsLock(r)
    BY <2>1 DEF TypeInv, LockHeld
  <2>3. Tail(txQueue) \in Seq(Requests)
    BY <2>2 DEF HoldsLock, TypeInv, TypeOK
  <2>4. TypeOK'
    BY <2>1, <2>3 DEF TypeInv, TypeOK
  <2>5. /\ \A q \in Requests \ {r} : pc'[q] = pc[q]
        /\ pc'[r] = "done"
    BY <2>1 DEF TypeInv, TypeOK
  <2>6. LockHeld'
    BY <2>2, <2>5 DEF TypeInv, LockHeld, HoldsLock
  <2> QED
    BY <2>1, <2>4, <2>5, <2>6, KeepsRead DEF Checked
<1> QED
  BY <1>1, <1>2

\* The handlers' own writes.
LEMMA WriteType ==
    ASSUME TypeInv, NEW r \in Requests, CreateRecord(r) \/ WriteRow(r) PROVE TypeInv'
<1> USE DEF storeVars, txVars
<1>1. /\ pc[r] = "write" /\ pc' = [pc EXCEPT ![r] = "done"]
      /\ result' = [result EXCEPT ![r] = "ok"]
      /\ UNCHANGED <<req, existing, txVars>>
  BY DEF CreateRecord, WriteRow, Answer
<1>2. /\ mounted' \in [Ids -> RowType] /\ live' \in [Ids -> RowType] /\ split' \in BOOLEAN
      /\ orders' \subseteq Requests
  <2>1. CASE CreateRecord(r)
    BY <2>1 DEF CreateRecord, TypeInv, TypeOK
  <2>2. CASE WriteRow(r)
    <3>1. RowAfter(r) \in RowType
      BY <2>2, RowAfterType DEF WriteRow
    <3> QED
      BY <2>2, <3>1 DEF WriteRow, SetMounted, TypeInv, TypeOK
  <2> QED
    BY <2>1, <2>2
<1>3. TypeOK'
  BY <1>1, <1>2 DEF TypeInv, TypeOK
<1>4. (\A q \in Requests \ {r} : pc'[q] = pc[q]) /\ pc'[r] = "done"
  BY <1>1 DEF TypeInv, TypeOK
<1>5. LockHeld'
  BY <1>1, <1>4 DEF TypeInv, LockHeld, HoldsLock
<1> QED
  BY <1>1, <1>3, <1>4, <1>5, KeepsRead DEF Checked

\* Every step keeps the types.
LEMMA NextType == TypeInv /\ [Next]_vars => TypeInv'
<1> SUFFICES ASSUME TypeInv, [Next]_vars PROVE TypeInv'
  OBVIOUS
<1>1. CASE UNCHANGED vars
  BY <1>1 DEF vars, storeVars, txVars, TypeInv, TypeOK, RowWasRead, PutWasChecked, PhaseAfter,
              CheckTransition, OperationsLeft, LockHeld, HoldsLock
<1>2. ASSUME NEW r \in Requests, Handle(r) PROVE TypeInv'
  BY <1>2, PrepareType, TransactionType, WriteType DEF Handle
<1> QED
  BY <1>1, <1>2 DEF Next

LEMMA InitType == Init => TypeInv
<1> SUFFICES ASSUME Init PROVE TypeInv
  OBVIOUS
<1>1. live \in [Ids -> RowType]
  BY RoutesAssumption DEF Init, RowType, StatesWritten, Row
<1>2. TypeOK
  <2>1. mounted = live /\ snapshot = live
    BY DEF Init
  <2>2. /\ split \in BOOLEAN /\ orders \subseteq Requests
        /\ pc \in [Requests -> {"new", "read", "queued", "running", "failing", "write", "done"}]
        /\ req \in [Requests -> Bodies]
        /\ step \in [Requests -> Nat]
        /\ result \in [Requests -> {"none", "ok", "rejected"}]
    BY DEF Init
  <2>3. existing \in [Requests -> RowType]
    BY DEF Init, RowType
  <2>4. txQueue \in Seq(Requests)
    <3>1. <<>> \in Seq(Requests)
      OBVIOUS
    <3> QED
      BY <3>1 DEF Init
  <2> QED
    BY <1>1, <2>1, <2>2, <2>3, <2>4 DEF TypeOK
<1>3. \A b \in Bodies : 0 < Len(b.ops)
  BY RoutesAssumption
<1> QED
  BY <1>2, <1>3 DEF Init, TypeInv, RowWasRead, PutWasChecked, OperationsLeft, LockHeld, Checked

\* The rows stay well typed; in particular no interleaving of decrements takes a
\* stock below zero, and a handler never writes back a row it has not read.
THEOREM TypeCorrect == Spec => []TypeOK
<1>1. TypeInv => TypeOK
  BY DEF TypeInv
<1> QED
  BY <1>1, InitType, NextType, PTL DEF Spec

\* The invariant itself, for the proofs below.
LEMMA TypeInvariant == Spec => []TypeInv
BY InitType, NextType, PTL DEF Spec

-----------------------------------------------------------------------------
(***************************************************************************)
(* Role-gated states.  A state can reach the clients' Map along detours:   *)
(* through the live Map, through a snapshot that a rollback brings back,   *)
(* and through the row a handler read earlier, so all of them are gated.   *)
(***************************************************************************)
Gated(i, row) ==
    row # NoRow /\ row.phase # Initial => \E r \in Requests : MayEnter(r, i, row.phase)

GateInv ==
    \A i \in Products :
        /\ Gated(i, mounted[i]) /\ Gated(i, live[i]) /\ Gated(i, snapshot[i])
        /\ \A r \in Requests : req[r].id = i => Gated(i, existing[r])

\* No operation but an update writes a state, and the spec declares that one.
LEMMA OpEffectGated ==
    ASSUME TypeInv, GateInv, NEW r \in Requests, NEW k \in DOMAIN req[r].ops,
           ~OpFails(req[r].ops[k]), IsOperation(req[r].ops[k]), NEW i \in Products
    PROVE  Gated(i, OpEffect(r, req[r].ops[k])[i])
<1> DEFINE op == req[r].ops[k]
<1>1. Gated(i, live[i])
  BY DEF GateInv
<1>2. /\ i \in Ids /\ i # r /\ DOMAIN live = Ids
      /\ op.action # "create" /\ op.id = i => live[i] \in Records
  BY RoutesAssumption DEF Ids, OpFails, TypeInv, TypeOK, RowType, Records
<1>3. CASE op.action = "create"
  BY <1>1, <1>2, <1>3 DEF OpEffect
<1>4. CASE op.action = "update"
  <2>1. OpEffect(r, op)[i] =
            IF i = op.id THEN [live[i] EXCEPT !.phase = op.to] ELSE live[i]
    BY <1>2, <1>4 DEF OpEffect
  <2>2. i = op.id => OpEffect(r, op)[i].phase = op.to
    BY <1>2, <1>4, <2>1 DEF Records
  <2>3. MayEnter(r, i, op.to)
    BY <1>4 DEF MayEnter
  <2> QED
    BY <1>1, <2>1, <2>2, <2>3 DEF Gated
<1>5. CASE op.action = "delete"
  <2>1. OpEffect(r, op)[i] = IF i = op.id THEN NoRow ELSE live[i]
    BY <1>2, <1>5 DEF OpEffect
  <2> QED
    BY <1>1, <2>1 DEF Gated
<1>6. CASE op.action \in {"increment", "decrement"}
  <2>1. IF i = op.id THEN OpEffect(r, op)[i].phase = live[i].phase
                     ELSE OpEffect(r, op)[i] = live[i]
    <3>1. CASE op.action = "increment"
      <4>1. OpEffect(r, op) =
                [live EXCEPT ![op.id] = [live[op.id] EXCEPT !.stock = @ + op.amount]]
        BY <3>1 DEF OpEffect
      <4> QED
        BY <1>2, <3>1, <4>1 DEF Records
    <3>2. CASE op.action = "decrement"
      <4>1. OpEffect(r, op) =
                [live EXCEPT ![op.id] = [live[op.id] EXCEPT !.stock = @ - op.amount]]
        BY <3>2 DEF OpEffect
      <4> QED
        BY <1>2, <3>2, <4>1 DEF Records
    <3> QED
      BY <1>6, <3>1, <3>2
  <2>2. i = op.id => live[i] # NoRow
    BY <1>6 DEF OpFails
  <2> QED
    BY <1>1, <2>1, <2>2 DEF Gated
<1> QED
  BY <1>3, <1>4, <1>5, <1>6 DEF IsOperation

\* A PUT writes the state it read, or one it was allowed to enter.
LEMMA RowAfterGated ==
    ASSUME TypeInv, GateInv, NEW r \in Requests, pc[r] = "write", req[r].kind # "POST"
    PROVE  Gated(req[r].id, RowAfter(r))
<1>1. existing[r] \in Records /\ existing[r] # NoRow /\ req[r].id \in Products
  BY RequestBody DEF TypeInv, RowWasRead, Checked
<1>2. Gated(req[r].id, existing[r])
  BY <1>1 DEF GateInv
<1>3. CASE req[r].kind = "PUT"
  <2>1. CheckTransition(existing[r].phase, PhaseAfter(r), req[r].role)
    BY <1>3 DEF TypeInv, PutWasChecked, Checked
  <2>2. RowAfter(r).phase = PhaseAfter(r)
    BY <1>1, <1>3 DEF RowAfter, Records
  <2>3. CASE PhaseAfter(r) = existing[r].phase
    <3>1. RowAfter(r) = existing[r]
      BY <1>1, <1>3, <2>3 DEF RowAfter, Records
    <3> QED
      BY <1>2, <3>1
  <2>4. CASE PhaseAfter(r) # existing[r].phase
    <3>1. PhaseAfter(r) = req[r].to
      BY <2>4 DEF PhaseAfter
    <3>2. MayEnter(r, req[r].id, req[r].to)
      BY <1>3, <2>1, <2>4, <3>1 DEF MayEnter, CheckTransition
    <3> QED
      BY <2>2, <3>1, <3>2 DEF Gated
  <2> QED
    BY <2>3, <2>4
<1>4. CASE req[r].kind # "PUT"
  <2>1. RowAfter(r) = NoRow \/ RowAfter(r) = [existing[r] EXCEPT !.deleted = TRUE]
    BY <1>4 DEF RowAfter
  <2>2. [existing[r] EXCEPT !.deleted = TRUE].phase = existing[r].phase
    BY <1>1 DEF Records
  <2> QED
    BY <1>1, <1>2, <2>1, <2>2 DEF Gated
<1> QED
  BY <1>3, <1>4

\* Who may enter a state is a matter of the requests alone.
LEMMA SameGate ==
    ASSUME UNCHANGED req, NEW i, NEW row, Gated(i, row)
    PROVE  row # NoRow /\ row.phase # Initial => \E r \in Requests : MayEnter(r, i, row.phase)'
BY DEF Gated, MayEnter

LEMMA NextGate == TypeInv /\ GateInv /\ [Next]_vars => GateInv'
<1> SUFFICES ASSUME TypeInv, GateInv, [Next]_vars PROVE GateInv'
  OBVIOUS
<1> USE DEF storeVars, txVars
<1>1. UNCHANGED req
  BY DEF Next, Handle, ReadExisting, Prepare, ExecuteOperation, Rollback, CreateRecord, WriteRow,
         vars
<1>2. \A i, row : Gated(i, row) => (row # NoRow /\ row.phase # Initial
                                        => \E r \in Requests : MayEnter(r, i, row.phase)')
  BY <1>1, SameGate
<1>3. ASSUME \A i \in Products :
                 /\ Gated(i, mounted'[i]) /\ Gated(i, live'[i]) /\ Gated(i, snapshot'[i])
                 /\ \A r \in Requests : req[r].id = i => Gated(i, existing'[r])
      PROVE  GateInv'
  BY <1>1, <1>2, <1>3 DEF GateInv, Gated
<1>4. ASSUME UNCHANGED <<mounted, live, snapshot, existing>> PROVE GateInv'
  BY <1>3, <1>4 DEF GateInv
<1>5. ASSUME NEW r \in Requests, ReadExisting(r) PROVE GateInv'
  <2>1. UNCHANGED <<mounted, live, snapshot>>
    BY <1>5 DEF ReadExisting
  <2>2. \A q \in Requests : existing'[q] = existing[q] \/ existing'[q] = mounted[req[q].id]
    BY <1>5 DEF ReadExisting, TypeInv, TypeOK
  <2> QED
    BY <1>3, <2>1, <2>2 DEF GateInv
<1>6. ASSUME NEW r \in Requests, Prepare(r) \/ CreateRecord(r) PROVE GateInv'
  BY <1>4, <1>6 DEF Prepare, CreateRecord
<1>7. ASSUME NEW r \in Requests, ExecuteOperation(r) PROVE GateInv'
  <2> DEFINE op == req[r].ops[step[r] + 1]
  <2>1. pc[r] \in {"queued", "running"} /\ step[r] \in Nat
    BY <1>7 DEF ExecuteOperation, TypeInv, TypeOK
  <2>2. step[r] + 1 \in 1..Len(req[r].ops) /\ step[r] + 1 \in DOMAIN req[r].ops
    BY <2>1, RequestBody, RoutesAssumption DEF TypeInv, OperationsLeft
  <2>3. IsOperation(op)
    BY <2>2, RequestBody
  <2>4. /\ UNCHANGED existing /\ snapshot' \in {live, snapshot}
        /\ \/ UNCHANGED <<mounted, live>>
           \/ /\ ~OpFails(op) /\ live' = OpEffect(r, op)
              /\ mounted' \in {mounted, OpEffect(r, op)}
    BY <1>7 DEF ExecuteOperation, SetLive
  <2>5. ~OpFails(op) => \A i \in Products : Gated(i, OpEffect(r, op)[i])
    BY <2>2, <2>3, OpEffectGated
  <2> QED
    BY <1>3, <2>4, <2>5 DEF GateInv
<1>8. ASSUME NEW r \in Requests, Rollback(r) PROVE GateInv'
  BY <1>3, <1>8 DEF Rollback, GateInv
<1>9. ASSUME NEW r \in Requests, WriteRow(r) PROVE GateInv'
  <2>1. Gated(req[r].id, RowAfter(r))
    BY <1>9, RowAfterGated DEF WriteRow
  <2>2. \A i \in Products : Gated(i, [mounted EXCEPT ![req[r].id] = RowAfter(r)][i])
    BY <2>1 DEF GateInv, Ids, TypeInv, TypeOK
  <2>3. /\ UNCHANGED <<existing, snapshot>>
        /\ mounted' = [mounted EXCEPT ![req[r].id] = RowAfter(r)]
        /\ live' \in {live, mounted'}
    BY <1>9 DEF WriteRow, SetMounted
  <2> QED
    BY <1>3, <2>2, <2>3 DEF GateInv
<1>10. CASE UNCHANGED vars
  BY <1>4, <1>10 DEF vars
<1> QED
  BY <1>5, <1>6, <1>7, <1>8, <1>9, <1>10 DEF Next, Handle

\* A state that needs a role is entered only by a PUT of such a role or by a
\* transaction that declares it, although rows are checked long before they are
\* written and come back through rollbacks.
THEOREM RolesGate == Spec => []RoleGated
<1>1. Init => GateInv
  <2> SUFFICES ASSUME Init PROVE GateInv
    OBVIOUS
  <2>1. /\ \A i \in Products : live[i] = Row(Initial, InitialStock, FALSE)
        /\ mounted = live /\ snapshot = live
        /\ \A r \in Requests : existing[r] = NoRow
    BY DEF Init, Ids
  <2> QED
    BY <2>1 DEF GateInv, Gated, Row
<1>2. GateInv => RoleGated
  BY DEF GateInv, Gated, RoleGated
<1> QED
  BY <1>1, <1>2, NextGate, TypeInvariant, PTL DEF Spec
-----------------------------------------------------------------------------
(***************************************************************************)
(* Sums.  SumFunctionOnSet is a recursive function over the subsets of a   *)
(* finite set.  What it computes is shown by smallest counterexamples,     *)
(* found in the well-founded order on numbers: a sum exists, is an         *)
(* integer, and is the same whichever element is taken first.              *)
(***************************************************************************)
\* A set of numbers has a least one.
LEMMA LeastNumber ==
    ASSUME NEW T \in SUBSET Nat, T # {} PROVE \E n \in T : \A m \in T : n <= m
<1>1. PICK n \in T : \A m \in T : ~ (<<m, n>> \in OpToRel(<, Nat))
  BY Zenon, WFMin, NatLessThanWellFounded
<1>2. ASSUME NEW m \in T, m < n PROVE FALSE
  <2>1. <<m, n>> \in OpToRel(<, Nat)
    BY <1>2 DEF OpToRel
  <2> QED
    BY Zenon, <1>1, <2>1
<1>3. n \in T
  OBVIOUS
<1> HIDE <1>1
<1>4. \A m \in T : n <= m
  BY <1>2, <1>3
<1> QED
  BY <1>3, <1>4

\* Among finite sets there is one none of whose proper subsets is among them.
LEMMA SmallestSet ==
    ASSUME NEW B, B # {}, \A s \in B : IsFiniteSet(s)
    PROVE  \E s \in B : \A t \in SUBSET s : t # s => t \notin B
<1> DEFINE T == {Cardinality(s) : s \in B}
<1>1. T \in SUBSET Nat /\ T # {}
  BY FS_CardinalityType
<1> HIDE DEF T
<1>2. PICK n \in T : \A m \in T : n <= m
  BY <1>1, LeastNumber
<1>3. PICK s \in B : Cardinality(s) = n
  BY DEF T
<1>4. ASSUME NEW t \in SUBSET s, t # s, t \in B PROVE FALSE
  <2>1. Cardinality(t) < Cardinality(s)
    BY <1>3, <1>4, FS_Subset, FS_CardinalityType
  <2>2. Cardinality(t) \in T
    BY <1>4 DEF T
  <2>3. n <= Cardinality(t) /\ n \in Nat /\ Cardinality(t) \in Nat
    BY <1>1, <1>2, <2>2
  <2> QED
    BY <1>3, <2>1, <2>3
<1> QED
  BY <1>4

\* The element that the fold takes from s, and the table of the sums over parts of S.
Pick(s) == CHOOSE x \in s : TRUE

IsSum(f, v, S) ==
    f = [s \in SUBSET S |-> IF s = {} THEN 0 ELSE v[Pick(s)] + f[s \ {Pick(s)}]]

SumsOf(v, S) == CHOOSE f : IsSum(f, v, S)

\* The sum is the table's last entry.
LEMMA SumIsInTable ==
    ASSUME NEW v, NEW S PROVE SumFunctionOnSet(v, S) = SumsOf(v, S)[S]
BY DEF SumFunctionOnSet, FoldFunctionOnSet, MapThenFoldSet, SumsOf, IsSum, Pick

\* The element taken is one of the set.
LEMMA PickIn == ASSUME NEW s, s # {} PROVE Pick(s) \in s
BY DEF Pick

\* What a table says of a part of its set.
LEMMA SumStep ==
    ASSUME NEW v, NEW S, NEW f, IsSum(f, v, S), NEW s \in SUBSET S
    PROVE  /\ s = {} => f[s] = 0
           /\ s # {} => f[s] = v[Pick(s)] + f[s \ {Pick(s)}]
BY DEF IsSum

\* Two tables agree on the sets they share.
LEMMA SumsAgree ==
    ASSUME NEW v, NEW R, NEW S, NEW f, NEW g, IsSum(f, v, R), IsSum(g, v, S),
           NEW t, t \subseteq R, t \subseteq S, IsFiniteSet(t)
    PROVE  f[t] = g[t]
<1> DEFINE B == {s \in SUBSET t : f[s] # g[s]}
<1>1. \A s \in B : IsFiniteSet(s)
  BY FS_Subset
<1>2. SUFFICES ASSUME B # {} PROVE FALSE
  OBVIOUS
<1>3. PICK s \in B : \A u \in SUBSET s : u # s => u \notin B
  <2> HIDE DEF B
  <2> QED
    BY <1>1, <1>2, SmallestSet
<1>4. s \in SUBSET R /\ s \in SUBSET S /\ f[s] # g[s]
  OBVIOUS
<1>5. /\ s = {} => f[s] = g[s]
      /\ s # {} => f[s] = v[Pick(s)] + f[s \ {Pick(s)}]
      /\ s # {} => g[s] = v[Pick(s)] + g[s \ {Pick(s)}]
  BY <1>4, SumStep
<1>6. s # {} => f[s \ {Pick(s)}] = g[s \ {Pick(s)}]
  BY <1>3, PickIn
<1> QED
  BY <1>4, <1>5, <1>6

\* A finite set has such a table.
LEMMA SumExists ==
    ASSUME NEW v, NEW S, IsFiniteSet(S) PROVE IsSum(SumsOf(v, S), v, S)
<1> DEFINE B == {R \in SUBSET S : ~IsSum(SumsOf(v, R), v, R)}
<1>1. \A R \in B : IsFiniteSet(R)
  BY FS_Subset
<1>2. SUFFICES ASSUME B # {} PROVE FALSE
  OBVIOUS
<1>3. PICK R \in B : \A t \in SUBSET R : t # R => t \notin B
  <2> HIDE DEF B
  <2> QED
    BY <1>1, <1>2, SmallestSet
<1> DEFINE Rest(s) == s \ {Pick(s)}
           f == [s \in SUBSET R |->
                    IF s = {} THEN 0 ELSE v[Pick(s)] + SumsOf(v, Rest(s))[Rest(s)]]
<1>4. \A t \in SUBSET R : t # R => IsSum(SumsOf(v, t), v, t)
  BY <1>3
<1>5. ASSUME NEW s \in SUBSET R, s # {} PROVE f[Rest(s)] = SumsOf(v, Rest(s))[Rest(s)]
  <2> DEFINE t == Rest(s)
  <2>1. t \in SUBSET R /\ t # R /\ IsFiniteSet(t)
    BY <1>1, <1>5, PickIn, FS_Subset
  <2>2. IsSum(SumsOf(v, t), v, t)
    BY <1>4, <2>1
  <2>3. /\ t = {} => SumsOf(v, t)[t] = 0
        /\ t # {} => SumsOf(v, t)[t] = v[Pick(t)] + SumsOf(v, t)[Rest(t)]
    <3> t \in SUBSET t
      OBVIOUS
    <3> HIDE DEF t
    <3> QED
      BY <2>2, SumStep
  <2>4. t # {} => SumsOf(v, t)[Rest(t)] = SumsOf(v, Rest(t))[Rest(t)]
    <3>1. ASSUME t # {} PROVE Rest(t) \in SUBSET R /\ Rest(t) # R /\ IsFiniteSet(Rest(t))
      BY <2>1, FS_Subset
    <3>2. t # {} => IsSum(SumsOf(v, Rest(t)), v, Rest(t))
      BY <1>4, <3>1
    <3> QED
      BY <2>2, <3>1, <3>2, SumsAgree
  <2> QED
    BY <2>1, <2>3, <2>4
<1>6. IsSum(f, v, R)
  BY <1>5 DEF IsSum
<1>7. IsSum(SumsOf(v, R), v, R)
  <2> HIDE DEF f
  <2> QED
    BY <1>6 DEF SumsOf
<1> QED
  BY <1>7

\* The sum over no element.
LEMMA SumOfNone == ASSUME NEW v PROVE SumFunctionOnSet(v, {}) = 0
<1>1. IsSum(SumsOf(v, {}), v, {})
  BY SumExists, FS_EmptySet
<1> QED
  BY <1>1, SumStep, SumIsInTable

\* Sums of integers are integers.
LEMMA SumIsInt ==
    ASSUME NEW v, NEW S, IsFiniteSet(S), \A x \in S : v[x] \in Int
    PROVE  \A s \in SUBSET S : SumsOf(v, S)[s] \in Int
<1> DEFINE f == SumsOf(v, S)
           B == {s \in SUBSET S : f[s] \notin Int}
<1>1. \A s \in B : IsFiniteSet(s)
  BY FS_Subset
<1>2. SUFFICES ASSUME B # {} PROVE FALSE
  OBVIOUS
<1>3. PICK s \in B : \A u \in SUBSET s : u # s => u \notin B
  <2> HIDE DEF B
  <2> QED
    BY <1>1, <1>2, SmallestSet
<1>4. IsSum(f, v, S) /\ s \in SUBSET S /\ f[s] \notin Int
  BY SumExists
<1>5. s # {} => v[Pick(s)] \in Int /\ f[s \ {Pick(s)}] \in Int
  BY <1>3, PickIn
<1> HIDE DEF f, B
<1>6. s = {} => f[s] = 0
  BY <1>4, SumStep
<1>7. s # {} => f[s] = v[Pick(s)] + f[s \ {Pick(s)}]
  BY <1>4, SumStep
<1> QED
  BY <1>4, <1>5, <1>6, <1>7

\* The order in which the elements are taken does not matter.
LEMMA SumTakes ==
    ASSUME NEW v, NEW S, IsFiniteSet(S), \A x \in S : v[x] \in Int
    PROVE  \A s \in SUBSET S : \A x \in s : SumsOf(v, S)[s] = v[x] + SumsOf(v, S)[s \ {x}]
<1> DEFINE f == SumsOf(v, S)
           B == {s \in SUBSET S : \E x \in s : f[s] # v[x] + f[s \ {x}]}
<1>1. \A s \in B : IsFiniteSet(s)
  BY FS_Subset
<1>2. SUFFICES ASSUME B # {} PROVE FALSE
  OBVIOUS
<1>3. PICK s \in B : \A u \in SUBSET s : u # s => u \notin B
  <2> HIDE DEF B
  <2> QED
    BY <1>1, <1>2, SmallestSet
<1>4. PICK x \in s : f[s] # v[x] + f[s \ {x}]
  OBVIOUS
<1> DEFINE y == Pick(s)
<1>5. y \in s /\ f[s] = v[y] + f[s \ {y}]
  <2>1. IsSum(f, v, S) /\ s \in SUBSET S /\ s # {}
    BY SumExists
  <2> HIDE DEF f, B
  <2> QED
    BY <2>1, SumStep, PickIn
<1>6. x # y
  BY <1>4, <1>5
<1> HIDE DEF y
<1>7. f[s \ {y}] = v[x] + f[(s \ {y}) \ {x}]
  <2>1. s \ {y} \notin B /\ x \in s \ {y} /\ s \ {y} \in SUBSET S
    BY <1>3, <1>5, <1>6
  <2> QED
    BY <2>1
<1>8. f[s \ {x}] = v[y] + f[(s \ {x}) \ {y}]
  <2>1. s \ {x} \notin B /\ y \in s \ {x} /\ s \ {x} \in SUBSET S
    BY <1>3, <1>5, <1>6
  <2> QED
    BY <2>1
<1>9. (s \ {y}) \ {x} = (s \ {x}) \ {y}
  OBVIOUS
<1>10. v[x] \in Int /\ v[y] \in Int /\ f[(s \ {x}) \ {y}] \in Int
  BY <1>5, SumIsInt
<1> HIDE DEF f, B
<1>11. f[s] = v[y] + (v[x] + f[(s \ {x}) \ {y}])
  BY Zenon, <1>5, <1>7, <1>9
<1> QED
  BY <1>4, <1>8, <1>10, <1>11

\* One more element adds its value.
LEMMA SumWithOneMore ==
    ASSUME NEW v, NEW S, IsFiniteSet(S), NEW x, x \notin S,
           v[x] \in Int, \A y \in S : v[y] \in Int
    PROVE  /\ SumFunctionOnSet(v, S) \in Int
           /\ SumFunctionOnSet(v, S \cup {x}) = SumFunctionOnSet(v, S) + v[x]
<1> DEFINE T == S \cup {x}
<1>1. IsFiniteSet(T) /\ \A y \in T : v[y] \in Int
  BY FS_AddElement
<1>2. SumsOf(v, T)[T] = v[x] + SumsOf(v, T)[T \ {x}]
  BY <1>1, SumTakes
<1>3. T \ {x} = S
  OBVIOUS
<1>4. SumsOf(v, T)[S] = SumsOf(v, S)[S]
  BY <1>1, SumExists, SumsAgree
<1>5. SumsOf(v, S)[S] \in Int
  BY SumIsInt
<1>6. SumFunctionOnSet(v, S) = SumsOf(v, S)[S] /\ SumFunctionOnSet(v, T) = SumsOf(v, T)[T]
  BY SumIsInTable
<1>7. SumFunctionOnSet(v, T) = v[x] + SumFunctionOnSet(v, S)
  BY Zenon, <1>2, <1>3, <1>4, <1>6
<1>8. SumFunctionOnSet(v, S) \in Int
  BY <1>5, <1>6
<1> QED
  BY <1>7, <1>8

-----------------------------------------------------------------------------
(***************************************************************************)
(* Atomic transactions.  While one is under way, the stock is what the     *)
(* committed ones made it and what the operations so far have added, and   *)
(* its snapshot holds the former.                                          *)
(***************************************************************************)
Busy(r) == pc[r] \in {"running", "failing"}

Deltas(r, i) == [k \in DOMAIN req[r].ops |-> Delta(r, k, i)]

\* What the first n operations of r add to the stock of i.
AddedBy(r, i, n) == SumFunctionOnSet(Deltas(r, i), 1..n)

StockCounted(i) ==
    /\ live[i] \in Records
    /\ (\A r \in Requests : ~Busy(r)) => live[i].stock = ExpectedStock(i)
    /\ \A r \in Requests : Busy(r) =>
           /\ snapshot[i] \in Records
           /\ snapshot[i].stock = ExpectedStock(i)
           /\ live[i].stock = ExpectedStock(i) + AddedBy(r, i, step[r])

StepsCounted ==
    \A r \in Requests :
        /\ pc[r] \in {"new", "read", "queued"} => step[r] = 0
        /\ pc[r] \in {"queued", "running", "failing"} => req[r].kind \in TxVerbs
        /\ pc[r] = "failing" => step[r] < Len(req[r].ops)

OneMap == ~split => mounted = live

LedgerInv ==
    /\ StepsCounted
    /\ OneMap
    /\ \A i \in Products : CountedOnly(i) => StockCounted(i)

\* The operations of a request are numbered from 1, and each adds an integer.
LEMMA OperationDeltas ==
    ASSUME TypeInv, NEW r \in Requests, NEW i
    PROVE  /\ DOMAIN req[r].ops = 1..Len(req[r].ops)
           /\ \A k \in 1..Len(req[r].ops) : Delta(r, k, i) \in Int
<1>1. DOMAIN req[r].ops = 1..Len(req[r].ops)
  BY RoutesAssumption DEF TypeInv, TypeOK
<1>2. ASSUME NEW k \in 1..Len(req[r].ops) PROVE Delta(r, k, i) \in Int
  <2>1. req[r].ops[k].amount \in Int
    BY RequestBody DEF IsOperation
  <2> QED
    BY <2>1 DEF Delta
<1> QED
  BY <1>1, <1>2

\* One more operation adds its own part.
LEMMA OneMoreOperation ==
    ASSUME TypeInv, NEW r \in Requests, NEW i, NEW n \in Nat, n < Len(req[r].ops)
    PROVE  /\ AddedBy(r, i, n) \in Int
           /\ AddedBy(r, i, n + 1) = AddedBy(r, i, n) + Delta(r, n + 1, i)
<1> DEFINE v == Deltas(r, i)
<1>1. Len(req[r].ops) \in Nat
  BY RequestBody
<1>2. \A k \in 1..(n + 1) : v[k] = Delta(r, k, i) /\ v[k] \in Int
  BY <1>1, OperationDeltas DEF Deltas
<1>3. n + 1 \notin 1..n /\ 1..(n + 1) = (1..n) \cup {n + 1}
  OBVIOUS
<1>4. IsFiniteSet(1..n)
  BY FS_Interval
<1> HIDE DEF v
<1>5. /\ SumFunctionOnSet(v, 1..n) \in Int
      /\ SumFunctionOnSet(v, (1..n) \cup {n + 1}) = SumFunctionOnSet(v, 1..n) + v[n + 1]
  BY <1>2, <1>3, <1>4, SumWithOneMore
<1> QED
  BY <1>2, <1>3, <1>5 DEF AddedBy, v

\* All operations together have the transaction's effect, and none has none.
LEMMA EffectOfAll ==
    ASSUME TypeInv, NEW r \in Requests, NEW i
    PROVE  /\ AddedBy(r, i, Len(req[r].ops)) = Effect(r, i)
           /\ AddedBy(r, i, 0) = 0
           /\ Effect(r, i) \in Int
<1>1. Len(req[r].ops) \in Nat \ {0}
  BY RequestBody
<1>2. AddedBy(r, i, Len(req[r].ops)) = Effect(r, i)
  <2>1. DOMAIN Deltas(r, i) = 1..Len(req[r].ops)
    BY OperationDeltas DEF Deltas
  <2> QED
    BY <2>1 DEF AddedBy, Effect, SumFunction, Deltas
<1>3. AddedBy(r, i, 0) = 0
  <2>1. 1..0 = {}
    OBVIOUS
  <2> QED
    BY <2>1, SumOfNone DEF AddedBy
<1>4. AddedBy(r, i, Len(req[r].ops)) \in Int
  <2> DEFINE n == Len(req[r].ops) - 1
  <2>1. n \in Nat /\ n < Len(req[r].ops) /\ n + 1 = Len(req[r].ops)
    BY <1>1
  <2>2. n + 1 \in 1..Len(req[r].ops)
    BY <1>1
  <2>3. Delta(r, n + 1, i) \in Int
    BY <2>2, OperationDeltas
  <2> HIDE DEF n
  <2> QED
    BY <2>1, <2>3, OneMoreOperation
<1> QED
  BY <1>2, <1>3, <1>4

\* One more committed transaction adds its effect to what is expected.
LEMMA OneMoreCommitted ==
    ASSUME TypeInv, NEW i, NEW r \in Requests, NEW S \in SUBSET Requests, r \notin S
    PROVE  LET effects == [q \in Requests |-> Effect(q, i)]
           IN  /\ SumFunctionOnSet(effects, S) \in Int
               /\ SumFunctionOnSet(effects, S \cup {r})
                      = SumFunctionOnSet(effects, S) + Effect(r, i)
<1> DEFINE effects == [q \in Requests |-> Effect(q, i)]
<1>1. IsFiniteSet(S)
  BY RoutesAssumption, FS_Subset
<1>2. \A q \in Requests : effects[q] = Effect(q, i) /\ effects[q] \in Int
  BY EffectOfAll
<1> HIDE DEF effects
<1>3. /\ SumFunctionOnSet(effects, S) \in Int
      /\ SumFunctionOnSet(effects, S \cup {r}) = SumFunctionOnSet(effects, S) + effects[r]
  BY <1>1, <1>2, SumWithOneMore
<1> QED
  BY <1>2, <1>3 DEF effects

\* What is expected depends only on which transactions committed.
LEMMA ExpectedStays ==
    ASSUME UNCHANGED req, \A q \in Requests : Committed(q)' = Committed(q), NEW i
    PROVE  ExpectedStock(i)' = ExpectedStock(i)
<1>1. {q \in Requests : Committed(q)'} = {q \in Requests : Committed(q)}
  OBVIOUS
<1>2. \A q \in Requests : Effect(q, i)' = Effect(q, i)
  BY DEF Effect, Delta
<1>3. [q \in Requests |-> Effect(q, i)'] = [q \in Requests |-> Effect(q, i)]
  BY <1>2
<1> QED
  BY <1>1, <1>3 DEF ExpectedStock

\* An operation adds its part to the stock of a row that is only counted.
LEMMA OpAdds ==
    ASSUME TypeInv, NEW r \in Requests, NEW k \in 1..Len(req[r].ops), ~OpFails(req[r].ops[k]),
           NEW i \in Products, CountedOnly(i), live[i] \in Records
    PROVE  /\ OpEffect(r, req[r].ops[k])[i] \in Records
           /\ OpEffect(r, req[r].ops[k])[i].stock = live[i].stock + Delta(r, k, i)
<1> DEFINE op == req[r].ops[k]
<1>1. /\ IsOperation(op) /\ op.to \in StatesWritten /\ k \in DOMAIN req[r].ops
      /\ op.id = i => op.action # "delete"
  BY RequestBody, OperationDeltas DEF CountedOnly, Overwrites
<1>2. i \in Ids /\ i # r /\ live = [j \in Ids |-> live[j]] /\ live[i].stock \in Nat
  BY RoutesAssumption DEF Ids, TypeInv, TypeOK, Records
<1>3. OpEffect(r, op) \in [Ids -> RowType]
  BY <1>1, OpEffectType
<1>4. CASE op.id # i
  <2>1. OpEffect(r, op)[i] = live[i]
    BY <1>1, <1>2, <1>4 DEF OpEffect, IsOperation
  <2>2. Delta(r, k, i) = 0
    BY <1>4 DEF Delta
  <2> QED
    BY <1>2, <2>1, <2>2
<1>5. CASE op.id = i /\ op.action = "create"
  <2>1. OpEffect(r, op)[i] = live[i]
    BY <1>2, <1>5 DEF OpEffect
  <2>2. Delta(r, k, i) = 0
    BY <1>5 DEF Delta
  <2> QED
    BY <1>2, <2>1, <2>2
<1>6. CASE op.id = i /\ op.action = "update"
  <2>1. OpEffect(r, op)[i] = [live[i] EXCEPT !.phase = op.to]
    BY <1>2, <1>6 DEF OpEffect
  <2>2. Delta(r, k, i) = 0
    BY <1>6 DEF Delta
  <2> QED
    BY <1>1, <1>2, <2>1, <2>2 DEF Records
<1>7. CASE op.id = i /\ op.action = "increment"
  <2>1. OpEffect(r, op)[i] = [live[i] EXCEPT !.stock = @ + op.amount]
    BY <1>2, <1>7 DEF OpEffect
  <2>2. Delta(r, k, i) = op.amount /\ op.amount \in Nat
    BY <1>1, <1>7 DEF Delta, IsOperation
  <2> QED
    BY <1>2, <2>1, <2>2 DEF Records
<1>8. CASE op.id = i /\ op.action = "decrement"
  <2>1. OpEffect(r, op)[i] = [live[i] EXCEPT !.stock = @ - op.amount]
    BY <1>2, <1>8 DEF OpEffect
  <2>2. Delta(r, k, i) = 0 - op.amount /\ op.amount \in Int
    BY <1>1, <1>8 DEF Delta, IsOperation
  <2>3. live[i].stock - op.amount \in Nat
    BY <1>2, <1>8, <2>2 DEF OpFails
  <2> QED
    BY <1>2, <2>1, <2>2, <2>3 DEF Records
<1> QED
  BY <1>1, <1>4, <1>5, <1>6, <1>7, <1>8 DEF IsOperation

\* A step that moves no transaction on leaves what is counted.
LEMMA NotATransaction ==
    ASSUME TypeInv, LedgerInv, UNCHANGED <<req, step, snapshot>>,
           \A q \in Requests : Busy(q)' = Busy(q),
           \A i \in Products : CountedOnly(i) => live'[i] = live[i],
           StepsCounted', OneMap'
    PROVE  LedgerInv'
<1> SUFFICES ASSUME NEW i \in Products, CountedOnly(i)' PROVE StockCounted(i)'
  BY DEF LedgerInv
<1>1. CountedOnly(i)
  BY DEF CountedOnly, Overwrites
<1>2. StockCounted(i) /\ live'[i] = live[i]
  BY <1>1 DEF LedgerInv
<1>3. \A q \in Requests : Committed(q)' = Committed(q)
  BY DEF Committed
<1>4. ExpectedStock(i)' = ExpectedStock(i)
  BY <1>3, ExpectedStays
<1>5. \A q \in Requests : AddedBy(q, i, step[q])' = AddedBy(q, i, step[q])
  BY DEF AddedBy, Deltas, Delta
<1>6. Records' = Records
  BY DEF Records, StatesWritten
<1> QED
  BY <1>2, <1>4, <1>5, <1>6 DEF StockCounted

\* An operation keeps the books: it adds its part, and the last one commits.
LEMMA ExecuteCounts ==
    ASSUME TypeInv, LedgerInv, NEW r \in Requests, ExecuteOperation(r),
           NEW i \in Products, CountedOnly(i)
    PROVE  StockCounted(i)'
<1> USE DEF storeVars
<1> DEFINE n == step[r]
           op == req[r].ops[n + 1]
<1>1. /\ pc[r] \in {"queued", "running"} /\ HoldsLock(r)
      /\ snapshot' = IF pc[r] = "queued" THEN live ELSE snapshot
      /\ UNCHANGED req
  BY DEF ExecuteOperation
<1>2. n \in Nat /\ n < Len(req[r].ops) /\ n + 1 \in 1..Len(req[r].ops)
  BY <1>1, RequestBody DEF TypeInv, TypeOK, OperationsLeft
<1>3. \A q \in Requests \ {r} : ~Busy(q)
  BY <1>1 DEF TypeInv, LockHeld, HoldsLock, Busy
<1>4. StockCounted(i)
  BY DEF LedgerInv
<1>5. req[r].kind \in TxVerbs /\ (pc[r] = "queued" => n = 0)
  BY <1>1 DEF LedgerInv, StepsCounted
<1>6. ExpectedStock(i) \in Int
  <2>1. SumFunctionOnSet([q \in Requests |-> Effect(q, i)],
                         {q \in Requests : Committed(q)}) \in Int
    <3>1. r \notin {q \in Requests : Committed(q)}
      BY <1>2 DEF Committed
    <3> QED
      BY <3>1, OneMoreCommitted
  <2> QED
    BY <2>1, RoutesAssumption DEF ExpectedStock
<1>7. /\ live[i] \in Records
      /\ live[i].stock = ExpectedStock(i) + AddedBy(r, i, n)
      /\ snapshot'[i] \in Records
      /\ snapshot'[i].stock = ExpectedStock(i)
  <2>1. CASE pc[r] = "queued"
    <3>1. \A q \in Requests : ~Busy(q)
      BY <1>3, <2>1 DEF Busy
    <3>2. live[i] \in Records /\ live[i].stock = ExpectedStock(i) /\ snapshot' = live
      BY <1>1, <1>4, <2>1, <3>1 DEF StockCounted
    <3>3. AddedBy(r, i, n) = 0
      BY <1>5, <2>1, EffectOfAll
    <3> QED
      BY <1>6, <3>2, <3>3
  <2>2. CASE pc[r] = "running"
    BY <1>1, <1>4, <2>2 DEF StockCounted, Busy
  <2> QED
    BY <1>1, <2>1, <2>2
<1>8. Records' = Records
  BY DEF Records, StatesWritten
<1>9. CASE OpFails(op)
  <2>1. pc' = [pc EXCEPT ![r] = "failing"] /\ UNCHANGED <<live, step>>
    BY <1>9 DEF ExecuteOperation, Goto
  <2>2. Busy(r)' /\ \A q \in Requests \ {r} : ~Busy(q)'
    BY <1>3, <2>1 DEF Busy, TypeInv, TypeOK
  <2>3. ExpectedStock(i)' = ExpectedStock(i)
    <3>1. \A q \in Requests : Committed(q)' = Committed(q)
      BY <1>1, <2>1 DEF Committed
    <3> QED
      BY <1>1, <3>1, ExpectedStays
  <2>4. AddedBy(r, i, step[r])' = AddedBy(r, i, n)
    BY <1>1, <2>1 DEF AddedBy, Deltas, Delta
  <2> QED
    BY <1>7, <1>8, <2>1, <2>2, <2>3, <2>4 DEF StockCounted
<1>10. CASE ~OpFails(op)
  <2>1. /\ live' = OpEffect(r, op)
        /\ step' = [step EXCEPT ![r] = n + 1]
        /\ \/ step'[r] < Len(req[r].ops) /\ pc' = [pc EXCEPT ![r] = "running"]
           \/ ~(step'[r] < Len(req[r].ops)) /\ pc' = [pc EXCEPT ![r] = "write"]
    BY <1>10 DEF ExecuteOperation, Goto, SetLive
  <2>2. step'[r] = n + 1 /\ \A q \in Requests \ {r} : step'[q] = step[q]
    BY <2>1 DEF TypeInv, TypeOK
  <2>3. live'[i] \in Records /\ live'[i].stock = live[i].stock + Delta(r, n + 1, i)
    BY <1>2, <1>7, <1>10, <2>1, OpAdds
  <2>4. Delta(r, n + 1, i) \in Int /\ AddedBy(r, i, n) \in Int
        /\ AddedBy(r, i, n + 1) = AddedBy(r, i, n) + Delta(r, n + 1, i)
    BY <1>2, OperationDeltas, OneMoreOperation
  <2>5. live'[i].stock = ExpectedStock(i) + AddedBy(r, i, n + 1)
    BY <1>6, <1>7, <2>3, <2>4
  <2>6. CASE n + 1 < Len(req[r].ops)
    <3>1. Busy(r)' /\ \A q \in Requests \ {r} : ~Busy(q)'
      BY <1>3, <2>1, <2>2, <2>6 DEF Busy, TypeInv, TypeOK
    <3>2. ExpectedStock(i)' = ExpectedStock(i)
      <4>1. \A q \in Requests : Committed(q)' = Committed(q)
        BY <1>1, <1>2, <2>2, <2>6 DEF Committed
      <4> QED
        BY <1>1, <4>1, ExpectedStays
    <3>3. AddedBy(r, i, step[r])' = AddedBy(r, i, n + 1)
      BY <1>1, <2>2 DEF AddedBy, Deltas, Delta
    <3> QED
      BY <1>7, <1>8, <2>3, <2>5, <3>1, <3>2, <3>3 DEF StockCounted
  <2>7. CASE ~(n + 1 < Len(req[r].ops))
    <3>1. n + 1 = Len(req[r].ops)
      BY <1>2, <2>7, RequestBody
    <3>2. \A q \in Requests : ~Busy(q)'
      BY <1>3, <2>1, <2>2, <2>7 DEF Busy, TypeInv, TypeOK
    <3>3. ExpectedStock(i)' = ExpectedStock(i) + Effect(r, i)
      <4> DEFINE before == {q \in Requests : Committed(q)}
                 effects == [q \in Requests |-> Effect(q, i)]
      <4>1. r \notin before
        BY <1>2 DEF Committed
      <4>2. {q \in Requests : Committed(q)'} = before \cup {r}
        BY <1>1, <1>5, <2>2, <3>1 DEF Committed
      <4>3. [q \in Requests |-> Effect(q, i)'] = effects
        <5>1. \A q \in Requests : Effect(q, i)' = Effect(q, i)
          BY <1>1 DEF Effect, Delta
        <5> QED
          BY <5>1
      <4>4. /\ SumFunctionOnSet(effects, before) \in Int
            /\ SumFunctionOnSet(effects, before \cup {r})
                   = SumFunctionOnSet(effects, before) + Effect(r, i)
        BY <4>1, OneMoreCommitted
      <4>5. ExpectedStock(i)' = InitialStock + SumFunctionOnSet(effects, before \cup {r})
        BY <4>2, <4>3 DEF ExpectedStock
      <4>6. ExpectedStock(i) = InitialStock + SumFunctionOnSet(effects, before)
        BY DEF ExpectedStock
      <4>7. InitialStock \in Int /\ Effect(r, i) \in Int
        BY RoutesAssumption, EffectOfAll
      <4> HIDE DEF before, effects
      <4> QED
        BY <4>4, <4>5, <4>6, <4>7
    <3>4. AddedBy(r, i, n + 1) = Effect(r, i)
      BY <3>1, EffectOfAll
    <3> QED
      BY <1>8, <2>3, <2>5, <3>2, <3>3, <3>4 DEF StockCounted
  <2> QED
    BY <2>6, <2>7
<1> QED
  BY <1>9, <1>10

\* Every step keeps the books: the handlers' own writes leave counted rows alone, and
\* a rollback puts back what was expected.
LEMMA NextLedger == TypeInv /\ LedgerInv /\ [Next]_vars => LedgerInv'
<1> SUFFICES ASSUME TypeInv, LedgerInv, [Next]_vars PROVE LedgerInv'
  OBVIOUS
<1> USE DEF storeVars, txVars
<1>1. ASSUME NEW r \in Requests, ReadExisting(r) \/ Prepare(r) \/ CreateRecord(r) \/ WriteRow(r)
      PROVE  LedgerInv'
  <2>1. /\ UNCHANGED <<req, step, snapshot>>
        /\ pc[r] \in {"new", "read", "write"}
        /\ pc' \in [Requests -> {"new", "read", "queued", "running", "failing", "write", "done"}]
        /\ \A q \in Requests \ {r} : pc'[q] = pc[q]
        /\ pc'[r] \in {"read", "queued", "write", "done"}
        /\ pc'[r] \in {"read", "queued"} => pc[r] \in {"new", "read"}
        /\ pc'[r] = "queued" => req[r].kind \in TxVerbs
    BY <1>1 DEF ReadExisting, Prepare, CreateRecord, WriteRow, Goto, Answer, TypeInv, TypeOK
  <2>2. \A q \in Requests : Busy(q)' = Busy(q)
    BY <2>1 DEF Busy
  <2>3. StepsCounted'
    BY <2>1 DEF StepsCounted, LedgerInv
  <2>4. OneMap'
    BY <1>1 DEF ReadExisting, Prepare, CreateRecord, WriteRow, SetMounted, OneMap, LedgerInv
  <2>5. ASSUME NEW i \in Products, CountedOnly(i) PROVE live'[i] = live[i]
    <3>1. CASE UNCHANGED live
      BY <3>1
    <3>2. CASE WriteRow(r)
      <4>1. req[r].id # i
        BY <2>5, <3>2 DEF WriteRow, CountedOnly, Overwrites
      <4>2. live' = live \/ live' = [live EXCEPT ![req[r].id] = RowAfter(r)]
        BY <3>2 DEF WriteRow, SetMounted, LedgerInv, OneMap
      <4> QED
        BY <4>1, <4>2 DEF TypeInv, TypeOK, Ids
    <3> QED
      BY <1>1, <3>1, <3>2 DEF ReadExisting, Prepare, CreateRecord
  <2> QED
    BY <2>1, <2>2, <2>3, <2>4, <2>5, NotATransaction
<1>2. ASSUME NEW r \in Requests, ExecuteOperation(r) PROVE LedgerInv'
  <2>1. \A i \in Products : CountedOnly(i)' => StockCounted(i)'
    <3>1. UNCHANGED req
      BY <1>2 DEF ExecuteOperation
    <3>2. \A i \in Products : CountedOnly(i)' => CountedOnly(i)
      BY <3>1 DEF CountedOnly, Overwrites
    <3> QED
      BY <1>2, <3>2, ExecuteCounts
  <2>2. /\ UNCHANGED req /\ pc[r] \in {"queued", "running"}
        /\ \A q \in Requests \ {r} : pc'[q] = pc[q] /\ step'[q] = step[q]
        /\ pc'[r] \in {"failing", "running", "write"}
        /\ pc'[r] = "failing" => step'[r] = step[r]
    BY <1>2 DEF ExecuteOperation, Goto, TypeInv, TypeOK
  <2>3. StepsCounted'
    BY <2>2 DEF StepsCounted, LedgerInv, TypeInv, OperationsLeft
  <2>4. OneMap'
    BY <1>2 DEF ExecuteOperation, SetLive, OneMap, LedgerInv
  <2> QED
    BY <2>1, <2>3, <2>4 DEF LedgerInv
<1>3. ASSUME NEW r \in Requests, Rollback(r) PROVE LedgerInv'
  <2>1. /\ UNCHANGED <<req, step, snapshot>> /\ pc[r] = "failing" /\ live' = snapshot /\ split'
        /\ pc' = [pc EXCEPT ![r] = "done"]
    BY <1>3 DEF Rollback, Answer
  <2>2. \A q \in Requests : ~Busy(q)'
    BY <2>1 DEF Busy, TypeInv, TypeOK, LockHeld, HoldsLock
  <2>3. StepsCounted'
    BY <2>1 DEF StepsCounted, LedgerInv, TypeInv, TypeOK
  <2>4. ASSUME NEW i \in Products, CountedOnly(i)' PROVE StockCounted(i)'
    <3>1. CountedOnly(i)
      BY <2>1, <2>4 DEF CountedOnly, Overwrites
    <3>2. snapshot[i] \in Records /\ snapshot[i].stock = ExpectedStock(i)
      BY <2>1, <3>1 DEF LedgerInv, StockCounted, Busy
    <3>3. ExpectedStock(i)' = ExpectedStock(i)
      <4>1. \A q \in Requests : Committed(q)' = Committed(q)
        BY <2>1 DEF Committed
      <4> QED
        BY <2>1, <4>1, ExpectedStays
    <3>4. Records' = Records
      BY DEF Records, StatesWritten
    <3> QED
      BY <2>1, <2>2, <3>2, <3>3, <3>4 DEF StockCounted
  <2> QED
    BY <2>1, <2>3, <2>4 DEF LedgerInv, OneMap
<1>4. CASE UNCHANGED vars
  <2>1. UNCHANGED <<req, step, snapshot, pc, live, mounted, split>>
    BY <1>4 DEF vars
  <2>2. StepsCounted' /\ OneMap' /\ \A q \in Requests : Busy(q)' = Busy(q)
    BY <2>1 DEF StepsCounted, OneMap, Busy, LedgerInv
  <2> QED
    BY <2>1, <2>2, NotATransaction
<1> QED
  BY <1>1, <1>2, <1>3, <1>4 DEF Next, Handle

\* At the start nothing is committed and every stock is the initial one.
LEMMA InitLedger == Init => LedgerInv
<1> SUFFICES ASSUME Init PROVE LedgerInv
  OBVIOUS
<1>1. TypeInv
  BY InitType
<1>2. /\ \A r \in Requests : pc[r] = "new" /\ step[r] = 0
      /\ mounted = live
      /\ \A i \in Products : live[i] = Row(Initial, InitialStock, FALSE)
  BY DEF Init, Ids
<1>3. \A r \in Requests : ~Committed(r) /\ ~Busy(r)
  BY <1>1, <1>2, RequestBody DEF Committed, Busy
<1>4. \A i \in Products : ExpectedStock(i) = InitialStock
  <2>1. {r \in Requests : Committed(r)} = {}
    BY <1>3
  <2>2. InitialStock \in Int
    BY RoutesAssumption
  <2>3. \A i \in Products : ExpectedStock(i) = InitialStock + 0
    BY <2>1, SumOfNone DEF ExpectedStock
  <2> QED
    BY <2>2, <2>3
<1>5. \A i \in Products : live[i] \in Records /\ live[i].stock = InitialStock
  <2>1. InitialStock \in Nat /\ Initial \in StatesWritten
    BY RoutesAssumption DEF StatesWritten
  <2>2. Row(Initial, InitialStock, FALSE) \in Records
    BY <2>1 DEF Row, Records
  <2> QED
    BY <1>2, <2>2 DEF Row
<1> QED
  BY <1>2, <1>3, <1>4, <1>5 DEF LedgerInv, StepsCounted, OneMap, StockCounted

\* No committed transaction is lost to the rollback of another and no failed one
\* leaves a trace in the rows the next one sees, although each works on the shared
\* Map and a rollback replaces all of it.
THEOREM CommittedOrNothing == Spec => []TransactionsAtomic
<1>1. TypeInv /\ LedgerInv => TransactionsAtomic
  <2> SUFFICES ASSUME TypeInv, LedgerInv, txQueue = <<>>, NEW i \in Products, CountedOnly(i)
               PROVE  live[i].stock = ExpectedStock(i)
    BY DEF TransactionsAtomic
  <2>1. \A r \in Requests : ~Busy(r)
    BY DEF TypeInv, LockHeld, HoldsLock, Busy
  <2> QED
    BY <2>1 DEF LedgerInv, StockCounted
<1> QED
  BY <1>1, InitLedger, NextLedger, TypeInvariant, PTL DEF Spec
=============================================================================
