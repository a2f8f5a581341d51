----------------------- MODULE PrismaWebhookStore_proofs -----------------------
(***************************************************************************)
(* Proofs about the webhook queue in the database, for any number of       *)
(* events, endpoints, emissions and workers.                               *)
(***************************************************************************)
EXTENDS PrismaWebhookStore, TLAPS

USE DeliveryAssumption

-----------------------------------------------------------------------------
(***************************************************************************)
(* Type correctness.  An outcome indexes the rows by cur[w], so the types  *)
(* need that a worker that is delivering has an event it claimed.          *)
(***************************************************************************)
Delivering == {"posting", "accepted", "rejected", "missing"}

CurrentInBatch == \A w \in Workers : pc[w] \in Delivering => cur[w] \in batch[w]

TypeInv == TypeOK /\ CurrentInBatch

\* The outcome of a delivery fits the columns it is written to.
LEMMA OutcomeType ==
    ASSUME TypeInv, NEW w \in Workers, pc[w] \in Delivering
    PROVE  /\ cur[w] \in Events
           /\ AttemptsAfter(w) \in Nat
           /\ RetryAfter(w) \in {"none", "waiting"}
           /\ StatusAfter(w) \in {"delivered", "failed"}
<1>1. cur[w] \in Events
  BY DEF TypeInv, TypeOK, CurrentInBatch
<1>2. AttemptsAfter(w) \in Nat
  BY <1>1 DEF TypeInv, TypeOK, AttemptsAfter
<1> QED
  BY <1>1, <1>2 DEF RetryAfter, StatusAfter

\* A worker that leaves its current event keeps its own variables well typed.
LEMMA NextInBatchType ==
    ASSUME TypeInv, NEW w \in Workers, NextInBatch(w), cur[w] \in Events
    PROVE  /\ pc' \in [Workers -> Phases]
           /\ cand' \in [Workers -> SUBSET Events]
           /\ batch' \in [Workers -> SUBSET Events]
           /\ copy' \in [Workers -> [Events -> Nat]]
           /\ cur' \in [Workers -> Events \cup {0}]
           /\ CurrentInBatch'
<1> USE DEF TypeInv, TypeOK, NextInBatch
<1>1. copy' \in [Workers -> [Events -> Nat]]
  <2>1. [copy[w] EXCEPT ![cur[w]] = 0] \in [Events -> Nat]
    OBVIOUS
  <2> QED
    BY <2>1
<1>2. batch' \in [Workers -> SUBSET Events]
  OBVIOUS
<1>3. pc' \in [Workers -> Phases] /\ pc'[w] \notin Delivering
  BY DEF Phases, Delivering
<1>4. CurrentInBatch'
  BY <1>3 DEF CurrentInBatch
<1> QED
  BY <1>1, <1>2, <1>3, <1>4

\* The steps of a claim.
LEMMA ClaimType == ASSUME TypeInv, NEW w \in Workers, Claim(w) PROVE TypeInv'
<1> USE DEF TypeInv, TypeOK, CurrentInBatch, Phases, Delivering, rowVars, emitVars
<1>1. CASE FindCandidates(w)
  BY <1>1 DEF FindCandidates, Oldest, Ready
<1>2. CASE LockCandidates(w)
  BY <1>2 DEF LockCandidates
<1>3. CASE ReadBack(w)
  BY <1>3 DEF ReadBack, Locked
<1> QED
  BY <1>1, <1>2, <1>3 DEF Claim

\* The steps of a delivery.
LEMMA DeliverType ==
    ASSUME TypeInv, NEW w \in Workers, LookUpNext(w) \/ Deliver(w) PROVE TypeInv'
<1> USE DEF TypeInv, rowVars, emitVars
<1>1. CASE LookUpNext(w)
  BY <1>1 DEF LookUpNext, LookUpEndpoint, TypeOK, CurrentInBatch, Phases, Delivering
<1>2. CASE PostAccepted(w)
  BY <1>2 DEF PostAccepted, TypeOK, CurrentInBatch, Phases, Delivering
<1>3. CASE PostRejected(w)
  BY <1>3 DEF PostRejected, TypeOK, CurrentInBatch, Phases, Delivering
<1>4. CASE WriteBack(w)
  <2>1. pc[w] \in Delivering /\ NextInBatch(w)
    BY <1>4 DEF WriteBack, Delivering
  <2>2. /\ cur[w] \in Events
        /\ AttemptsAfter(w) \in Nat
        /\ RetryAfter(w) \in {"none", "waiting"}
        /\ StatusAfter(w) \in {"delivered", "failed"}
    BY <2>1, OutcomeType
  <2>3. /\ status' \in [Events -> {"absent", "pending", "failed", "delivered", "gone"}]
        /\ attempts' \in [Events -> Nat]
        /\ retry' \in [Events -> {"none", "waiting", "due"}]
        /\ owner' \in [Events -> Workers \cup {Free, Orphan}]
        /\ stale' \in [Events -> BOOLEAN]
    <3>1. CASE Exists(cur[w])
      <4>1. /\ status' = [status EXCEPT ![cur[w]] = StatusAfter(w)]
            /\ attempts' = [attempts EXCEPT ![cur[w]] = AttemptsAfter(w)]
            /\ retry' = [retry EXCEPT ![cur[w]] = RetryAfter(w)]
            /\ owner' = [owner EXCEPT ![cur[w]] = Free]
            /\ stale' = [stale EXCEPT ![cur[w]] = FALSE]
        BY <1>4, <3>1 DEF WriteBack, ClearLock
      <4> QED
        BY <2>2, <4>1 DEF TypeOK
    <3>2. CASE ~Exists(cur[w])
      BY <1>4, <3>2 DEF WriteBack, TypeOK
    <3> QED
      BY <3>1, <3>2
  <2>4. UNCHANGED <<emitVars, accepted, faults>>
    BY <1>4 DEF WriteBack
  <2> QED
    BY <2>1, <2>2, <2>3, <2>4, NextInBatchType DEF TypeOK
<1> QED
  BY <1>1, <1>2, <1>3, <1>4 DEF Deliver

\* A claim that is cut short, or loses an outcome.
LEMMA FaultType ==
    ASSUME TypeInv, NEW w \in Workers, AbandonClaim(w) \/ LoseWriteBack(w) PROVE TypeInv'
<1> USE DEF TypeInv, emitVars
<1>1. CASE AbandonClaim(w)
  BY <1>1 DEF AbandonClaim, TypeOK, CurrentInBatch, Phases, Delivering
<1>2. CASE LoseWriteBack(w)
  <2>1. pc[w] \in Delivering /\ NextInBatch(w)
    BY <1>2 DEF LoseWriteBack, Delivering
  <2>2. cur[w] \in Events
    BY <2>1, OutcomeType
  <2>3. UNCHANGED <<status, attempts, retry, stale, emitVars, accepted>>
    BY <1>2 DEF LoseWriteBack
  <2>4. owner' \in [Events -> Workers \cup {Free, Orphan}] /\ faults' \in 0..MaxFaults
    BY <1>2, <2>2 DEF LoseWriteBack, TypeOK
  <2> QED
    BY <2>1, <2>2, <2>3, <2>4, NextInBatchType DEF TypeOK
<1> QED
  BY <1>1, <1>2

\* emitWebhook, the admin routes and the clock: the workers stand still.
LEMMA SurroundingsType ==
    ASSUME TypeInv,
           \/ \E m \in Emissions : Emit(m) \/ EmitFails(m)
           \/ \E ep \in Endpoints : RegisterEndpoint(ep) \/ DeleteEndpoint(ep)
           \/ TimePasses
    PROVE  TypeInv'
<1> USE DEF TypeInv, TypeOK, CurrentInBatch, rowVars, emitVars, workerVars
<1>1. ASSUME NEW m \in Emissions, FindSubscribers(m) PROVE TypeInv'
  BY <1>1 DEF FindSubscribers
<1>2. ASSUME NEW m \in Emissions, NEW e \in targets[m], CreateRow(m, e) PROVE TypeInv'
  BY <1>2 DEF CreateRow, CreateEvent, EmissionAfter
<1>3. ASSUME NEW m \in Emissions, CutShort(m), faults' \in 0..MaxFaults PROVE TypeInv'
  BY <1>3 DEF CutShort
<1>4. ASSUME NEW ep \in Endpoints, RegisterEndpoint(ep) PROVE TypeInv'
  BY <1>4 DEF RegisterEndpoint
<1>5. ASSUME NEW ep \in Endpoints, DeleteEndpoint(ep) PROVE TypeInv'
  BY <1>5 DEF DeleteEndpoint
<1>6. ASSUME NEW e \in Events, RetryBecomesDue(e) PROVE TypeInv'
  BY <1>6 DEF RetryBecomesDue
<1>7. ASSUME NEW e \in Events, LockExpires(e) PROVE TypeInv'
  BY <1>7 DEF LockExpires
<1>8. ASSUME NEW m \in Emissions, NEW e \in targets[m], ForeignKeyViolation(m, e) PROVE TypeInv'
  BY <1>3, <1>8 DEF ForeignKeyViolation
<1>9. ASSUME NEW m \in Emissions, EmitFails(m) PROVE TypeInv'
  <2>1. faults' \in 0..MaxFaults
    BY <1>9 DEF EmitFails
  <2> QED
    BY <1>3, <1>9, <2>1 DEF EmitFails
<1> QED
  BY <1>1, <1>2, <1>4, <1>5, <1>6, <1>7, <1>8, <1>9 DEF Emit, TimePasses

\* Every step keeps the types.
LEMMA NextType == TypeInv /\ [Next]_vars => TypeInv'
<1> SUFFICES ASSUME TypeInv, [Next]_vars PROVE TypeInv'
  OBVIOUS
<1>1. CASE UNCHANGED vars
  BY <1>1 DEF TypeInv, TypeOK, CurrentInBatch, vars, rowVars, emitVars, workerVars
<1>2. ASSUME NEW w \in Workers, Worker(w) PROVE TypeInv'
  BY <1>2, ClaimType, DeliverType DEF Worker
<1>3. ASSUME NEW w \in Workers, AbandonClaim(w) \/ LoseWriteBack(w) PROVE TypeInv'
  BY <1>3, FaultType
<1> QED
  BY <1>1, <1>2, <1>3, SurroundingsType DEF Next

\* The queue is always well typed, and a worker that is delivering an event is
\* delivering one of its own batch.
THEOREM TypeCorrect == Spec => [](TypeOK /\ CurrentInBatch)
<1>1. Init => TypeInv
  BY DEF Init, TypeInv, TypeOK, CurrentInBatch, Phases, Delivering
<1> QED
  BY <1>1, NextType, PTL DEF Spec, TypeInv

-----------------------------------------------------------------------------
(***************************************************************************)
(* A lock is held by a running claim.  What a claim releases is the lock   *)
(* of a row that still exists, so the invariant needs that the other rows  *)
(* are not locked at all.                                                  *)
(***************************************************************************)
OnlyRowsLocked == \A e \in Events : Exists(e) \/ owner[e] = Free

LockInv == LocksHaveLiveClaims /\ OnlyRowsLocked

\* Locks change only in the store: one case per action that writes owner.
LEMMA NextLock == TypeInv /\ LockInv /\ [Next]_vars => LockInv'
<1> SUFFICES ASSUME TypeInv, LockInv, [Next]_vars PROVE LockInv'
  OBVIOUS
<1> USE DEF LockInv, LocksHaveLiveClaims, OnlyRowsLocked, Exists,
            rowVars, emitVars, workerVars
<1> DEFINE Stands == UNCHANGED <<status, owner, pc, batch>>
<1>1. ASSUME Stands PROVE LockInv'
  BY <1>1
<1>2. ASSUME NEW w \in Workers, FindCandidates(w) PROVE LockInv'
  BY <1>2 DEF FindCandidates, TypeInv, TypeOK
<1>3. ASSUME NEW w \in Workers, LockCandidates(w) PROVE LockInv'
  BY <1>3 DEF LockCandidates, Lockable, TypeInv, TypeOK
<1>4. ASSUME NEW w \in Workers, ReadBack(w) PROVE LockInv'
  BY <1>4 DEF ReadBack, Locked, TypeInv, TypeOK
<1>5. ASSUME NEW w \in Workers, LookUpNext(w) \/ PostAccepted(w) \/ PostRejected(w)
      PROVE  LockInv'
  BY <1>5 DEF LookUpNext, LookUpEndpoint, PostAccepted, PostRejected, TypeInv, TypeOK
<1>6. ASSUME NEW w \in Workers, WriteBack(w) PROVE LockInv'
  <2>1. NextInBatch(w) /\ pc[w] # "locked" /\ cur[w] \in Events
        /\ StatusAfter(w) \in {"delivered", "failed"}
    BY <1>6, OutcomeType DEF WriteBack, Delivering
  <2>2. \A v \in Workers : \A e \in batch[v] : v # w \/ e # cur[w] => e \in batch'[v]
    BY <2>1 DEF NextInBatch, TypeInv, TypeOK
  <2>3. \A v \in Workers : pc[v] = "locked" => pc'[v] = "locked"
    BY <2>1 DEF NextInBatch, TypeInv, TypeOK
  <2>4. CASE Exists(cur[w])
    <3>1. /\ status' = [status EXCEPT ![cur[w]] = StatusAfter(w)]
          /\ owner' = [owner EXCEPT ![cur[w]] = Free]
      BY <1>6, <2>4 DEF WriteBack, ClearLock
    <3> QED
      BY <2>1, <2>2, <2>3, <3>1 DEF TypeInv, TypeOK
  <2>5. CASE ~Exists(cur[w])
    <3>1. UNCHANGED <<status, owner>> /\ owner[cur[w]] = Free
      BY <1>6, <2>1, <2>5 DEF WriteBack
    <3> QED
      BY <2>1, <2>2, <2>3, <3>1 DEF TypeInv, TypeOK
  <2> QED
    BY <2>4, <2>5
<1>7. ASSUME NEW w \in Workers, AbandonClaim(w) PROVE LockInv'
  BY <1>7 DEF AbandonClaim, TypeInv, TypeOK
<1>8. ASSUME NEW w \in Workers, LoseWriteBack(w) PROVE LockInv'
  <2>1. NextInBatch(w) /\ pc[w] # "locked" /\ cur[w] \in Events
    BY <1>8, OutcomeType DEF LoseWriteBack, Delivering
  <2>2. \A v \in Workers : \A e \in batch[v] : v # w \/ e # cur[w] => e \in batch'[v]
    BY <2>1 DEF NextInBatch, TypeInv, TypeOK
  <2>3. \A v \in Workers : pc[v] = "locked" => pc'[v] = "locked"
    BY <2>1 DEF NextInBatch, TypeInv, TypeOK
  <2> QED
    BY <1>8, <2>1, <2>2, <2>3 DEF LoseWriteBack, TypeInv, TypeOK
<1>9. ASSUME NEW m \in Emissions, Emit(m) \/ EmitFails(m) PROVE LockInv'
  <2>1. ASSUME NEW e \in targets[m], CreateRow(m, e) PROVE LockInv'
    BY <2>1 DEF CreateRow, CreateEvent, TypeInv, TypeOK
  <2>2. CASE FindSubscribers(m)
    BY <1>1, <2>2 DEF FindSubscribers
  <2>3. CASE CutShort(m)
    BY <1>1, <2>3 DEF CutShort
  <2> QED
    BY <1>9, <2>1, <2>2, <2>3 DEF Emit, ForeignKeyViolation, EmitFails
<1>10. ASSUME NEW ep \in Endpoints, RegisterEndpoint(ep) PROVE LockInv'
  BY <1>1, <1>10 DEF RegisterEndpoint
<1>11. ASSUME NEW ep \in Endpoints, DeleteEndpoint(ep) PROVE LockInv'
  BY <1>11 DEF DeleteEndpoint, TypeInv, TypeOK
<1>12. CASE TimePasses
  BY <1>1, <1>12 DEF TimePasses, RetryBecomesDue, LockExpires
<1>13. CASE UNCHANGED vars
  BY <1>1, <1>13 DEF vars
<1> QED
  BY <1>2, <1>3, <1>4, <1>5, <1>6, <1>7, <1>8, <1>9, <1>10, <1>11, <1>12, <1>13
  DEF Next, Worker, Claim, Deliver

\* A lock is always held by a claim that will release it, or by nobody: only the
\* locks of crashed claims and lost outcomes wait for lockTtlMs.
THEOREM LiveLocks == Spec => []LocksHaveLiveClaims
<1>1. Init => LockInv
  BY DEF Init, LockInv, LocksHaveLiveClaims, OnlyRowsLocked
<1>2. LockInv => LocksHaveLiveClaims
  BY DEF LockInv
<1> QED
  BY <1>1, <1>2, NextLock, TypeCorrect, PTL DEF Spec, TypeInv

-----------------------------------------------------------------------------
(***************************************************************************)
(* A delivered row was accepted.  The answer is remembered by the worker   *)
(* between the POST and the write of the outcome.                          *)
(***************************************************************************)
AcceptedIsCounted ==
    \A w \in Workers : pc[w] = "accepted" => accepted[cur[w]] >= 1

DeliveryInv == DeliveredWasAccepted /\ AcceptedIsCounted

\* One case per action that answers a POST or writes a status.
LEMMA NextDelivery == TypeInv /\ DeliveryInv /\ [Next]_vars => DeliveryInv'
<1> SUFFICES ASSUME TypeInv, DeliveryInv, [Next]_vars PROVE DeliveryInv'
  OBVIOUS
<1> USE DEF DeliveryInv, DeliveredWasAccepted, AcceptedIsCounted,
            rowVars, emitVars, workerVars
<1> DEFINE Stands == UNCHANGED <<status, pc, cur, accepted>>
<1>1. ASSUME Stands PROVE DeliveryInv'
  BY <1>1
<1>2. ASSUME NEW w \in Workers, Claim(w) \/ LookUpNext(w) \/ PostRejected(w)
      PROVE  DeliveryInv'
  <2>1. CASE Claim(w)
    BY <2>1 DEF Claim, FindCandidates, LockCandidates, ReadBack, TypeInv, TypeOK
  <2>2. CASE LookUpNext(w)
    BY <2>2 DEF LookUpNext, LookUpEndpoint, TypeInv, TypeOK
  <2>3. CASE PostRejected(w)
    BY <2>3 DEF PostRejected, TypeInv, TypeOK
  <2> QED
    BY <1>2, <2>1, <2>2, <2>3
<1>3. ASSUME NEW w \in Workers, PostAccepted(w) PROVE DeliveryInv'
  <2>1. cur[w] \in Events
    BY <1>3, OutcomeType DEF PostAccepted, Delivering
  <2>2. accepted'[cur[w]] >= 1 /\ \A e \in Events : accepted'[e] >= accepted[e]
    <3>1. \A e \in Events : accepted[e] \in 0..2
      BY DEF TypeInv, TypeOK
    <3>2. \A e \in Events :
              accepted'[e] = IF e = cur[w] THEN IF accepted[e] = 0 THEN 1 ELSE 2 ELSE accepted[e]
      BY <1>3, <2>1 DEF PostAccepted, TypeInv, TypeOK
    <3> HIDE DEF Stands
    <3> QED
      BY <2>1, <3>1, <3>2
  <2>3. \A v \in Workers : pc[v] = "accepted" => cur[v] \in Events
    BY OutcomeType DEF Delivering
  <2> QED
    BY <1>3, <2>1, <2>2, <2>3 DEF PostAccepted, TypeInv, TypeOK
<1>4. ASSUME NEW w \in Workers, WriteBack(w) PROVE DeliveryInv'
  <2>1. NextInBatch(w) /\ cur[w] \in Events /\ UNCHANGED accepted
    BY <1>4, OutcomeType DEF WriteBack, Delivering
  <2>2. \A e \in Events : status'[e] = "delivered" => accepted[e] >= 1
    <3>1. status' = status \/ status' = [status EXCEPT ![cur[w]] = StatusAfter(w)]
      BY <1>4 DEF WriteBack
    <3>2. StatusAfter(w) = "delivered" => accepted[cur[w]] >= 1
      BY DEF StatusAfter
    <3> QED
      BY <2>1, <3>1, <3>2 DEF TypeInv, TypeOK
  <2> QED
    BY <2>1, <2>2 DEF NextInBatch, TypeInv, TypeOK
<1>5. ASSUME NEW w \in Workers, AbandonClaim(w) PROVE DeliveryInv'
  BY <1>5 DEF AbandonClaim, TypeInv, TypeOK
<1>6. ASSUME NEW w \in Workers, LoseWriteBack(w) PROVE DeliveryInv'
  BY <1>6 DEF LoseWriteBack, NextInBatch, TypeInv, TypeOK
<1>7. ASSUME NEW m \in Emissions, Emit(m) \/ EmitFails(m) PROVE DeliveryInv'
  <2>1. ASSUME NEW e \in targets[m], CreateRow(m, e) PROVE DeliveryInv'
    BY <2>1 DEF CreateRow, CreateEvent, TypeInv, TypeOK
  <2>2. CASE FindSubscribers(m)
    BY <1>1, <2>2 DEF FindSubscribers
  <2>3. CASE CutShort(m)
    BY <1>1, <2>3 DEF CutShort
  <2> QED
    BY <1>7, <2>1, <2>2, <2>3 DEF Emit, ForeignKeyViolation, EmitFails
<1>8. ASSUME NEW ep \in Endpoints, RegisterEndpoint(ep) PROVE DeliveryInv'
  BY <1>1, <1>8 DEF RegisterEndpoint
<1>9. ASSUME NEW ep \in Endpoints, DeleteEndpoint(ep) PROVE DeliveryInv'
  BY <1>9 DEF DeleteEndpoint, TypeInv, TypeOK
<1>10. CASE TimePasses
  BY <1>1, <1>10 DEF TimePasses, RetryBecomesDue, LockExpires
<1>11. CASE UNCHANGED vars
  BY <1>1, <1>11 DEF vars
<1> QED
  BY <1>2, <1>3, <1>4, <1>5, <1>6, <1>7, <1>8, <1>9, <1>10, <1>11
  DEF Next, Worker, Deliver

\* A row says "delivered" only if the receiver answered 2xx, whatever claims
\* overlapped, were abandoned or lost their outcome.
THEOREM DeliveredRowsAccepted == Spec => []DeliveredWasAccepted
<1>1. Init => DeliveryInv
  BY DEF Init, DeliveryInv, DeliveredWasAccepted, AcceptedIsCounted
<1>2. DeliveryInv => DeliveredWasAccepted
  BY DEF DeliveryInv
<1> QED
  BY <1>1, <1>2, NextDelivery, TypeCorrect, PTL DEF Spec, TypeInv

-----------------------------------------------------------------------------
(***************************************************************************)
(* Claims are disjoint, provided that no claim outlives its lock.  Disjoint*)
(* batches are not enough to go on: a batch must own the rows it holds, so *)
(* that the lock guard of step 2 keeps them from other claims, and a lock  *)
(* that is owned must be fresh.                                            *)
(***************************************************************************)
BatchOwnsRows ==
    \A w \in Workers : \A e \in batch[w] :
        status[e] # "absent" /\ (Exists(e) => owner[e] = w)

OwnedLocksFresh == \A e \in Events : owner[e] \in Workers => ~stale[e]

DisjointInv == ClaimsDisjoint /\ BatchOwnsRows /\ OwnedLocksFresh

\* One case per action that writes a lock, a batch or a status.
LEMMA NextDisjoint ==
    ASSUME OutlivedIn = {}, TypeInv, LockInv, DisjointInv, [Next]_vars
    PROVE  DisjointInv'
<1> USE DEF DisjointInv, ClaimsDisjoint, BatchOwnsRows, OwnedLocksFresh, Exists,
            rowVars, emitVars, workerVars
<1> DEFINE Stands == UNCHANGED <<status, owner, stale, batch>>
<1>1. ASSUME Stands PROVE DisjointInv'
  BY <1>1
<1>2. ASSUME NEW w \in Workers, LockCandidates(w) PROVE DisjointInv'
  <2>1. \A v \in Workers : batch[v] \cap Lockable(w) = {}
    BY DEF Lockable, Unlocked, TypeInv, TypeOK
  <2> QED
    BY <1>2, <2>1 DEF LockCandidates, TypeInv, TypeOK
<1>3. ASSUME NEW w \in Workers, ReadBack(w) PROVE DisjointInv'
  <2>1. \A v \in Workers : v # w => batch[v] \cap Locked(w) = {}
    BY DEF Locked, LockInv, OnlyRowsLocked, TypeInv, TypeOK
  <2>2. \A e \in Locked(w) : Exists(e) /\ owner[e] = w
    BY DEF Locked, LockInv, OnlyRowsLocked
  <2> QED
    BY <1>3, <2>1, <2>2 DEF ReadBack, TypeInv, TypeOK
<1>4. ASSUME NEW w \in Workers,
             FindCandidates(w) \/ LookUpNext(w) \/ PostAccepted(w) \/ PostRejected(w)
      PROVE  DisjointInv'
  BY <1>1, <1>4 DEF FindCandidates, LookUpNext, LookUpEndpoint, PostAccepted, PostRejected
<1>5. ASSUME NEW w \in Workers, WriteBack(w) PROVE DisjointInv'
  <2>1. /\ NextInBatch(w)
        /\ cur[w] \in batch[w] /\ cur[w] \in Events
        /\ StatusAfter(w) \in {"delivered", "failed"}
    BY <1>5, OutcomeType DEF WriteBack, Delivering, TypeInv, CurrentInBatch
  <2>2. batch' = [batch EXCEPT ![w] = @ \ {cur[w]}]
    BY <2>1 DEF NextInBatch
  <2>3. \A v \in Workers : batch'[v] \subseteq batch[v] /\ cur[w] \notin batch'[v]
    BY <2>1, <2>2 DEF TypeInv, TypeOK
  <2>4. CASE Exists(cur[w])
    <3>1. /\ status' = [status EXCEPT ![cur[w]] = StatusAfter(w)]
          /\ owner' = [owner EXCEPT ![cur[w]] = Free]
          /\ stale' = [stale EXCEPT ![cur[w]] = FALSE]
      BY <1>5, <2>4 DEF WriteBack, ClearLock
    <3>2. ClaimsDisjoint' /\ BatchOwnsRows'
      BY <2>1, <2>3, <3>1 DEF TypeInv, TypeOK
    <3>3. OwnedLocksFresh'
      BY <2>1, <3>1 DEF TypeInv, TypeOK
    <3> QED
      BY <3>2, <3>3
  <2>5. CASE ~Exists(cur[w])
    <3>1. UNCHANGED <<status, owner, stale>>
      BY <1>5, <2>5 DEF WriteBack
    <3> QED
      BY <2>3, <3>1
  <2> QED
    BY <2>4, <2>5
<1>6. ASSUME NEW w \in Workers, AbandonClaim(w) PROVE DisjointInv'
  BY <1>6 DEF AbandonClaim, TypeInv, TypeOK
<1>7. ASSUME NEW w \in Workers, LoseWriteBack(w) PROVE DisjointInv'
  <2>1. NextInBatch(w) /\ cur[w] \in batch[w] /\ cur[w] \in Events
    BY <1>7, OutcomeType DEF LoseWriteBack, Delivering, TypeInv, CurrentInBatch
  <2>2. batch' = [batch EXCEPT ![w] = @ \ {cur[w]}]
    BY <2>1 DEF NextInBatch
  <2>3. \A v \in Workers : batch'[v] \subseteq batch[v] /\ cur[w] \notin batch'[v]
    BY <2>1, <2>2 DEF TypeInv, TypeOK
  <2> QED
    BY <1>7, <2>1, <2>3 DEF LoseWriteBack, TypeInv, TypeOK
<1>8. ASSUME NEW m \in Emissions, Emit(m) \/ EmitFails(m) PROVE DisjointInv'
  <2>1. ASSUME NEW e \in targets[m], CreateRow(m, e) PROVE DisjointInv'
    <3>1. e \in Events /\ status[e] = "absent"
      BY <2>1 DEF CreateRow, CreateEvent, NextTarget, Uncreated, TypeInv, TypeOK
    <3> QED
      BY <2>1, <3>1 DEF CreateRow, CreateEvent, TypeInv, TypeOK
  <2>2. CASE FindSubscribers(m)
    BY <1>1, <2>2 DEF FindSubscribers
  <2>3. CASE CutShort(m)
    BY <1>1, <2>3 DEF CutShort
  <2> QED
    BY <1>8, <2>1, <2>2, <2>3 DEF Emit, ForeignKeyViolation, EmitFails
<1>9. ASSUME NEW ep \in Endpoints, RegisterEndpoint(ep) PROVE DisjointInv'
  BY <1>1, <1>9 DEF RegisterEndpoint
<1>10. ASSUME NEW ep \in Endpoints, DeleteEndpoint(ep) PROVE DisjointInv'
  BY <1>10 DEF DeleteEndpoint, TypeInv, TypeOK
<1>11. ASSUME NEW e \in Events, RetryBecomesDue(e) PROVE DisjointInv'
  BY <1>1, <1>11 DEF RetryBecomesDue
<1>12. ASSUME NEW e \in Events, LockExpires(e) PROVE DisjointInv'
  BY <1>12 DEF LockExpires, TypeInv, TypeOK
<1>13. CASE UNCHANGED vars
  BY <1>1, <1>13 DEF vars
<1> QED
  BY <1>2, <1>3, <1>4, <1>5, <1>6, <1>7, <1>8, <1>9, <1>10, <1>11, <1>12, <1>13
  DEF Next, Worker, Claim, Deliver, TimePasses

\* As long as no claim outlives its lock, two running claims never hold the same
\* event, although the three steps of a claim interleave with those of others.
THEOREM DisjointClaims ==
    ASSUME OutlivedIn = {} PROVE Spec => []ClaimsDisjoint
<1>1. Init => LockInv /\ DisjointInv
  BY DEF Init, LockInv, LocksHaveLiveClaims, OnlyRowsLocked,
         DisjointInv, ClaimsDisjoint, BatchOwnsRows, OwnedLocksFresh
<1>2. TypeInv /\ LockInv /\ DisjointInv /\ [Next]_vars => DisjointInv'
  BY NextDisjoint
<1>3. DisjointInv => ClaimsDisjoint
  BY DEF DisjointInv
<1> QED
  BY <1>1, <1>2, <1>3, NextLock, TypeCorrect, PTL DEF Spec, TypeInv
=============================================================================
