----------------------- MODULE MemoryWebhookStore_proofs -----------------------
(***************************************************************************)
(* Proofs about the webhook queue in memory, for any number of events,     *)
(* endpoints, emissions and overlapping calls of runOnce.                  *)
(***************************************************************************)
EXTENDS MemoryWebhookStore, TLAPS

USE DeliveryAssumption

-----------------------------------------------------------------------------
(***************************************************************************)
(* Type correctness.                                                       *)
(***************************************************************************)
Delivering == {"posting", "accepted", "rejected", "missing"}

CurrentInBatch == \A w \in Workers : pc[w] \in Delivering => cur[w] \in batch[w]

TypeInv == TypeOK /\ CurrentInBatch

\* The outcome of a delivery fits the columns it is written to.
LEMMA OutcomeType ==
    ASSUME TypeInv, NEW w \in Workers, pc[w] \in Delivering
    PROVE  /\ cur[w] \in Events
           /\ AttemptsAfter(w) \in Nat
           /\ RetryAfter(w) \in {"none", "waiting"}
           /\ StatusAfter(w) \in {"delivered", "failed"}
<1>1. cur[w] \in Events
  BY DEF TypeInv, TypeOK, CurrentInBatch
<1>2. AttemptsAfter(w) \in Nat
  BY <1>1 DEF TypeInv, TypeOK, AttemptsAfter
<1> QED
  BY <1>1, <1>2 DEF RetryAfter, StatusAfter

\* A claim copies the attempts of the events it takes.
LEMMA ClaimType == ASSUME TypeInv, NEW w \in Workers, ClaimReadyEvents(w) PROVE TypeInv'
<1> DEFINE claimed == {e \in Claimable : Cardinality(Claimable \cap older[e]) < BatchSize}
<1>1. claimed \subseteq Events
  BY DEF Claimable
<1>2. /\ owner' = [e \in Events |-> IF e \in claimed THEN w ELSE owner[e]]
      /\ stale' = [e \in Events |-> IF e \in claimed THEN FALSE ELSE stale[e]]
      /\ batch' = [batch EXCEPT ![w] = claimed]
      /\ copy' = [copy EXCEPT ![w] = [e \in Events |-> IF e \in claimed THEN attempts[e] ELSE 0]]
      /\ pc' = [pc EXCEPT ![w] = "batch"]
      /\ UNCHANGED <<status, attempts, retry, emitVars, cand, cur, accepted, faults>>
  BY DEF ClaimReadyEvents
<1> HIDE DEF claimed
<1>3. copy' \in [Workers -> [Events -> Nat]]
  <2>1. [e \in Events |-> IF e \in claimed THEN attempts[e] ELSE 0] \in [Events -> Nat]
    BY DEF TypeInv, TypeOK
  <2> QED
    BY <1>2, <2>1 DEF TypeInv, TypeOK
<1> QED
  BY <1>1, <1>2, <1>3
  DEF TypeInv, TypeOK, CurrentInBatch, Phases, Delivering, rowVars, emitVars

\* The steps of a delivery.
LEMMA DeliverType ==
    ASSUME TypeInv, NEW w \in Workers, LookUpNext(w) \/ Deliver(w) PROVE TypeInv'
<1> USE DEF TypeInv, rowVars, emitVars
<1>1. CASE LookUpNext(w)
  BY <1>1 DEF LookUpNext, LookUpEndpoint, TypeOK, CurrentInBatch, Phases, Delivering
<1>2. CASE PostAccepted(w)
  BY <1>2 DEF PostAccepted, TypeOK, CurrentInBatch, Phases, Delivering
<1>3. CASE PostRejected(w)
  BY <1>3 DEF PostRejected, TypeOK, CurrentInBatch, Phases, Delivering
<1>4. CASE WriteBack(w)
  <2>1. pc[w] \in Delivering /\ NextInBatch(w)
    BY <1>4 DEF WriteBack, Delivering
  <2>2. /\ cur[w] \in Events
        /\ AttemptsAfter(w) \in Nat
        /\ RetryAfter(w) \in {"none", "waiting"}
        /\ StatusAfter(w) \in {"delivered", "failed"}
    BY <2>1, OutcomeType
  <2>3. /\ status' \in [Events -> {"absent", "pending", "failed", "delivered", "gone"}]
        /\ attempts' \in [Events -> Nat]
        /\ retry' \in [Events -> {"none", "waiting", "due"}]
        /\ owner' \in [Events -> Workers \cup {Free, Orphan}]
        /\ stale' \in [Events -> BOOLEAN]
    <3>1. CASE Exists(cur[w])
      <4>1. /\ status' = [status EXCEPT ![cur[w]] = StatusAfter(w)]
            /\ attempts' = [attempts EXCEPT ![cur[w]] = AttemptsAfter(w)]
            /\ retry' = [retry EXCEPT ![cur[w]] = RetryAfter(w)]
            /\ owner' = [owner EXCEPT ![cur[w]] = Free]
            /\ stale' = [stale EXCEPT ![cur[w]] = FALSE]
        BY <1>4, <3>1 DEF WriteBack, ClearLock
      <4> QED
        BY <2>2, <4>1 DEF TypeOK
    <3>2. CASE ~Exists(cur[w])
      BY <1>4, <3>2 DEF WriteBack, TypeOK
    <3> QED
      BY <3>1, <3>2
  <2>4. UNCHANGED <<emitVars, accepted, faults>>
    BY <1>4 DEF WriteBack
  <2>5. copy' \in [Workers -> [Events -> Nat]]
    <3>1. [copy[w] EXCEPT ![cur[w]] = 0] \in [Events -> Nat]
      BY DEF TypeOK
    <3> QED
      BY <2>1, <3>1 DEF NextInBatch, TypeOK
  <2>6. /\ pc' \in [Workers -> Phases] /\ pc'[w] \notin Delivering
        /\ batch' \in [Workers -> SUBSET Events]
        /\ cur' \in [Workers -> Events \cup {0}]
        /\ UNCHANGED cand
    BY <2>1 DEF NextInBatch, TypeOK, Phases, Delivering
  <2>7. CurrentInBatch'
    BY <2>1, <2>6 DEF NextInBatch, TypeOK, CurrentInBatch
  <2> QED
    BY <2>3, <2>4, <2>5, <2>6, <2>7 DEF TypeOK
<1> QED
  BY <1>1, <1>2, <1>3, <1>4 DEF Deliver

\* emitWebhook, the admin routes and the clock: the workers stand still.
LEMMA SurroundingsType ==
    ASSUME TypeInv,
           \/ \E m \in Emissions : Emit(m)
           \/ \E ep \in Endpoints : RegisterEndpoint(ep) \/ DeleteEndpoint(ep)
           \/ TimePasses
    PROVE  TypeInv'
<1> USE DEF TypeInv, TypeOK, CurrentInBatch, rowVars, emitVars, workerVars
<1>1. ASSUME NEW m \in Emissions, FindSubscribers(m) PROVE TypeInv'
  BY <1>1 DEF FindSubscribers
<1>2. ASSUME NEW m \in Emissions, NEW e \in targets[m], CreateEvent(m, e) PROVE TypeInv'
  BY <1>2 DEF CreateEvent, EmissionAfter
<1>3. ASSUME NEW ep \in Endpoints, RegisterEndpoint(ep) \/ DeleteEndpoint(ep) PROVE TypeInv'
  BY <1>3 DEF RegisterEndpoint, DeleteEndpoint
<1>4. ASSUME NEW e \in Events, RetryBecomesDue(e) PROVE TypeInv'
  BY <1>4 DEF RetryBecomesDue
<1>5. ASSUME NEW e \in Events, LockExpires(e) PROVE TypeInv'
  BY <1>5 DEF LockExpires
<1> QED
  BY <1>1, <1>2, <1>3, <1>4, <1>5 DEF Emit, TimePasses

\* Every step keeps the types.
LEMMA NextType == TypeInv /\ [Next]_vars => TypeInv'
<1> SUFFICES ASSUME TypeInv, [Next]_vars PROVE TypeInv'
  OBVIOUS
<1>1. CASE UNCHANGED vars
  BY <1>1 DEF TypeInv, TypeOK, CurrentInBatch, vars, rowVars, emitVars, workerVars
<1>2. ASSUME NEW w \in Workers, Worker(w) PROVE TypeInv'
  BY <1>2, ClaimType, DeliverType DEF Worker
<1> QED
  BY <1>1, <1>2, SurroundingsType DEF Next

\* The queue is always well typed, and a worker that is delivering an event is
\* delivering one of its own batch.
THEOREM TypeCorrect == Spec => [](TypeOK /\ CurrentInBatch)
<1>1. Init => TypeInv
  BY DEF Init, TypeInv, TypeOK, CurrentInBatch, Phases, Delivering
<1> QED
  BY <1>1, NextType, PTL DEF Spec, TypeInv

-----------------------------------------------------------------------------
(***************************************************************************)
(* emitWebhook.  A call is over only when every row it set out to create   *)
(* exists, and nothing removes a row of the Map.                           *)
(***************************************************************************)
NothingOwed == \A m \in Emissions : emission[m] = "over" => Uncreated(m) = {}

\* No step removes a row.
LEMMA RowsStay ==
    ASSUME TypeInv, [Next]_vars, NEW e \in Events, status[e] # "absent"
    PROVE  status'[e] # "absent"
<1> USE DEF rowVars, emitVars, workerVars
<1>1. ASSUME NEW w \in Workers, WriteBack(w) PROVE status'[e] # "absent"
  <2>1. StatusAfter(w) # "absent"
    BY DEF StatusAfter
  <2> QED
    BY <1>1, <2>1 DEF WriteBack, TypeInv, TypeOK
<1>2. ASSUME NEW w \in Workers,
             ClaimReadyEvents(w) \/ LookUpNext(w) \/ PostAccepted(w) \/ PostRejected(w)
      PROVE  status' = status
  BY <1>2 DEF ClaimReadyEvents, LookUpNext, LookUpEndpoint, PostAccepted, PostRejected
<1>3. ASSUME NEW m \in Emissions, Emit(m) PROVE status'[e] # "absent"
  BY <1>3 DEF Emit, FindSubscribers, CreateEvent, TypeInv, TypeOK
<1>4. ASSUME NEW ep \in Endpoints, RegisterEndpoint(ep) \/ DeleteEndpoint(ep)
      PROVE  status' = status
  BY <1>4 DEF RegisterEndpoint, DeleteEndpoint
<1>5. CASE TimePasses
  BY <1>5 DEF TimePasses, RetryBecomesDue, LockExpires
<1>6. CASE UNCHANGED vars
  BY <1>6 DEF vars
<1> QED
  BY <1>1, <1>2, <1>3, <1>4, <1>5, <1>6 DEF Next, Worker, Deliver

\* Only emitWebhook writes emission and targets.
LEMMA NextOwed == TypeInv /\ NothingOwed /\ [Next]_vars => NothingOwed'
<1> SUFFICES ASSUME TypeInv, NothingOwed, [Next]_vars PROVE NothingOwed'
  OBVIOUS
<1> USE DEF NothingOwed, Uncreated, rowVars, emitVars, workerVars
<1>1. ASSUME UNCHANGED <<emission, targets>> PROVE NothingOwed'
  BY <1>1, RowsStay DEF TypeInv, TypeOK
<1>2. ASSUME NEW m \in Emissions, FindSubscribers(m) PROVE NothingOwed'
  BY <1>2 DEF FindSubscribers, TypeInv, TypeOK
<1>3. ASSUME NEW m \in Emissions, NEW e \in targets[m], CreateEvent(m, e) PROVE NothingOwed'
  <2>1. \A n \in Emissions : Uncreated(n)' \subseteq Uncreated(n) \ {e}
    BY <1>3, RowsStay DEF CreateEvent, TypeInv, TypeOK
  <2>2. \A n \in Emissions : emission'[n] = "over" =>
            (n = m /\ Uncreated(m) = {e}) \/ emission[n] = "over"
    BY <1>3 DEF CreateEvent, EmissionAfter, TypeInv, TypeOK
  <2> QED
    BY <2>1, <2>2
<1>4. ASSUME NEW w \in Workers, Worker(w) PROVE UNCHANGED <<emission, targets>>
  BY <1>4 DEF Worker, Deliver, ClaimReadyEvents, LookUpNext, LookUpEndpoint,
              PostAccepted, PostRejected, WriteBack
<1>5. ASSUME NEW ep \in Endpoints, RegisterEndpoint(ep) \/ DeleteEndpoint(ep)
      PROVE  UNCHANGED <<emission, targets>>
  BY <1>5 DEF RegisterEndpoint, DeleteEndpoint
<1>6. CASE TimePasses
  BY <1>1, <1>6 DEF TimePasses, RetryBecomesDue, LockExpires
<1>7. CASE UNCHANGED vars
  BY <1>1, <1>7 DEF vars
<1> QED
  BY <1>1, <1>2, <1>3, <1>4, <1>5, <1>6, <1>7 DEF Next, Emit

\* When emitWebhook is over, every endpoint it found subscribed has its event,
\* whatever was registered, deleted or delivered while its loop ran.
THEOREM FanOutIsComplete == Spec => []FanOutComplete
<1>1. Init => NothingOwed
  BY DEF Init, NothingOwed
<1>2. NothingOwed => FanOutComplete
  BY DEF NothingOwed, FanOutComplete, Uncreated
<1> QED
  BY <1>1, <1>2, NextOwed, TypeCorrect, PTL DEF Spec, TypeInv

-----------------------------------------------------------------------------
(***************************************************************************)
(* The queue's inductive invariant, provided that no runOnce outlives its  *)
(* lock: claims and locks agree, a claim holds only open rows and an exact *)
(* copy of their attempts, and the receiver has accepted an event once if  *)
(* its row says so or a worker is about to write it, never otherwise.      *)
(***************************************************************************)
Open(e) == status[e] = "pending" \/ (status[e] = "failed" /\ retry[e] # "none")

LocksAreClaims ==
    \A e \in Events :
        /\ owner[e] # Orphan /\ ~stale[e]
        /\ \A w \in Workers : owner[e] = w <=> e \in batch[w]

AttemptsCounted ==
    \A e \in Events :
        /\ status[e] # "gone"
        /\ status[e] = "absent" => attempts[e] = 0
        /\ Open(e) => attempts[e] < MaxAttempts
        /\ status[e] = "failed" /\ retry[e] = "none" => attempts[e] = MaxAttempts

ClaimsAreCurrent ==
    \A w \in Workers : \A e \in batch[w] : Open(e) /\ copy[w][e] = attempts[e]

AcceptancesCounted ==
    \A e \in Events :
        accepted[e] = IF status[e] = "delivered" \/ Unrecorded(e) THEN 1 ELSE 0

IdleHoldsNothing == \A w \in Workers : pc[w] = "idle" => batch[w] = {}

QueueInv ==
    /\ LocksAreClaims /\ IdleHoldsNothing
    /\ AttemptsCounted
    /\ ClaimsAreCurrent /\ AcceptancesCounted

\* The event a worker is delivering is open, nobody else's, and was never accepted
\* unless this very worker was just told so.
LEMMA CurrentIsMine ==
    ASSUME TypeInv, QueueInv, NEW w \in Workers, pc[w] \in Delivering
    PROVE  /\ cur[w] \in Events /\ cur[w] \in batch[w]
           /\ Open(cur[w]) /\ Exists(cur[w])
           /\ copy[w][cur[w]] = attempts[cur[w]] /\ attempts[cur[w]] < MaxAttempts
           /\ \A v \in Workers : cur[w] \in batch[v] => v = w
           /\ \A v \in Workers : pc[v] \in Delivering /\ cur[v] = cur[w] => v = w
           /\ Unrecorded(cur[w]) <=> pc[w] = "accepted"
<1>1. cur[w] \in Events /\ cur[w] \in batch[w]
  BY DEF TypeInv, TypeOK, CurrentInBatch
<1>2. Open(cur[w]) /\ copy[w][cur[w]] = attempts[cur[w]] /\ attempts[cur[w]] < MaxAttempts
  BY <1>1 DEF QueueInv, ClaimsAreCurrent, AttemptsCounted
<1>3. Exists(cur[w])
  BY <1>2 DEF Open, Exists
<1>4. \A v \in Workers : cur[w] \in batch[v] => v = w
  BY <1>1 DEF QueueInv, LocksAreClaims
<1>5. \A v \in Workers : pc[v] \in Delivering /\ cur[v] = cur[w] => v = w
  BY <1>4 DEF TypeInv, CurrentInBatch
<1>6. Unrecorded(cur[w]) <=> pc[w] = "accepted"
  BY <1>5 DEF Unrecorded, Delivering
<1> QED
  BY <1>1, <1>2, <1>3, <1>4, <1>5, <1>6

\* What an outcome leaves behind.
LEMMA WriteBackEffect ==
    ASSUME TypeInv, QueueInv, NEW w \in Workers, WriteBack(w)
    PROVE  /\ pc[w] \in {"accepted", "rejected", "missing"} /\ pc[w] \in Delivering
           /\ status' = [status EXCEPT ![cur[w]] = StatusAfter(w)]
           /\ attempts' = [attempts EXCEPT ![cur[w]] = AttemptsAfter(w)]
           /\ retry' = [retry EXCEPT ![cur[w]] = RetryAfter(w)]
           /\ owner' = [owner EXCEPT ![cur[w]] = Free]
           /\ stale' = [stale EXCEPT ![cur[w]] = FALSE]
           /\ NextInBatch(w)
           /\ UNCHANGED <<emitVars, accepted, faults>>
<1>1. pc[w] \in {"accepted", "rejected", "missing"} /\ pc[w] \in Delivering
  BY DEF WriteBack, Delivering
<1>2. Exists(cur[w])
  BY <1>1, CurrentIsMine
<1> QED
  BY <1>1, <1>2 DEF WriteBack, ClearLock

\* A worker is about to record an acceptance only of a row it holds.
LEMMA UnrecordedIsOpen ==
    ASSUME TypeInv, QueueInv, NEW e \in Events, Unrecorded(e) PROVE Open(e)
BY DEF TypeInv, CurrentInBatch, Unrecorded, Delivering, QueueInv, ClaimsAreCurrent

\* A claim takes open, free rows.
LEMMA ClaimQueue ==
    ASSUME TypeInv, QueueInv, NEW w \in Workers, ClaimReadyEvents(w) PROVE QueueInv'
<1> DEFINE claimed == {e \in Claimable : Cardinality(Claimable \cap older[e]) < BatchSize}
<1>1. \A e \in claimed : e \in Events /\ Open(e) /\ owner[e] = Free
  BY DEF Claimable, Due, Unlocked, Open, QueueInv, LocksAreClaims
<1>2. /\ pc[w] = "idle"
      /\ owner' = [e \in Events |-> IF e \in claimed THEN w ELSE owner[e]]
      /\ stale' = [e \in Events |-> IF e \in claimed THEN FALSE ELSE stale[e]]
      /\ batch' = [batch EXCEPT ![w] = claimed]
      /\ copy' = [copy EXCEPT ![w] = [e \in Events |-> IF e \in claimed THEN attempts[e] ELSE 0]]
      /\ pc' = [pc EXCEPT ![w] = "batch"]
      /\ UNCHANGED <<status, attempts, retry, cur, accepted>>
  BY DEF ClaimReadyEvents
<1> HIDE DEF claimed
<1>3. \A v \in Workers : batch[v] \cap claimed = {}
  BY <1>1 DEF QueueInv, LocksAreClaims
<1>4. LocksAreClaims'
  <2>1. Orphan # w /\ Free # w
    OBVIOUS
  <2>2. \A e \in Events : owner'[e] # Orphan /\ ~stale'[e]
    BY <1>2, <2>1 DEF QueueInv, LocksAreClaims
  <2>3. ASSUME NEW e \in Events, NEW v \in Workers PROVE owner'[e] = v <=> e \in batch'[v]
    <3>1. owner[e] = v <=> e \in batch[v]
      BY DEF QueueInv, LocksAreClaims
    <3>2. e \in batch'[v] <=> IF v = w THEN e \in claimed ELSE e \in batch[v]
      BY <1>2 DEF TypeInv, TypeOK
    <3> QED
      BY <1>1, <1>2, <1>3, <2>1, <3>1, <3>2 DEF QueueInv, IdleHoldsNothing
  <2> QED
    BY <2>2, <2>3 DEF LocksAreClaims
<1>5. AttemptsCounted'
  BY <1>2 DEF QueueInv, AttemptsCounted, Open
<1>6. ClaimsAreCurrent'
  <2>1. \A e \in claimed : copy'[w][e] = attempts[e]
    BY <1>1, <1>2 DEF TypeInv, TypeOK
  <2> QED
    BY <1>1, <1>2, <2>1 DEF QueueInv, ClaimsAreCurrent, Open, TypeInv, TypeOK
<1>7. \A e \in Events : Unrecorded(e)' <=> Unrecorded(e)
  BY <1>2 DEF Unrecorded, TypeInv, TypeOK
<1>8. IdleHoldsNothing'
  BY <1>2 DEF QueueInv, IdleHoldsNothing, TypeInv, TypeOK
<1> QED
  BY <1>2, <1>4, <1>5, <1>6, <1>7, <1>8 DEF QueueInv, AcceptancesCounted

\* The look-up and the answer of the POST.
LEMMA DeliverQueue ==
    ASSUME TypeInv, QueueInv, NEW w \in Workers,
           LookUpNext(w) \/ PostAccepted(w) \/ PostRejected(w)
    PROVE  QueueInv'
<1> DEFINE same == UNCHANGED <<status, attempts, retry, owner, stale, batch, copy>>
<1>1. /\ same
      /\ pc' # pc => /\ pc[w] # "idle"
                     /\ \E p \in Phases \ {"idle"} : pc' = [pc EXCEPT ![w] = p]
  BY DEF LookUpNext, LookUpEndpoint, PostAccepted, PostRejected, rowVars, Phases
<1>2. LocksAreClaims' /\ AttemptsCounted' /\ ClaimsAreCurrent'
  BY <1>1 DEF QueueInv, LocksAreClaims, AttemptsCounted, ClaimsAreCurrent, Open
<1>3. IdleHoldsNothing'
  BY <1>1 DEF QueueInv, IdleHoldsNothing, TypeInv, TypeOK
<1>4. CASE LookUpNext(w)
  <2>1. /\ pc[w] = "batch" /\ pc'[w] # "accepted"
        /\ \A v \in Workers \ {w} : pc'[v] = pc[v] /\ cur'[v] = cur[v]
        /\ UNCHANGED <<status, accepted>>
    BY <1>4 DEF LookUpNext, LookUpEndpoint, rowVars, TypeInv, TypeOK
  <2>2. \A e \in Events : Unrecorded(e)' <=> Unrecorded(e)
    BY <2>1 DEF Unrecorded
  <2> QED
    BY <1>2, <1>3, <2>1, <2>2 DEF QueueInv, AcceptancesCounted
<1>5. CASE PostRejected(w)
  <2>1. /\ pc[w] = "posting" /\ pc'[w] = "rejected"
        /\ \A v \in Workers \ {w} : pc'[v] = pc[v]
        /\ UNCHANGED <<status, accepted, cur>>
    BY <1>5 DEF PostRejected, rowVars, TypeInv, TypeOK
  <2>2. \A e \in Events : Unrecorded(e)' <=> Unrecorded(e)
    BY <2>1 DEF Unrecorded
  <2> QED
    BY <1>2, <1>3, <2>1, <2>2 DEF QueueInv, AcceptancesCounted
<1>6. CASE PostAccepted(w)
  <2>1. /\ pc[w] = "posting" /\ pc[w] \in Delivering /\ pc'[w] = "accepted"
        /\ \A v \in Workers \ {w} : pc'[v] = pc[v]
        /\ UNCHANGED <<status, cur>>
        /\ accepted' = [accepted EXCEPT ![cur[w]] = IF @ = 0 THEN 1 ELSE 2]
    BY <1>6 DEF PostAccepted, rowVars, TypeInv, TypeOK, Delivering
  <2>2. cur[w] \in Events /\ Open(cur[w]) /\ ~Unrecorded(cur[w])
    BY <2>1, CurrentIsMine
  <2>3. accepted[cur[w]] = 0
    BY <2>2 DEF QueueInv, AcceptancesCounted, Open
  <2>4. \A e \in Events : Unrecorded(e)' <=> Unrecorded(e) \/ e = cur[w]
    BY <2>1 DEF Unrecorded
  <2>5. \A e \in Events : accepted'[e] = IF e = cur[w] THEN 1 ELSE accepted[e]
    BY <2>1, <2>2, <2>3 DEF TypeInv, TypeOK
  <2> QED
    BY <1>2, <1>3, <2>1, <2>2, <2>4, <2>5 DEF QueueInv, AcceptancesCounted
<1> QED
  BY <1>4, <1>5, <1>6

\* What is written leaves the row settled, or open with attempts left.
LEMMA OutcomeCounts ==
    ASSUME TypeInv, QueueInv, NEW w \in Workers, WriteBack(w), NEW e, e = cur[w]
    PROVE  /\ status'[e] = IF pc[w] = "accepted" THEN "delivered" ELSE "failed"
           /\ attempts'[e] = IF pc[w] = "missing" THEN MaxAttempts ELSE attempts[e] + 1
           /\ retry'[e] = IF pc[w] = "rejected" /\ attempts[e] + 1 < MaxAttempts
                          THEN "waiting" ELSE "none"
           /\ Open(e)' => attempts'[e] < MaxAttempts
           /\ status'[e] = "failed" /\ retry'[e] = "none" => attempts'[e] = MaxAttempts
<1>1. pc[w] \in {"accepted", "rejected", "missing"} /\ pc[w] \in Delivering
  BY WriteBackEffect
<1>2. /\ e \in Events /\ copy[w][e] = attempts[e]
      /\ attempts[e] < MaxAttempts /\ attempts[e] \in Nat
  BY <1>1, CurrentIsMine DEF TypeInv, TypeOK
<1>3. AttemptsAfter(w) = IF pc[w] = "missing" THEN MaxAttempts ELSE attempts[e] + 1
  BY <1>2 DEF AttemptsAfter
<1>4. status'[e] = StatusAfter(w) /\ attempts'[e] = AttemptsAfter(w) /\ retry'[e] = RetryAfter(w)
  BY <1>2, WriteBackEffect DEF TypeInv, TypeOK
<1>5. retry'[e] = IF pc[w] = "rejected" /\ attempts[e] + 1 < MaxAttempts
                  THEN "waiting" ELSE "none"
  BY <1>3, <1>4 DEF RetryAfter
<1>6. status'[e] = IF pc[w] = "accepted" THEN "delivered" ELSE "failed"
  BY <1>4 DEF StatusAfter
<1> QED
  BY <1>1, <1>2, <1>3, <1>4, <1>5, <1>6 DEF Open

\* The outcome of a delivery.
LEMMA WriteBackQueue ==
    ASSUME TypeInv, QueueInv, NEW w \in Workers, WriteBack(w) PROVE QueueInv'
<1>1. /\ pc[w] \in Delivering
      /\ status' = [status EXCEPT ![cur[w]] = StatusAfter(w)]
      /\ attempts' = [attempts EXCEPT ![cur[w]] = AttemptsAfter(w)]
      /\ retry' = [retry EXCEPT ![cur[w]] = RetryAfter(w)]
      /\ owner' = [owner EXCEPT ![cur[w]] = Free]
      /\ stale' = [stale EXCEPT ![cur[w]] = FALSE]
      /\ NextInBatch(w) /\ UNCHANGED accepted
  BY WriteBackEffect
<1>2. PICK e \in Events :
          /\ e = cur[w] /\ e \in batch[w]
          /\ \A v \in Workers : e \in batch[v] => v = w
          /\ \A v \in Workers : pc[v] \in Delivering /\ cur[v] = e => v = w
          /\ Unrecorded(e) <=> pc[w] = "accepted"
          /\ Open(e)
  BY <1>1, CurrentIsMine
<1>3. \A f \in Events \ {e} :
          /\ status'[f] = status[f] /\ attempts'[f] = attempts[f] /\ retry'[f] = retry[f]
          /\ owner'[f] = owner[f] /\ stale'[f] = stale[f]
          /\ Open(f)' <=> Open(f)
  BY <1>1, <1>2 DEF TypeInv, TypeOK, Open
<1>4. /\ batch'[w] = batch[w] \ {e}
      /\ \A v \in Workers \ {w} : batch'[v] = batch[v] /\ copy'[v] = copy[v] /\ pc'[v] = pc[v]
                                  /\ cur'[v] = cur[v]
      /\ \A f \in Events \ {e} : copy'[w][f] = copy[w][f]
      /\ pc'[w] = IF batch[w] = {e} THEN "idle" ELSE "batch"
  BY <1>1, <1>2 DEF NextInBatch, TypeInv, TypeOK
<1>5. LocksAreClaims'
  <2>1. owner'[e] = Free /\ ~stale'[e]
    BY <1>1, <1>2 DEF TypeInv, TypeOK
  <2>2. \A v \in Workers : e \notin batch'[v]
    BY <1>2, <1>4
  <2>3. \A f \in Events \ {e} : \A v \in Workers : f \in batch'[v] <=> f \in batch[v]
    BY <1>4
  <2> QED
    BY <1>3, <2>1, <2>2, <2>3 DEF QueueInv, LocksAreClaims
<1>6. IdleHoldsNothing'
  BY <1>4 DEF QueueInv, IdleHoldsNothing
<1>7. AttemptsCounted'
  <2>1. status'[e] \in {"delivered", "failed"}
    BY <1>2, OutcomeCounts
  <2>2. /\ Open(e)' => attempts'[e] < MaxAttempts
        /\ status'[e] = "failed" /\ retry'[e] = "none" => attempts'[e] = MaxAttempts
    BY <1>2, OutcomeCounts
  <2>3. \A f \in Events \ {e} :
            /\ status'[f] # "gone"
            /\ status'[f] = "absent" => attempts'[f] = 0
            /\ Open(f)' => attempts'[f] < MaxAttempts
            /\ status'[f] = "failed" /\ retry'[f] = "none" => attempts'[f] = MaxAttempts
    BY <1>3 DEF QueueInv, AttemptsCounted
  <2> QED
    BY <2>1, <2>2, <2>3 DEF AttemptsCounted
<1>8. ClaimsAreCurrent'
  <2>1. \A v \in Workers : batch'[v] \subseteq batch[v] \ {e} /\ batch[v] \subseteq Events
    BY <1>2, <1>4 DEF TypeInv, TypeOK
  <2> QED
    BY <1>3, <1>4, <2>1 DEF QueueInv, ClaimsAreCurrent
<1>9. AcceptancesCounted'
  <2>1. ~Unrecorded(e)'
    BY <1>2, <1>4 DEF Unrecorded, Delivering
  <2>2. \A f \in Events \ {e} : Unrecorded(f)' <=> Unrecorded(f)
    BY <1>2, <1>4 DEF Unrecorded
  <2>3. status'[e] = "delivered" <=> Unrecorded(e)
    BY <1>2, OutcomeCounts
  <2>4. status[e] # "delivered"
    BY <1>2 DEF Open
  <2> QED
    BY <1>1, <1>2, <1>3, <2>1, <2>2, <2>3, <2>4 DEF QueueInv, AcceptancesCounted
<1> QED
  BY <1>5, <1>6, <1>7, <1>8, <1>9 DEF QueueInv

\* emitWebhook, the admin routes and the clock.  A lock that expires is one a
\* runOnce outlived, which is what the assumption on OutlivedIn excludes.
LEMMA SurroundingsQueue ==
    ASSUME OutlivedIn = {}, TypeInv, QueueInv,
           \/ \E m \in Emissions : Emit(m)
           \/ \E ep \in Endpoints : RegisterEndpoint(ep) \/ DeleteEndpoint(ep)
           \/ TimePasses
           \/ UNCHANGED vars
    PROVE  QueueInv'
<1> USE DEF QueueInv, LocksAreClaims, IdleHoldsNothing, AttemptsCounted, ClaimsAreCurrent,
            AcceptancesCounted, Open, Unrecorded, rowVars, emitVars, workerVars
<1>1. ASSUME UNCHANGED <<rowVars, workerVars, accepted>> PROVE QueueInv'
  BY <1>1
<1>2. ASSUME NEW m \in Emissions, NEW e \in targets[m], CreateEvent(m, e) PROVE QueueInv'
  <2>1. /\ e \in Events /\ status[e] = "absent" /\ attempts[e] = 0
        /\ status' = [status EXCEPT ![e] = "pending"]
        /\ UNCHANGED <<attempts, retry, owner, stale, workerVars, accepted>>
    BY <1>2 DEF CreateEvent, NextTarget, Uncreated, TypeInv, TypeOK
  <2>2. \A f \in Events : status'[f] = IF f = e THEN "pending" ELSE status[f]
    BY <2>1 DEF TypeInv, TypeOK
  <2>3. \A w \in Workers : e \notin batch[w]
    BY <2>1
  <2>4. LocksAreClaims' /\ IdleHoldsNothing'
    BY <2>1
  <2>5. AttemptsCounted'
    BY <2>1, <2>2
  <2>6. ClaimsAreCurrent'
    BY <2>1, <2>2, <2>3 DEF TypeInv, TypeOK
  <2>7. AcceptancesCounted'
    BY <2>1, <2>2
  <2> QED
    BY <2>4, <2>5, <2>6, <2>7
<1>3. ASSUME NEW e \in Events, RetryBecomesDue(e) PROVE QueueInv'
  <2>1. \A f \in Events : (retry'[f] = "none" <=> retry[f] = "none")
    BY <1>3 DEF RetryBecomesDue, TypeInv, TypeOK
  <2> QED
    BY <1>3, <2>1 DEF RetryBecomesDue, TypeInv, TypeOK
<1>4. ASSUME NEW e \in Events, LockExpires(e) PROVE FALSE
  BY <1>4 DEF LockExpires
<1>5. ASSUME NEW m \in Emissions, FindSubscribers(m) PROVE QueueInv'
  BY <1>1, <1>5 DEF FindSubscribers
<1>6. ASSUME NEW ep \in Endpoints, RegisterEndpoint(ep) \/ DeleteEndpoint(ep) PROVE QueueInv'
  BY <1>1, <1>6 DEF RegisterEndpoint, DeleteEndpoint
<1>7. CASE UNCHANGED vars
  BY <1>1, <1>7 DEF vars
<1> HIDE DEF QueueInv
<1> QED
  BY <1>2, <1>3, <1>4, <1>5, <1>6, <1>7 DEF Emit, TimePasses

\* Every step keeps the invariant.
LEMMA NextQueue ==
    ASSUME OutlivedIn = {}, TypeInv, QueueInv, [Next]_vars PROVE QueueInv'
<1>1. ASSUME NEW w \in Workers, Worker(w) PROVE QueueInv'
  BY <1>1, ClaimQueue, DeliverQueue, WriteBackQueue DEF Worker, Deliver
<1> QED
  BY <1>1, SurroundingsQueue DEF Next

LEMMA QueueInvariant == ASSUME OutlivedIn = {} PROVE Spec => []QueueInv
<1>1. Init => QueueInv
  BY DEF Init, QueueInv, LocksAreClaims, IdleHoldsNothing, AttemptsCounted, ClaimsAreCurrent,
         AcceptancesCounted, Open, Unrecorded
<1>2. TypeInv /\ QueueInv /\ [Next]_vars => QueueInv'
  BY NextQueue
<1> QED
  BY <1>1, <1>2, TypeCorrect, PTL DEF Spec, TypeInv

\* The receiver accepts an event at most once, as long as no runOnce outlives its
\* lock: overlapping calls never post one event twice, and none posts it again
\* once its acceptance is known.
THEOREM AcceptedOnce == ASSUME OutlivedIn = {} PROVE Spec => []AcceptedAtMostOnce
<1>1. QueueInv => AcceptedAtMostOnce
  BY DEF QueueInv, AcceptancesCounted, AcceptedAtMostOnce
<1> QED
  BY <1>1, QueueInvariant, PTL

-----------------------------------------------------------------------------
(***************************************************************************)
(* The queue implements WebhookOutbox.  Under the invariant every step of  *)
(* the store and its workers is a step of the outbox on one event, or      *)
(* changes nothing the outbox sees.                                        *)
(***************************************************************************)
Tries(e) == attempts[e] + IF OutboxState(e) = "accepted" THEN 1 ELSE 0

\* What the mapping shows of an open row, and of the others.
LEMMA OpenRows ==
    ASSUME TypeInv, QueueInv, NEW e \in Events
    PROVE  /\ Open(e) => OutboxState(e) = IF Unrecorded(e) THEN "accepted" ELSE "queued"
           /\ ~Open(e) => /\ OutboxState(e) = status[e]
                          /\ status[e] \in {"absent", "delivered", "failed"}
           /\ OutboxState(e) = "accepted" => Open(e) /\ Unrecorded(e)
           /\ Tries(e) \in Nat
<1>1. attempts[e] \in Nat /\ status[e] \in {"absent", "pending", "failed", "delivered"}
  BY DEF TypeInv, TypeOK, QueueInv, AttemptsCounted
<1>2. Unrecorded(e) => Open(e)
  BY UnrecordedIsOpen
<1> QED
  BY <1>1, <1>2 DEF OutboxState, Tries, Open

\* A step that leaves every event's state and tries alone is a stutter.
LEMMA OutboxStutters ==
    ASSUME \A f \in Events : OutboxState(f)' = OutboxState(f) /\ attempts'[f] = attempts[f]
    PROVE  UNCHANGED Outbox!vars
BY DEF Outbox!vars

\* A step that moves one event is the move of that event.
LEMMA OutboxMoves ==
    ASSUME NEW e \in Events, NEW to, NEW n,
           OutboxState(e)' = to, Tries(e)' = n,
           \A f \in Events \ {e} : OutboxState(f)' = OutboxState(f) /\ attempts'[f] = attempts[f]
    PROVE  /\ [f \in Events |-> OutboxState(f)]' =
                  [[f \in Events |-> OutboxState(f)] EXCEPT ![e] = to]
           /\ [f \in Events |-> attempts[f] + IF OutboxState(f) = "accepted" THEN 1 ELSE 0]' =
                  [[f \in Events |-> attempts[f] + IF OutboxState(f) = "accepted" THEN 1 ELSE 0]
                      EXCEPT ![e] = n]
BY DEF Tries

\* The rows a step does not write show the same, if their acceptances do.
LEMMA SameRow ==
    ASSUME NEW e, status'[e] = status[e], retry'[e] = "none" <=> retry[e] = "none",
           Unrecorded(e)' <=> Unrecorded(e)
    PROVE  OutboxState(e)' = OutboxState(e)
BY DEF OutboxState

\* A new row is queued.
LEMMA CreateImplements ==
    ASSUME TypeInv, QueueInv, NEW m \in Emissions, NEW e \in targets[m], CreateEvent(m, e)
    PROVE  Outbox!Queue(e) /\ e \in Events
<1>1. /\ e \in Events /\ status[e] = "absent"
      /\ status' = [status EXCEPT ![e] = "pending"]
      /\ UNCHANGED <<attempts, retry, workerVars>>
  BY DEF CreateEvent, NextTarget, Uncreated, TypeInv, TypeOK
<1>2. \A f \in Events : Unrecorded(f)' <=> Unrecorded(f)
  BY <1>1 DEF Unrecorded, workerVars
<1>3. \A f \in Events \ {e} : OutboxState(f)' = OutboxState(f) /\ attempts'[f] = attempts[f]
  BY <1>1, <1>2, SameRow DEF TypeInv, TypeOK
<1>4. ~Open(e) /\ ~Unrecorded(e)
  BY <1>1, UnrecordedIsOpen DEF Open
<1>5. OutboxState(e) = "absent" /\ Tries(e) = attempts[e]
  BY <1>1, <1>4, OpenRows DEF Tries, TypeInv, TypeOK
<1>6. status'[e] = "pending"
  BY <1>1 DEF TypeInv, TypeOK
<1>7. OutboxState(e)' = "queued"
  BY <1>1, <1>2, <1>4, <1>6 DEF OutboxState
<1>8. Tries(e)' = Tries(e)
  BY <1>1, <1>5, <1>7 DEF Tries, TypeInv, TypeOK
<1> QED
  BY <1>1, <1>3, <1>5, <1>7, <1>8, OutboxMoves DEF Outbox!Queue, Outbox!Move, Tries

\* A 2xx answer is the acceptance of an event that has attempts left.
LEMMA AcceptImplements ==
    ASSUME TypeInv, QueueInv, NEW w \in Workers, PostAccepted(w)
    PROVE  Outbox!Next
<1>1. /\ pc[w] = "posting" /\ pc[w] \in Delivering /\ pc'[w] = "accepted"
      /\ \A v \in Workers \ {w} : pc'[v] = pc[v]
      /\ UNCHANGED <<status, attempts, retry, cur>>
  BY DEF PostAccepted, rowVars, TypeInv, TypeOK, Delivering
<1>2. PICK e \in Events :
          e = cur[w] /\ Open(e) /\ ~Unrecorded(e) /\ attempts[e] < MaxAttempts
  BY <1>1, CurrentIsMine
<1>3. \A f \in Events : Unrecorded(f)' <=> Unrecorded(f) \/ f = e
  BY <1>1, <1>2 DEF Unrecorded
<1>4. \A f \in Events \ {e} : OutboxState(f)' = OutboxState(f) /\ attempts'[f] = attempts[f]
  BY <1>1, <1>3, SameRow
<1>5. OutboxState(e) = "queued" /\ Tries(e) = attempts[e] /\ attempts[e] \in Nat
  BY <1>2, OpenRows DEF Tries, TypeInv, TypeOK
<1>6. OutboxState(e)' = "accepted"
  BY <1>1, <1>2, <1>3 DEF OutboxState, Open
<1>7. Tries(e)' = Tries(e) + 1
  BY <1>1, <1>5, <1>6 DEF Tries
<1>8. Outbox!Accept(e)
  BY <1>2, <1>4, <1>5, <1>6, <1>7, OutboxMoves DEF Outbox!Accept, Outbox!Move, Tries
<1> QED
  BY <1>8 DEF Outbox!Next, Outbox!Try

\* An outcome records the acceptance, counts a refusal, or gives up.
LEMMA WriteBackImplements ==
    ASSUME TypeInv, QueueInv, NEW w \in Workers, WriteBack(w)
    PROVE  Outbox!Next
<1>1. /\ pc[w] \in {"accepted", "rejected", "missing"} /\ pc[w] \in Delivering
      /\ status' = [status EXCEPT ![cur[w]] = StatusAfter(w)]
      /\ attempts' = [attempts EXCEPT ![cur[w]] = AttemptsAfter(w)]
      /\ retry' = [retry EXCEPT ![cur[w]] = RetryAfter(w)]
      /\ NextInBatch(w)
  BY WriteBackEffect
<1>2. PICK e \in Events :
          /\ e = cur[w] /\ Open(e) /\ attempts[e] < MaxAttempts /\ attempts[e] \in Nat
          /\ \A v \in Workers : pc[v] \in Delivering /\ cur[v] = e => v = w
          /\ Unrecorded(e) <=> pc[w] = "accepted"
  BY <1>1, CurrentIsMine DEF TypeInv, TypeOK
<1>3. /\ pc'[w] \in {"idle", "batch"}
      /\ \A v \in Workers \ {w} : pc'[v] = pc[v] /\ cur'[v] = cur[v]
  BY <1>1 DEF NextInBatch, TypeInv, TypeOK
<1>4. \A f \in Events : Unrecorded(f)' <=> Unrecorded(f) /\ f # e
  BY <1>2, <1>3 DEF Unrecorded, Delivering
<1>5. \A f \in Events \ {e} : OutboxState(f)' = OutboxState(f) /\ attempts'[f] = attempts[f]
  BY <1>1, <1>2, <1>4, SameRow DEF TypeInv, TypeOK
<1>6. /\ status'[e] = IF pc[w] = "accepted" THEN "delivered" ELSE "failed"
      /\ attempts'[e] = IF pc[w] = "missing" THEN MaxAttempts ELSE attempts[e] + 1
      /\ retry'[e] = IF pc[w] = "rejected" /\ attempts[e] + 1 < MaxAttempts
                     THEN "waiting" ELSE "none"
  BY <1>2, OutcomeCounts
<1>7. ~Unrecorded(e)'
  BY <1>4
<1>8. CASE pc[w] = "accepted"
  <2>1. OutboxState(e) = "accepted" /\ Tries(e) = attempts[e] + 1
    BY <1>2, <1>8, OpenRows DEF Tries
  <2>2. OutboxState(e)' = "delivered" /\ Tries(e)' = attempts[e] + 1
    <3>1. OutboxState(e)' = "delivered"
      BY <1>6, <1>7, <1>8 DEF OutboxState
    <3> QED
      BY <1>2, <1>6, <1>8, <3>1 DEF Tries
  <2>3. Outbox!Record(e)
    BY <1>5, <2>1, <2>2, OutboxMoves DEF Outbox!Record, Outbox!Move, Tries
  <2> QED
    BY <2>3 DEF Outbox!Next, Outbox!Try
<1>9. CASE pc[w] # "accepted"
  <2>1. OutboxState(e) = "queued" /\ Tries(e) = attempts[e]
    BY <1>2, <1>9, OpenRows DEF Tries
  <2>2. CASE retry'[e] = "waiting"
    <3>1. attempts'[e] = attempts[e] + 1 /\ attempts[e] + 1 < MaxAttempts
      BY <1>6, <2>2
    <3>2. OutboxState(e)' = "queued" /\ Tries(e)' = Tries(e) + 1
      <4>1. OutboxState(e)' = "queued"
        BY <1>6, <1>7, <1>9, <2>2 DEF OutboxState
      <4> QED
        BY <1>2, <2>1, <3>1, <4>1 DEF Tries
    <3>3. Outbox!Refuse(e)
      <4>1. /\ [f \in Events |-> OutboxState(f)]' =
                    [[f \in Events |-> OutboxState(f)] EXCEPT ![e] = "queued"]
            /\ [f \in Events |-> attempts[f] + IF OutboxState(f) = "accepted" THEN 1 ELSE 0]' =
                    [[f \in Events |-> attempts[f] + IF OutboxState(f) = "accepted" THEN 1 ELSE 0]
                        EXCEPT ![e] = Tries(e) + 1]
        BY <1>5, <3>2, OutboxMoves
      <4> QED
        BY <2>1, <3>1, <4>1 DEF Outbox!Refuse, Outbox!Move, Tries
    <3> QED
      BY <3>3 DEF Outbox!Next, Outbox!Try
  <2>3. CASE retry'[e] # "waiting"
    <3>1. attempts'[e] = MaxAttempts /\ retry'[e] = "none"
      BY <1>1, <1>2, <1>6, <1>9, <2>3
    <3>2. OutboxState(e)' = "failed" /\ Tries(e)' = MaxAttempts
      <4>1. OutboxState(e)' = "failed"
        BY <1>6, <1>7, <1>9, <3>1 DEF OutboxState
      <4> QED
        BY <3>1, <4>1 DEF Tries
    <3>3. Outbox!GiveUp(e)
      BY <1>5, <2>1, <3>2, OutboxMoves DEF Outbox!GiveUp, Outbox!Move, Tries
    <3> QED
      BY <3>3 DEF Outbox!Next, Outbox!Try
  <2> QED
    BY <2>2, <2>3
<1> QED
  BY <1>8, <1>9

\* Everything else is invisible to the outbox: claims, look-ups and refusals not yet
\* written, the subscribers' look-up, the admin routes and the clock.
LEMMA InvisibleSteps ==
    ASSUME TypeInv, QueueInv,
           \/ \E w \in Workers : ClaimReadyEvents(w) \/ LookUpNext(w) \/ PostRejected(w)
           \/ \E m \in Emissions : FindSubscribers(m)
           \/ \E ep \in Endpoints : RegisterEndpoint(ep) \/ DeleteEndpoint(ep)
           \/ TimePasses
           \/ UNCHANGED vars
    PROVE  UNCHANGED Outbox!vars
<1> USE DEF rowVars, emitVars, workerVars
<1> DEFINE Hidden == /\ UNCHANGED <<status, attempts>>
                     /\ \A e \in Events : retry'[e] = "none" <=> retry[e] = "none"
<1>1. ASSUME Hidden, \A e \in Events : Unrecorded(e)' <=> Unrecorded(e)
      PROVE  UNCHANGED Outbox!vars
  BY <1>1, SameRow, OutboxStutters
<1>2. ASSUME Hidden, UNCHANGED <<pc, cur>> PROVE UNCHANGED Outbox!vars
  BY <1>1, <1>2 DEF Unrecorded
<1>3. ASSUME NEW w \in Workers, ClaimReadyEvents(w) \/ LookUpNext(w) \/ PostRejected(w)
      PROVE  UNCHANGED Outbox!vars
  <2>1. /\ pc[w] # "accepted" /\ pc'[w] # "accepted"
        /\ \A v \in Workers \ {w} : pc'[v] = pc[v] /\ cur'[v] = cur[v]
        /\ UNCHANGED <<status, attempts, retry>>
    <3>1. CASE ClaimReadyEvents(w)
      BY <3>1 DEF ClaimReadyEvents, TypeInv, TypeOK
    <3>2. CASE LookUpNext(w)
      BY <3>2 DEF LookUpNext, LookUpEndpoint, TypeInv, TypeOK
    <3>3. CASE PostRejected(w)
      BY <3>3 DEF PostRejected, TypeInv, TypeOK
    <3> QED
      BY <1>3, <3>1, <3>2, <3>3
  <2>2. \A e \in Events : Unrecorded(e)' <=> Unrecorded(e)
    BY <2>1 DEF Unrecorded
  <2> QED
    BY <1>1, <2>1, <2>2
<1>4. ASSUME NEW m \in Emissions, FindSubscribers(m) PROVE UNCHANGED Outbox!vars
  BY <1>2, <1>4 DEF FindSubscribers
<1>5. ASSUME NEW ep \in Endpoints, RegisterEndpoint(ep) \/ DeleteEndpoint(ep)
      PROVE  UNCHANGED Outbox!vars
  BY <1>2, <1>5 DEF RegisterEndpoint, DeleteEndpoint
<1>6. CASE TimePasses
  <2>1. Hidden /\ UNCHANGED <<pc, cur>>
    BY <1>6 DEF TimePasses, RetryBecomesDue, LockExpires, TypeInv, TypeOK
  <2> QED
    BY <1>2, <2>1
<1>7. CASE UNCHANGED vars
  BY <1>2, <1>7 DEF vars
<1> HIDE DEF Hidden
<1> QED
  BY <1>3, <1>4, <1>5, <1>6, <1>7

\* Every step of the queue is a step of the outbox or a stutter.
LEMMA StepImplements == TypeInv /\ QueueInv /\ [Next]_vars => [Outbox!Next]_(Outbox!vars)
<1> SUFFICES ASSUME TypeInv, QueueInv, [Next]_vars PROVE [Outbox!Next]_(Outbox!vars)
  OBVIOUS
<1>1. ASSUME NEW w \in Workers, Worker(w) PROVE [Outbox!Next]_(Outbox!vars)
  BY <1>1, AcceptImplements, WriteBackImplements, InvisibleSteps DEF Worker, Deliver
<1>2. ASSUME NEW m \in Emissions, Emit(m) PROVE [Outbox!Next]_(Outbox!vars)
  <2>1. ASSUME NEW e \in targets[m], CreateEvent(m, e) PROVE Outbox!Next
    BY <2>1, CreateImplements DEF Outbox!Next
  <2> QED
    BY <1>2, <2>1, InvisibleSteps DEF Emit
<1> QED
  BY <1>1, <1>2, InvisibleSteps DEF Next

\* The safety half of ImplementsOutbox: as long as no runOnce outlives its lock, the
\* store and its overlapping workers never do what WebhookOutbox forbids, that is
\* post a settled event again, exceed MaxAttempts, forget an acceptance or reopen a row.
THEOREM ImplementsOutboxSafety == ASSUME OutlivedIn = {} PROVE Spec => Outbox!Spec
<1>1. Init => Outbox!Init
  BY DEF Init, Outbox!Init, OutboxState, Unrecorded
<1> QED
  BY <1>1, StepImplements, QueueInvariant, TypeCorrect, PTL DEF Spec, Outbox!Spec, TypeInv
=============================================================================
