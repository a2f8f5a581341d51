-------------------------- MODULE PrismaWebhookStore --------------------------
(***************************************************************************)
(* The webhook queue kept in the database (src/webhooks/prisma-store.ts):  *)
(* several workers, one per instance of the service, share it.  A claim is *)
(* three database calls, and every call may interleave with those of other *)
(* workers.  Rows are deleted with their endpoint (onDelete: Cascade).     *)
(***************************************************************************)
EXTENDS WebhookDelivery

(***************************************************************************)
(* Step 1 of claimReadyEvents: the candidates, read without any lock.      *)
(***************************************************************************)
Ready == {e \in Events : Due(e) /\ Unlocked(e)}

FindCandidates(w) ==
    /\ pc[w] = "idle"
    /\ Ready # {}
    /\ cand' = [cand EXCEPT ![w] = Oldest(Ready)]
    /\ pc' = [pc EXCEPT ![w] = "candidates"]
    /\ UNCHANGED <<rowVars, emitVars, batch, copy, cur, accepted, faults>>

(***************************************************************************)
(* Step 2: one UPDATE that re-checks the lock guard, and only that.        *)
(***************************************************************************)
LockableUnchecked(w) == {e \in cand[w] : Exists(e)}  \* mutant: no lock guard

Lockable(w) == {e \in cand[w] : Exists(e) /\ Unlocked(e)}

LockCandidates(w) ==
    /\ pc[w] = "candidates"
    /\ owner' = [e \in Events |-> IF e \in Lockable(w) THEN w ELSE owner[e]]
    /\ stale' = [e \in Events |-> IF e \in Lockable(w) THEN FALSE ELSE stale[e]]
    /\ cand' = [cand EXCEPT ![w] = {}]
    /\ pc' = [pc EXCEPT ![w] = "locked"]
    /\ UNCHANGED <<status, attempts, retry, emitVars, batch, copy, cur, accepted, faults>>

(***************************************************************************)
(* Step 3: read back the rows that carry this claim's lock.                *)
(***************************************************************************)
Locked(w) == {e \in Events : owner[e] = w}

ReadBack(w) ==
    /\ pc[w] = "locked"
    /\ batch' = [batch EXCEPT ![w] = Locked(w)]
    /\ copy' = [copy EXCEPT ![w] =
                    [e \in Events |-> IF e \in Locked(w) THEN attempts[e] ELSE 0]]
    /\ pc' = [pc EXCEPT ![w] = IF Locked(w) = {} THEN "idle" ELSE "batch"]
    /\ UNCHANGED <<rowVars, emitVars, cand, cur, accepted, faults>>

(***************************************************************************)
(* The foreign key refuses an event for a deleted endpoint: createEvent    *)
(* throws out of the loop, and the runtime swallows it.  So does any       *)
(* database error, a secret that no longer decrypts, or a crash.           *)
(***************************************************************************)
CreateRow(m, e) == endpoint[EndpointOf[e]] = "active" /\ CreateEvent(m, e)

CutShort(m) ==
    /\ emission' = [emission EXCEPT ![m] = "over"]
    /\ UNCHANGED <<rowVars, older, endpoint, targets, workerVars, accepted>>

ForeignKeyViolation(m, e) ==
    /\ NextTarget(m, e) /\ endpoint[EndpointOf[e]] = "deleted"
    /\ CutShort(m) /\ UNCHANGED faults

EmitFails(m) ==
    /\ emission[m] # "over" /\ faults < MaxFaults
    /\ CutShort(m) /\ faults' = faults + 1

DeleteEndpoint(ep) ==
    LET rows == {e \in Events : EndpointOf[e] = ep /\ Exists(e)} IN
    /\ endpoint[ep] = "active"
    /\ endpoint' = [endpoint EXCEPT ![ep] = "deleted"]
    /\ status' = [e \in Events |-> IF e \in rows THEN "gone" ELSE status[e]]
    /\ attempts' = [e \in Events |-> IF e \in rows THEN 0 ELSE attempts[e]]
    /\ retry' = [e \in Events |-> IF e \in rows THEN "none" ELSE retry[e]]
    /\ owner' = [e \in Events |-> IF e \in rows THEN Free ELSE owner[e]]
    /\ stale' = [e \in Events |-> IF e \in rows THEN FALSE ELSE stale[e]]
    /\ UNCHANGED <<older, emission, targets, workerVars, accepted, faults>>

(***************************************************************************)
(* runOnce ends early: the process crashes and restarts, a database call   *)
(* of the claim throws, or getEndpoint throws (a secret that no longer     *)
(* decrypts).  The locks of the claim stay in the database.                *)
(***************************************************************************)
AbandonClaim(w) ==
    /\ pc[w] # "idle" /\ faults < MaxFaults
    /\ owner' = [e \in Events |-> IF owner[e] = w THEN Orphan ELSE owner[e]]
    /\ pc' = [pc EXCEPT ![w] = "idle"]
    /\ cand' = [cand EXCEPT ![w] = {}]
    /\ batch' = [batch EXCEPT ![w] = {}]
    /\ copy' = [copy EXCEPT ![w] = [e \in Events |-> 0]]
    /\ cur' = [cur EXCEPT ![w] = 0]
    /\ faults' = faults + 1
    /\ UNCHANGED <<status, attempts, retry, stale, emitVars, accepted>>

(***************************************************************************)
(* updateAfterAttempt swallows every error of its UPDATE, not only that of *)
(* a vanished row: the outcome is lost, the lock stays, the batch goes on. *)
(***************************************************************************)
LoseWriteBack(w) ==
    LET e == cur[w] IN
    /\ pc[w] \in {"accepted", "rejected", "missing"}
    /\ faults < MaxFaults
    /\ owner' = [owner EXCEPT ![e] = IF @ = w THEN Orphan ELSE @]
    /\ faults' = faults + 1
    /\ NextInBatch(w)
    /\ UNCHANGED <<status, attempts, retry, stale, emitVars, accepted>>

Emit(m) ==
    \/ FindSubscribers(m)
    \/ \E e \in targets[m] : CreateRow(m, e) \/ ForeignKeyViolation(m, e)

Claim(w) == FindCandidates(w) \/ LockCandidates(w) \/ ReadBack(w)

LookUpNext(w) == \E e \in batch[w] : LookUpEndpoint(w, e)

Worker(w) == Claim(w) \/ LookUpNext(w) \/ Deliver(w)

Next ==
    \/ \E w \in Workers : Worker(w) \/ AbandonClaim(w) \/ LoseWriteBack(w)
    \/ \E m \in Emissions : Emit(m) \/ EmitFails(m)
    \/ \E ep \in Endpoints : RegisterEndpoint(ep) \/ DeleteEndpoint(ep)
    \/ TimePasses

Spec == Init /\ [][Next]_vars

(***************************************************************************)
(* setInterval keeps ticking, a started database call or fetch settles,    *)
(* and time passes.                                                        *)
(***************************************************************************)
Fairness ==
    /\ \A w \in Workers : WF_vars(Worker(w))
    /\ \A e \in Events : WF_vars(RetryBecomesDue(e)) /\ WF_vars(LockExpires(e))

FairSpec == Spec /\ Fairness
=============================================================================
