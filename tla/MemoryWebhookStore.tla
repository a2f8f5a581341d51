-------------------------- MODULE MemoryWebhookStore --------------------------
(***************************************************************************)
(* The webhook queue kept in a Map of the process (src/webhooks/store.ts,  *)
(* MemoryWebhookStore).  A claim runs without an await, so it is one step; *)
(* the Workers are the calls of runOnce that overlap in the process: the   *)
(* timer's, and those a program makes through the worker it is handed.     *)
(* Nothing survives a restart, so there are no faults to recover from.     *)
(***************************************************************************)
EXTENDS WebhookDelivery

\* mutant: locked events are claimed again
ClaimableThoughLocked == {e \in Events : attempts[e] < MaxAttempts /\ Due(e)}

Claimable ==
    {e \in Events : attempts[e] < MaxAttempts /\ Due(e) /\ Unlocked(e)}

ClaimReadyEvents(w) ==
    LET claimed == {e \in Claimable : Cardinality(Claimable \cap older[e]) < BatchSize} IN
    /\ pc[w] = "idle" /\ claimed # {}
    /\ owner' = [e \in Events |-> IF e \in claimed THEN w ELSE owner[e]]
    /\ stale' = [e \in Events |-> IF e \in claimed THEN FALSE ELSE stale[e]]
    /\ batch' = [batch EXCEPT ![w] = claimed]
    /\ copy' = [copy EXCEPT ![w] = [e \in Events |-> IF e \in claimed THEN attempts[e] ELSE 0]]
    /\ pc' = [pc EXCEPT ![w] = "batch"]
    /\ UNCHANGED <<status, attempts, retry, emitVars, cand, cur, accepted, faults>>

\* The rows stay when their endpoint is deleted.
DeleteEndpoint(ep) ==
    /\ endpoint[ep] = "active"
    /\ endpoint' = [endpoint EXCEPT ![ep] = "deleted"]
    /\ UNCHANGED <<rowVars, older, emission, targets, workerVars, accepted, faults>>

\* The batch is delivered in the order of the Map.
LookUpNext(w) ==
    \E e \in batch[w] : batch[w] \cap older[e] = {} /\ LookUpEndpoint(w, e)

Worker(w) == ClaimReadyEvents(w) \/ LookUpNext(w) \/ Deliver(w)

Emit(m) == FindSubscribers(m) \/ \E e \in targets[m] : CreateEvent(m, e)

Next ==
    \/ \E w \in Workers : Worker(w)
    \/ \E m \in Emissions : Emit(m)
    \/ \E ep \in Endpoints : RegisterEndpoint(ep) \/ DeleteEndpoint(ep)
    \/ TimePasses

Spec == Init /\ [][Next]_vars

(***************************************************************************)
(* The timer keeps ticking, fetch settles and time passes.                 *)
(***************************************************************************)
FairSpec ==
    /\ Spec
    /\ \A w \in Workers : WF_vars(Worker(w))
    /\ \A e \in Events : WF_vars(RetryBecomesDue(e)) /\ WF_vars(LockExpires(e))

-----------------------------------------------------------------------------
(***************************************************************************)
(* The queue implements WebhookOutbox.  An acceptance the worker has not   *)
(* written back yet is its own abstract state.                             *)
(***************************************************************************)
Unrecorded(e) == \E w \in Workers : pc[w] = "accepted" /\ cur[w] = e

OutboxState(e) ==
    CASE status[e] \in {"absent", "delivered"} -> status[e]
      [] status[e] = "failed" /\ retry[e] = "none" -> "failed"
      [] Unrecorded(e) -> "accepted"
      [] OTHER -> "queued"

Outbox == INSTANCE WebhookOutbox WITH
    Events <- Events, MaxAttempts <- MaxAttempts,
    state <- [e \in Events |-> OutboxState(e)],
    tries <- [e \in Events |-> attempts[e] + IF OutboxState(e) = "accepted" THEN 1 ELSE 0]

\* Every behaviour of the memory store and its workers is one of WebhookOutbox:
\* tried until settled, accepted at most once, never reopened.
ImplementsOutbox == Outbox!FairSpec
=============================================================================
