--------------------------- MODULE WebhookDelivery ---------------------------
(***************************************************************************)
(* The outbound webhook queue: emitWebhook that fills it (emit.ts) and the *)
(* worker that drains it (worker.ts), both under src/webhooks, independent *)
(* of the store that keeps the queue.  Modules PrismaWebhookStore and      *)
(* MemoryWebhookStore add the two implementations of the store.            *)
(*                                                                         *)
(* Time is abstracted to the two comparisons the code makes with it: a     *)
(* retry is "waiting" until nextRetryAt <= now, then "due"; a lock is      *)
(* fresh until lockedAt is older than lockTtlMs, then stale.               *)
(***************************************************************************)
EXTENDS Integers, FiniteSets

CONSTANTS NumEvents,      \* WebhookEvent rows a behaviour may create
          Endpoints,      \* WebhookEndpoint ids, never reused
          Emissions,      \* calls of emitWebhook
          EndpointOf,     \* the endpoint each event is addressed to
          EmissionOf,     \* the call that creates it: one event per endpoint that
                          \* subscribes to the type the call emits
          Workers,        \* WebhookWorker instances, or overlapping runOnce calls
          BatchSize,      \* batchSize of the worker's options
          MaxAttempts,    \* maxAttempts of every row
          MaxFaults,      \* bound: crashes, database errors and lost writes
          OutlivedIn,     \* the phases of runOnce that may last longer than lockTtlMs
          Free, Orphan    \* lock owners other than a running claim

Events == 1..NumEvents

\* Where a worker's runOnce is.
Phases == {"idle", "candidates", "locked", "batch",
           "posting", "accepted", "rejected", "missing"}

ASSUME DeliveryAssumption ==
    /\ NumEvents \in Nat
    /\ EndpointOf \in [Events -> Endpoints]
    /\ EmissionOf \in [Events -> Emissions]
    /\ BatchSize \in Nat \ {0}
    /\ MaxAttempts \in Nat \ {0}
    /\ MaxFaults \in Nat
    /\ OutlivedIn \subseteq Phases
    /\ Free # Orphan
    /\ {Free, Orphan} \cap Workers = {}

VARIABLES
    status,     \* [Events -> ...]: the row's status, "absent" before its creation
                \* and "gone" once deleted with its endpoint
    attempts,   \* [Events -> Nat]: the row's attempts
    retry,      \* nextRetryAt: "none" (null), "waiting" or "due"
    owner,      \* (lockedBy, lockedAt): Free (null), the worker whose running
                \* claim wrote the pair, or Orphan when that claim is over
    stale,      \* is the lock older than lockTtlMs?
    older,      \* the rows created before each row: the order of createdAt
    endpoint,   \* [Endpoints -> "unregistered", "active" or "deleted"]
    emission,   \* where each call of emitWebhook is
    targets,    \* the events each call set out to create
    pc,         \* where each worker's runOnce is
    cand,       \* ids read by step 1 of a claim and not yet locked
    batch,      \* events claimed and not yet written back
    copy,       \* attempts as read when the event was claimed
    cur,        \* the event being delivered, 0 when none
    accepted,   \* history: 2xx answers that reached a worker: 0, 1 or 2 (many); a POST
                \* whose answer is lost counts as refused, as it does for the worker
    faults      \* faults so far

rowVars    == <<status, attempts, retry, owner, stale>>
emitVars   == <<older, endpoint, emission, targets>>
workerVars == <<pc, cand, batch, copy, cur>>
vars == <<rowVars, emitVars, workerVars, accepted, faults>>

(***************************************************************************)
(* The one type invariant of the queue.                                    *)
(***************************************************************************)
TypeOK ==
    /\ status \in [Events -> {"absent", "pending", "failed", "delivered", "gone"}]
    /\ attempts \in [Events -> Nat]
    /\ retry \in [Events -> {"none", "waiting", "due"}]
    /\ owner \in [Events -> Workers \cup {Free, Orphan}]
    /\ stale \in [Events -> BOOLEAN]
    /\ older \in [Events -> SUBSET Events]
    /\ endpoint \in [Endpoints -> {"unregistered", "active", "deleted"}]
    /\ emission \in [Emissions -> {"idle", "fanning", "over"}]
    /\ targets \in [Emissions -> SUBSET Events]
    /\ pc \in [Workers -> Phases]
    /\ cand \in [Workers -> SUBSET Events]
    /\ batch \in [Workers -> SUBSET Events]
    /\ copy \in [Workers -> [Events -> Nat]]
    /\ cur \in [Workers -> Events \cup {0}]
    /\ accepted \in [Events -> 0..2]
    /\ faults \in 0..MaxFaults

Init ==
    /\ status = [e \in Events |-> "absent"]
    /\ attempts = [e \in Events |-> 0]
    /\ retry = [e \in Events |-> "none"]
    /\ owner = [e \in Events |-> Free]
    /\ stale = [e \in Events |-> FALSE]
    /\ older = [e \in Events |-> {}]
    /\ endpoint = [ep \in Endpoints |-> "unregistered"]
    /\ emission = [m \in Emissions |-> "idle"]
    /\ targets = [m \in Emissions |-> {}]
    /\ pc = [w \in Workers |-> "idle"]
    /\ cand = [w \in Workers |-> {}]
    /\ batch = [w \in Workers |-> {}]
    /\ copy = [w \in Workers |-> [e \in Events |-> 0]]
    /\ cur = [w \in Workers |-> 0]
    /\ accepted = [e \in Events |-> 0]
    /\ faults = 0

Exists(e) == status[e] \in {"pending", "failed", "delivered"}

(***************************************************************************)
(* The two halves of the claim's WHERE clause.                             *)
(***************************************************************************)
UnlockedIgnoringExpiry(e) == owner[e] = Free  \* mutant: a stale lock is never reclaimed

Unlocked(e) == owner[e] = Free \/ stale[e]

Due(e) == status[e] = "pending" \/ (status[e] = "failed" /\ retry[e] = "due")

\* The first BatchSize events of S in the order of createdAt.
Oldest(S) == {e \in S : Cardinality(S \cap older[e]) < BatchSize}

(***************************************************************************)
(* The admin routes: an endpoint is registered once, and deleted for ever. *)
(***************************************************************************)
RegisterEndpoint(ep) ==
    /\ endpoint[ep] = "unregistered"
    /\ endpoint' = [endpoint EXCEPT ![ep] = "active"]
    /\ UNCHANGED <<rowVars, older, emission, targets, workerVars, accepted, faults>>

(***************************************************************************)
(* emitWebhook(m): the subscribed endpoints are read once, then one row is *)
(* created per endpoint, with an await before each.                        *)
(***************************************************************************)
FindSubscribers(m) ==
    LET found == {e \in Events : EmissionOf[e] = m /\ endpoint[EndpointOf[e]] = "active"} IN
    /\ emission[m] = "idle"
    /\ targets' = [targets EXCEPT ![m] = found]
    /\ emission' = [emission EXCEPT ![m] = IF found = {} THEN "over" ELSE "fanning"]
    /\ UNCHANGED <<rowVars, older, endpoint, workerVars, accepted, faults>>

Uncreated(m) == {e \in targets[m] : status[e] = "absent"}

\* The loop of the call visits the endpoints in the order they were read.
NextTarget(m, e) ==
    /\ emission[m] = "fanning"
    /\ e \in Uncreated(m) /\ \A f \in Uncreated(m) : e <= f

EmissionAfterFirst(m, e) == "over"  \* mutant: the loop returns after its first row

EmissionAfter(m, e) == IF Uncreated(m) = {e} THEN "over" ELSE "fanning"

CreateEvent(m, e) ==
    /\ NextTarget(m, e)
    /\ status' = [status EXCEPT ![e] = "pending"]
    /\ older' = [older EXCEPT ![e] = {f \in Events : status[f] # "absent"}]
    /\ emission' = [emission EXCEPT ![m] = EmissionAfter(m, e)]
    /\ UNCHANGED <<attempts, retry, owner, stale, endpoint, targets, workerVars, accepted, faults>>

(***************************************************************************)
(* The passing of time.  A claim may outlive its lock: the batch is        *)
(* delivered sequentially and fetch is given no timeout.                   *)
(***************************************************************************)
RetryBecomesDue(e) ==
    /\ retry[e] = "waiting"
    /\ retry' = [retry EXCEPT ![e] = "due"]
    /\ UNCHANGED <<status, attempts, owner, stale, emitVars, workerVars, accepted, faults>>

LockExpires(e) ==
    /\ ~stale[e]
    /\ owner[e] = Orphan \/ \E w \in Workers : owner[e] = w /\ pc[w] \in OutlivedIn
    /\ stale' = [stale EXCEPT ![e] = TRUE]
    /\ UNCHANGED <<status, attempts, retry, owner, emitVars, workerVars, accepted, faults>>

(***************************************************************************)
(* deliver(event): the endpoint is looked up, the POST answered and the    *)
(* outcome written back, each a step other workers may interleave with.    *)
(***************************************************************************)
LookUpEndpoint(w, e) ==
    /\ pc[w] = "batch" /\ e \in batch[w]
    /\ cur' = [cur EXCEPT ![w] = e]
    /\ pc' = [pc EXCEPT ![w] = IF endpoint[EndpointOf[e]] = "active" THEN "posting" ELSE "missing"]
    /\ UNCHANGED <<rowVars, emitVars, cand, batch, copy, accepted, faults>>

PostAccepted(w) ==
    /\ pc[w] = "posting"
    /\ pc' = [pc EXCEPT ![w] = "accepted"]
    /\ accepted' = [accepted EXCEPT ![cur[w]] = IF @ = 0 THEN 1 ELSE 2]
    /\ UNCHANGED <<rowVars, emitVars, cand, batch, copy, cur, faults>>

PostRejected(w) ==
    /\ pc[w] = "posting"
    /\ pc' = [pc EXCEPT ![w] = "rejected"]
    /\ UNCHANGED <<rowVars, emitVars, cand, batch, copy, cur, accepted, faults>>

\* The worker is done with its current event and turns to the next, if any.
NextInBatch(w) ==
    /\ batch' = [batch EXCEPT ![w] = @ \ {cur[w]}]
    /\ copy' = [copy EXCEPT ![w][cur[w]] = 0]
    /\ pc' = [pc EXCEPT ![w] = IF batch[w] = {cur[w]} THEN "idle" ELSE "batch"]
    /\ cur' = [cur EXCEPT ![w] = 0]
    /\ UNCHANGED cand

AttemptsBackwards(w) == copy[w][cur[w]] - 1  \* mutant: counts down

\* attempts of the outcome: a missing endpoint exhausts the row at once.
AttemptsAfter(w) == IF pc[w] = "missing" THEN MaxAttempts ELSE copy[w][cur[w]] + 1

\* mutant: the last attempt schedules one more retry
RetryOnceMore(w) ==
    IF pc[w] = "rejected" /\ AttemptsAfter(w) <= MaxAttempts THEN "waiting" ELSE "none"

\* nextRetryAt of the outcome: null unless a rejected POST leaves attempts.
RetryAfter(w) ==
    IF pc[w] = "rejected" /\ AttemptsAfter(w) < MaxAttempts THEN "waiting" ELSE "none"

\* mutant: any answer of the endpoint counts as a delivery
StatusOfAnyAnswer(w) == IF pc[w] = "missing" THEN "failed" ELSE "delivered"

StatusAfter(w) == IF pc[w] = "accepted" THEN "delivered" ELSE "failed"

KeepLock(e) == UNCHANGED <<owner, stale>>  \* mutant: the outcome leaves the lock

ClearLock(e) ==
    /\ owner' = [owner EXCEPT ![e] = Free]
    /\ stale' = [stale EXCEPT ![e] = FALSE]

\* updateAfterAttempt writes whatever the row holds by then, and clears the lock
\* whoever holds it; a row that vanished is skipped.
WriteBack(w) ==
    LET e == cur[w] IN
    /\ pc[w] \in {"accepted", "rejected", "missing"}
    /\ IF Exists(e)
       THEN /\ status' = [status EXCEPT ![e] = StatusAfter(w)]
            /\ attempts' = [attempts EXCEPT ![e] = AttemptsAfter(w)]
            /\ retry' = [retry EXCEPT ![e] = RetryAfter(w)]
            /\ ClearLock(e)
       ELSE UNCHANGED rowVars
    /\ NextInBatch(w)
    /\ UNCHANGED <<emitVars, accepted, faults>>

Deliver(w) == PostAccepted(w) \/ PostRejected(w) \/ WriteBack(w)

TimePasses == \E e \in Events : RetryBecomesDue(e) \/ LockExpires(e)

-----------------------------------------------------------------------------
(***************************************************************************)
(* Properties of both stores.                                              *)
(***************************************************************************)

\* Two running claims never hold the same event: of the workers that race for
\* a row, one wins it until its outcome is written.
ClaimsDisjoint == \A v, w \in Workers : v # w => batch[v] \cap batch[w] = {}

\* A lock is held by a claim that will release it, or by nobody: the only locks
\* left to expire are those of crashed or failed claims.
LocksHaveLiveClaims ==
    \A e \in Events : \A w \in Workers :
        owner[e] = w => pc[w] = "locked" \/ e \in batch[w]

\* A row says "delivered" only if the receiver answered 2xx at least once,
\* whatever claims overlapped, were lost or were repeated.
DeliveredWasAccepted ==
    \A e \in Events : status[e] = "delivered" => accepted[e] >= 1

\* The receiver accepts an event at most once.
AcceptedAtMostOnce == \A e \in Events : accepted[e] <= 1

\* The worker is finished with the row: delivered, out of attempts, or deleted
\* with its endpoint.
Settled(e) ==
    \/ status[e] \in {"delivered", "gone"}
    \/ status[e] = "failed" /\ retry[e] = "none"

\* Once emitWebhook is over, every endpoint it found subscribed has its event,
\* unless the endpoint was deleted: one target never costs another its event.
FanOutComplete ==
    \A m \in Emissions : \A e \in targets[m] :
        emission[m] = "over" /\ endpoint[EndpointOf[e]] = "active" => status[e] # "absent"

\* Every event that is queued is eventually settled, and from some point on no late
\* result reopens it: crashed claims are reclaimed and retries come to an end.
EventuallyQuiet ==
    <>[](\A e \in Events : Settled(e) \/ status[e] = "absent")
=============================================================================
