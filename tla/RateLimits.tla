----------------------------- MODULE RateLimits ------------------------------
(***************************************************************************)
(* The fixed-window limiters: the global one (security/ratelimit.ts, by    *)
(* address and then by user) and the one in front of /auth/login and       *)
(* /auth/register (security/auth-ratelimit.ts), over the memory or the     *)
(* Redis store.  A request counts itself under each of its keys in turn;   *)
(* the Redis store needs two commands to open a window, and the instance   *)
(* that serves the request may stop between them.                          *)
(***************************************************************************)
EXTENDS Integers, FiniteSets, Sequences

CONSTANTS Requests, None,
          Addresses,  \* client addresses
          Subjects,   \* users a bearer token may name
          Max,        \* config.max
          Window,     \* config.windowMs
          MaxNow      \* bound on the clock

VARIABLES
    now,       \* Date.now(), and the clock of Redis
    limiter,   \* the store: "memory" or "redis"
    counters,  \* per key: [count, until]; until is None while no expiry is set
    todo,      \* per request: the keys it has still to count itself under
    stage,     \* per request
    passed     \* history: who passed which key's limit, counted when

limitOwn == <<limiter, counters, todo, stage, passed>>
limitVars == <<now, limitOwn>>

RateLimitsAssumption ==
    /\ Max \in Nat \ {0} /\ Window \in Nat \ {0} /\ MaxNow \in Nat
    /\ None \notin Nat \cup Subjects

Keys == ({"ip", "authrl"} \X Addresses) \cup ({"user"} \X Subjects)

Missing == [count |-> 0, until |-> None]

Init ==
    /\ now = 0
    /\ limiter \in {"memory", "redis"}
    /\ counters = [k \in Keys |-> Missing]
    /\ todo = [r \in Requests |-> <<>>]
    /\ stage = [r \in Requests |-> "new"]
    /\ passed = {}

\* The global limiter runs first; the user's key only if a token names a user.
KeysOf(address, subject, auth) ==
    <<<<"ip", address>>>>
        \o (IF subject # None THEN <<<<"user", subject>>>> ELSE <<>>)
        \o (IF auth THEN <<<<"authrl", address>>>> ELSE <<>>)

Arrive(r) ==
    /\ stage[r] = "new"
    /\ \E address \in Addresses, subject \in Subjects \cup {None}, auth \in BOOLEAN :
           todo' = [todo EXCEPT ![r] = KeysOf(address, subject, auth)]
    /\ stage' = [stage EXCEPT ![r] = "counting"]
    /\ UNCHANGED <<now, limiter, counters, passed>>

\* mutant: the expiry is compared the wrong way round
FreshInside(k) == counters[k] = Missing \/ (counters[k].until # None /\ now < counters[k].until)

\* The memory store still counts a request at resetAt into the old window; Redis has
\* dropped an expired key.
Fresh(k) ==
    \/ counters[k] = Missing
    \/ counters[k].until # None
       /\ IF limiter = "memory" THEN now > counters[k].until ELSE now >= counters[k].until

Incremented(k) ==
    IF ~Fresh(k) THEN [counters[k] EXCEPT !.count = @ + 1]
    ELSE [count |-> 1, until |-> IF limiter = "memory" THEN now + Window ELSE None]

Over(count) == count > Max

\* The middleware's verdict on one key, and on to the next limiter or the handler.
Judge(r, k, count) ==
    IF Over(count)
    THEN stage' = [stage EXCEPT ![r] = "refused"] /\ UNCHANGED <<todo, passed>>
    ELSE /\ passed' = passed \cup {[by |-> r, key |-> k, at |-> now]}
         /\ todo' = [todo EXCEPT ![r] = Tail(@)]
         /\ stage' = [stage EXCEPT ![r] = IF Len(todo[r]) = 1 THEN "admitted" ELSE "counting"]

\* increment(): in Redis, INCR; the first to count still has to set the expiry.
Increment(r) ==
    LET k == Head(todo[r]) IN
    /\ stage[r] = "counting"
    /\ counters' = [counters EXCEPT ![k] = Incremented(k)]
    /\ IF limiter = "redis" /\ Incremented(k).count = 1
       THEN stage' = [stage EXCEPT ![r] = "expiring"] /\ UNCHANGED <<todo, passed>>
       ELSE Judge(r, k, Incremented(k).count)
    /\ UNCHANGED <<now, limiter>>

ExpireUnset(k) == counters  \* mutant: PEXPIRE is never sent

ExpirySet(k) == [counters EXCEPT ![k].until = now + Window]

PExpire(r) ==
    LET k == Head(todo[r]) IN
    /\ stage[r] = "expiring"
    /\ counters' = ExpirySet(k)
    /\ Judge(r, k, 1)
    /\ UNCHANGED <<now, limiter>>

\* The instance stops with the command unsent.
StopBeforeExpiry(r) ==
    /\ stage[r] = "expiring"
    /\ stage' = [stage EXCEPT ![r] = "stopped"]
    /\ UNCHANGED <<now, limiter, counters, todo, passed>>

Tick ==
    /\ now < MaxNow
    /\ now' = now + 1
    /\ UNCHANGED limitOwn

Next ==
    \/ Tick
    \/ \E r \in Requests : Arrive(r) \/ Increment(r) \/ PExpire(r) \/ StopBeforeExpiry(r)

Spec == Init /\ [][Next]_limitVars

-----------------------------------------------------------------------------
TypeOK ==
    /\ now \in Nat /\ limiter \in {"memory", "redis"}
    /\ counters \in [Keys -> [count : Nat, until : Nat \cup {None}]]
    /\ todo \in [Requests -> UNION {[1..n -> Keys] : n \in 0..3}]
    /\ stage \in [Requests -> {"new", "counting", "expiring", "stopped", "refused", "admitted"}]
    /\ passed \subseteq [by : Requests, key : Keys, at : Nat]

\* Two adjacent windows let at most twice the limit through: no Window consecutive
\* milliseconds see more than 2 * Max requests pass a key, in either store, however the
\* two commands of Redis interleave with other requests and with expiries.
AdmittedBounded ==
    \A k \in Keys, t \in 0..now :
        Cardinality({p \in passed : p.key = k /\ p.at \in t..(t + Window - 1)}) <= 2 * Max

\* A counter that will never expire is one whose opener is between INCR and PEXPIRE, or
\* was stopped there: no other order of requests leaves a client locked out for good.
CountersExpire ==
    \A k \in Keys :
        counters[k] # Missing /\ counters[k].until = None
        => \E r \in Requests : stage[r] \in {"expiring", "stopped"} /\ Head(todo[r]) = k
=============================================================================
