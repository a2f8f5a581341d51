------------------------------- MODULE ApiKeys -------------------------------
(***************************************************************************)
(* API keys: the bootstrap of the first key (auth/apikey-bootstrap.ts), by *)
(* one process over its memory or by several over the database, the admin  *)
(* routes (auth/apikey-routes.ts) and the middleware that lets keys and    *)
(* bearer tokens in (auth/middleware.ts), one step per store call.  A key  *)
(* is named by the instance or the request that generated it.              *)
(***************************************************************************)
EXTENDS Integers, FiniteSets

CONSTANTS Requests, None,
          Instances   \* the processes that start

VARIABLES
    backing,    \* the store: "memory" or "database"
    strategy,   \* "apikey", or "both" with bearer tokens
    keys,       \* per key: "none" (not stored), "live" or "revoked"
    boot,       \* per instance
    shown,      \* the keys an operator has seen: logged, or answered to a request
    stage,      \* per request
    ask         \* per request: [kind, key, target, bearer], or None

keyOwn == <<backing, strategy, keys, boot, shown, stage, ask>>

Makers == Instances \cup Requests

ApiKeysAssumption == Instances \cap Requests = {} /\ None \notin Makers

Init ==
    /\ backing \in {"memory", "database"}
    /\ strategy \in {"apikey", "both"}
    /\ keys = [k \in Makers |-> "none"]
    /\ boot = [i \in Instances |-> "new"]
    /\ shown = {}
    /\ stage = [r \in Requests |-> "new"]
    /\ ask = [r \in Requests |-> None]

Stored == {k \in Makers : keys[k] # "none"}

Store(k) == keys' = [keys EXCEPT ![k] = "live"]

Booting(i, label) == boot' = [boot EXCEPT ![i] = label]

(***************************************************************************)
(* Bootstrap                                                               *)
(***************************************************************************)
\* In memory: counted, created and logged before createRuntime returns, by the one
\* process there is.
BootMemory(i) ==
    /\ backing = "memory" /\ \A j \in Instances : boot[j] = "new"
    /\ Store(i) /\ shown' = shown \cup {i}
    /\ Booting(i, "ready")
    /\ UNCHANGED <<backing, strategy, stage, ask>>

Count(i) ==
    /\ backing = "database" /\ boot[i] = "new"
    /\ Booting(i, IF Stored = {} THEN "counted" ELSE "ready")
    /\ UNCHANGED <<backing, strategy, keys, shown, stage, ask>>

CreateFirst(i) ==
    /\ boot[i] = "counted"
    /\ Store(i)
    /\ Booting(i, "created")
    /\ UNCHANGED <<backing, strategy, shown, stage, ask>>

\* mutant: the raw key is dropped unlogged
LogLost(i) ==
    /\ boot[i] = "created"
    /\ Booting(i, "ready")
    /\ UNCHANGED <<backing, strategy, keys, shown, stage, ask>>

LogFirst(i) ==
    /\ boot[i] = "created"
    /\ shown' = shown \cup {i}
    /\ Booting(i, "ready")
    /\ UNCHANGED <<backing, strategy, keys, stage, ask>>

\* A call fails, or the process is stopped.
FailBoot(i) ==
    /\ boot[i] \in {"counted", "created"}
    /\ Booting(i, "failed")
    /\ UNCHANGED <<backing, strategy, keys, shown, stage, ask>>

(***************************************************************************)
(* Requests: the middleware looks the key up, the handler acts on the      *)
(* store, the answer goes out.  updateLastUsed is not awaited and touches  *)
(* nothing else.                                                           *)
(***************************************************************************)
Usable(k) == keys[k] = "live"

\* With both strategies a good bearer token will do.
Admitted(q) == (strategy = "both" /\ q.bearer) \/ (q.key # None /\ Usable(q.key))

Authenticate(r) ==
    /\ stage[r] = "new"
    /\ \E kind \in {"use", "create", "revoke"}, key \in shown \cup {None}, target \in Stored,
          bearer \in BOOLEAN :
           LET q == [kind |-> kind, key |-> key, target |-> target, bearer |-> bearer] IN
           /\ ask' = [ask EXCEPT ![r] = q]
           /\ stage' = [stage EXCEPT ![r] =
                 IF ~Admitted(q) THEN "refused" ELSE IF kind = "use" THEN "done" ELSE "handle"]
    /\ UNCHANGED <<backing, strategy, keys, boot, shown>>

Create(r) ==
    /\ stage[r] = "handle" /\ ask[r].kind = "create"
    /\ Store(r)
    /\ stage' = [stage EXCEPT ![r] = "answer"]
    /\ UNCHANGED <<backing, strategy, boot, shown, ask>>

Revoke(r) ==
    /\ stage[r] = "handle" /\ ask[r].kind = "revoke"
    /\ keys' = [keys EXCEPT ![ask[r].target] = "revoked"]
    /\ stage' = [stage EXCEPT ![r] = "answer"]
    /\ UNCHANGED <<backing, strategy, boot, shown, ask>>

Answer(r) ==
    /\ stage[r] = "answer"
    /\ shown' = IF ask[r].kind = "create" THEN shown \cup {r} ELSE shown
    /\ stage' = [stage EXCEPT ![r] = "done"]
    /\ UNCHANGED <<backing, strategy, keys, boot, ask>>

Next ==
    \/ \E i \in Instances : BootMemory(i) \/ Count(i) \/ CreateFirst(i) \/ LogFirst(i) \/ FailBoot(i)
    \/ \E r \in Requests : Authenticate(r) \/ Create(r) \/ Revoke(r) \/ Answer(r)
-----------------------------------------------------------------------------
TypeOK ==
    /\ backing \in {"memory", "database"} /\ strategy \in {"apikey", "both"}
    /\ keys \in [Makers -> {"none", "live", "revoked"}]
    /\ boot \in [Instances -> {"new", "counted", "created", "ready", "failed"}]
    /\ shown \subseteq Makers
    /\ stage \in [Requests -> {"new", "handle", "answer", "done", "refused"}]
    /\ ask \in [Requests -> {None} \cup [kind : {"use", "create", "revoke"},
                   key : Makers \cup {None}, target : Makers, bearer : BOOLEAN]]

\* Several instances may each log a first key, and every key ever shown is in the store;
\* an instance that is ready leaves the operators without a key only if one was stored
\* by an instance that is about to log it, or failed just before.
FirstKeyKnown ==
    /\ shown \subseteq Stored
    /\ (\E i \in Instances : boot[i] = "ready") =>
           shown # {} \/ \E j \in Instances : j \in Stored /\ boot[j] \in {"created", "failed"}
=============================================================================
