-------------------------- MODULE RuntimeLifecycle ---------------------------
(***************************************************************************)
(* createRuntime's choices and its end (runtime/index.ts): which store     *)
(* backs what, for every combination of options and environment; the       *)
(* worker's timer (webhooks/worker.ts); and shutdown(), which may be       *)
(* called several times and while a tick is in flight.                     *)
(***************************************************************************)
EXTENDS Integers, FiniteSets

CONSTANTS None,
          Signals   \* the callers of shutdown()

VARIABLES
    life,       \* "new", "running", or "refused": createRuntime threw
    production, \* NODE_ENV
    chosen,     \* what backs what: "memory", "database" or "provided"
    clients,    \* the clients shutdown() knows
    timer,      \* the worker's interval is set
    tick,       \* "idle", or what the tick in flight does next
    didShutdown,
    closing,    \* per caller of shutdown(): the clients it has still to disconnect, or None
    closed,     \* history: the clients disconnected, with how often
    late        \* history: a tick began after shutdown() was called

lifeOwn == <<life, production, chosen, clients, timer, tick, didShutdown, closing, closed, late>>

AllClients == {"first", "second", "detected"}

RuntimeLifecycleAssumption == None \notin AllClients /\ \A S \in SUBSET AllClients : S # None

Stores == {"resources", "webhooks", "apiKeys", "users", "refresh", "revocation"}

Init ==
    /\ life = "new" /\ production \in BOOLEAN
    /\ chosen = [s \in Stores |-> "memory"]
    /\ clients = {}
    /\ timer = FALSE /\ tick = "idle"
    /\ didShutdown = FALSE
    /\ closing = [x \in Signals |-> None]
    /\ closed = [c \in AllClients |-> 0]
    /\ late = FALSE

(***************************************************************************)
(* The resolvers.  o.given are the stores passed as options, o.prisma and  *)
(* o.prismaJwt the clients (None if they are not), o.detected tells        *)
(* whether one can be loaded (DATABASE_URL and @prisma/client).            *)
(***************************************************************************)
Given(o, s, default) == IF s \in o.given THEN "provided" ELSE default

Fallback(backed) == IF backed THEN "database" ELSE "memory"

ResolveResourceStore(o) == Fallback(o.prisma # None \/ o.detected)

\* Best-effort: memory will do in production too.
ResolveWebhookStore(o) == Given(o, "webhooks", ResolveResourceStore(o))

ResolveApiKeyStore(o) == Given(o, "apiKeys", Fallback(o.prisma # None \/ o.detected))

\* With both stores given, the revocations default to memory whatever clients there are.
ResolveJwtStores(o) ==
    IF {"users", "refresh"} \subseteq o.given
    THEN [users |-> "provided", refresh |-> "provided", revocation |-> Given(o, "revocation", "memory")]
    ELSE [s \in {"users", "refresh", "revocation"} |->
             Given(o, s, Fallback(o.prismaJwt # None \/ o.detected))]

RefusedNever(o) == FALSE  \* mutant: production falls back to memory like development

\* Production does not start on a volatile store for keys or users, nor on an ephemeral
\* secret; a user or refresh store alone does not help.
Refused(o) ==
    /\ production
    /\ \/ o.apiKeys /\ ResolveApiKeyStore(o) = "memory"
       \/ o.jwt /\ ~o.secret
       \/ o.jwt /\ ~({"users", "refresh"} \subseteq o.given \/ o.prismaJwt # None \/ o.detected)

\* The set shutdown() collects: one passed under two names is in it once; those loaded
\* for keys, users or webhooks alone are not in it.
KnownClients(o) ==
    {o.prisma, o.prismaJwt, IF o.prisma = None /\ o.detected THEN "detected" ELSE o.prisma} \ {None}

CreateRuntime ==
    /\ life = "new"
    /\ \E o \in [given : SUBSET {"webhooks", "apiKeys", "users", "refresh", "revocation"},
                 prisma : {None, "first"}, prismaJwt : {None, "first", "second"}, detected : BOOLEAN,
                 apiKeys : BOOLEAN, jwt : BOOLEAN, secret : BOOLEAN] :
           IF Refused(o)
           THEN life' = "refused" /\ UNCHANGED <<chosen, clients, timer>>
           ELSE /\ life' = "running"
                /\ chosen' = [s \in Stores |->
                      CASE s = "resources" -> ResolveResourceStore(o)
                        [] s = "webhooks" -> ResolveWebhookStore(o)
                        [] s = "apiKeys" -> IF o.apiKeys THEN ResolveApiKeyStore(o) ELSE "unused"
                        [] OTHER -> IF o.jwt THEN ResolveJwtStores(o)[s] ELSE "unused"]
                /\ clients' = KnownClients(o)
                /\ timer' = TRUE
    /\ UNCHANGED <<production, tick, didShutdown, closing, closed, late>>

\* The interval fires; a tick that is still in flight is not joined by another.
Fire ==
    /\ timer /\ tick = "idle"
    /\ tick' = "claim"
    /\ late' = (late \/ didShutdown)
    /\ UNCHANGED <<life, production, chosen, clients, timer, didShutdown, closing, closed>>

\* runOnce: claim, deliver, write back, each awaited.
Work ==
    /\ tick # "idle"
    /\ tick' = CASE tick = "claim" -> "deliver" [] tick = "deliver" -> "write" [] OTHER -> "idle"
    /\ UNCHANGED <<life, production, chosen, clients, timer, didShutdown, closing, closed, late>>

FirstAlways == TRUE  \* mutant: shutdown() forgets that it ran

First == ~didShutdown

\* The first call stops the timer and works through the clients; the others return.
Shutdown(x) ==
    /\ life = "running" /\ closing[x] = None
    /\ didShutdown' = TRUE
    /\ timer' = FALSE
    /\ closing' = [closing EXCEPT ![x] = IF First THEN clients ELSE {}]
    /\ UNCHANGED <<life, production, chosen, clients, tick, closed, late>>

\* Whether $disconnect fails or not.
Disconnect(x) ==
    /\ closing[x] \notin {None, {}}
    /\ \E c \in closing[x] :
           /\ closing' = [closing EXCEPT ![x] = @ \ {c}]
           /\ closed' = [closed EXCEPT ![c] = @ + 1]
    /\ UNCHANGED <<life, production, chosen, clients, timer, tick, didShutdown, late>>

Next ==
    \/ CreateRuntime \/ Fire \/ Work
    \/ \E x \in Signals : Shutdown(x) \/ Disconnect(x)

Spec == Init /\ [][Next]_lifeOwn
-----------------------------------------------------------------------------
TypeOK ==
    /\ life \in {"new", "running", "refused"} /\ production \in BOOLEAN
    /\ chosen \in [Stores -> {"memory", "database", "provided", "unused"}]
    /\ clients \subseteq AllClients
    /\ {timer, didShutdown, late} \subseteq BOOLEAN
    /\ tick \in {"idle", "claim", "deliver", "write"}
    /\ closing \in [Signals -> {None} \cup SUBSET AllClients]
    /\ closed \in [AllClients -> Nat]

\* Whatever is passed and detected, a production process never keeps keys, users or
\* sessions in its own memory without having been told to.
AccountsDurable ==
    life = "running" /\ production => "memory" \notin {chosen[s] : s \in {"apiKeys", "users", "refresh"}}

\* However many signals arrive and whatever tick is in flight, no tick begins after
\* shutdown() was called, and every known client is disconnected exactly once.
ShutdownClean ==
    /\ ~late
    /\ \A c \in AllClients : closed[c] <= 1
    /\ didShutdown /\ (\A x \in Signals : closing[x] \in {None, {}})
           => clients = {c \in AllClients : closed[c] = 1}
=============================================================================
