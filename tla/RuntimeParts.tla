---------------------------- MODULE RuntimeParts ----------------------------
(***************************************************************************)
(* The parts of the server that surround the requests: inbound events, the *)
(* runtime's assembly and end, the plan of relations, and the routes with  *)
(* the artefacts that describe them.  They share no state with each other  *)
(* in the code; a behaviour exercises the one that `part` names.           *)
(***************************************************************************)
EXTENDS ServerPart, Integers, FiniteSets, Sequences

CONSTANTS
    Configured, Strangers, MaxEntries, Deliveries, Signals, Resources, System, Ownable,
    Declarable, TopLevel, Joins, Arrays, Plain, MaxRelations, Published, Plural, Irregular,
    Subsets, Extras, Relatable, MaxSettings

VARIABLES
    inboundProduction, secrets, log, queue, received, accepted, handled,   \* InboundWebhooks
    life, production, chosen, clients, timer, tick, didShutdown, closing, closed,
    late,   \* RuntimeLifecycle
    declared, top, owned, planStage, all, planLinks, fields,   \* RelationPlan
    surfaceStage, parsed, switches, endpoints, custom, nested, topRelations, mounted,
    offered   \* ApiSurface

Inbound == INSTANCE InboundWebhooks WITH production <- inboundProduction
Lifecycle == INSTANCE RuntimeLifecycle
Relations == INSTANCE RelationPlan WITH stage <- planStage, links <- planLinks
Surface == INSTANCE ApiSurface WITH top <- topRelations

RuntimeAssumption ==
    /\ Inbound!InboundAssumption
    /\ Lifecycle!RuntimeLifecycleAssumption
    /\ Relations!RelationPlanAssumption
    /\ Surface!ApiSurfaceAssumption

RuntimePartNames == {"Inbound", "Lifecycle", "Relations", "Surface"}

\* The variables of each part.
InboundVars == <<inboundProduction, secrets, log, queue, received, accepted, handled>>
LifecycleVars == <<life, production, chosen, clients, timer, tick, didShutdown, closing,
    closed, late>>
RelationsVars == <<declared, top, owned, planStage, all, planLinks, fields>>
SurfaceVars == <<surfaceStage, parsed, switches, endpoints, custom, nested, topRelations,
    mounted, offered>>

runtimeVars == <<part, InboundVars, LifecycleVars, RelationsVars, SurfaceVars>>

\* The variables of a part that is not exercised have no value.
InboundUnused ==
    /\ inboundProduction = None /\ secrets = None /\ log = None /\ queue = None
    /\ received = None /\ accepted = None /\ handled = None
LifecycleUnused ==
    /\ life = None /\ production = None /\ chosen = None /\ clients = None /\ timer = None
    /\ tick = None /\ didShutdown = None /\ closing = None /\ closed = None /\ late = None
RelationsUnused ==
    /\ declared = None /\ top = None /\ owned = None /\ planStage = None /\ all = None
    /\ planLinks = None /\ fields = None
SurfaceUnused ==
    /\ surfaceStage = None /\ parsed = None /\ switches = None /\ endpoints = None
    /\ custom = None /\ nested = None /\ topRelations = None /\ mounted = None
    /\ offered = None

RuntimeInit ==
    /\ IF part = "Inbound" THEN Inbound!Init ELSE InboundUnused
    /\ IF part = "Lifecycle" THEN Lifecycle!Init ELSE LifecycleUnused
    /\ IF part = "Relations" THEN Relations!Init ELSE RelationsUnused
    /\ IF part = "Surface" THEN Surface!Init ELSE SurfaceUnused

RuntimeNext ==
    /\ UNCHANGED part
    /\ \/ /\ part = "Inbound" /\ Inbound!Next
          /\ UNCHANGED <<LifecycleVars, RelationsVars, SurfaceVars>>
       \/ /\ part = "Lifecycle" /\ Lifecycle!Next
          /\ UNCHANGED <<InboundVars, RelationsVars, SurfaceVars>>
       \/ /\ part = "Relations" /\ Relations!Next
          /\ UNCHANGED <<InboundVars, LifecycleVars, SurfaceVars>>
       \/ /\ part = "Surface" /\ Surface!Next
          /\ UNCHANGED <<InboundVars, LifecycleVars, RelationsVars>>

RuntimeSpec == RuntimeInit /\ [][RuntimeNext]_runtimeVars
-----------------------------------------------------------------------------
RuntimeTypeOK ==
    /\ part = "Inbound" => Inbound!TypeOK
    /\ part = "Lifecycle" => Lifecycle!TypeOK
    /\ part = "Relations" => Relations!TypeOK
    /\ part = "Surface" => Surface!TypeOK

\* The log shows the last MaxEntries accepted deliveries, latest first, and every
\* acknowledged delivery is handed to onEvent exactly once, also when it has already
\* dropped out of the log.
InboundFaithful == part = "Inbound" => Inbound!InboundFaithful

\* Whatever is passed and detected, a production process never keeps keys, users or
\* sessions in its own memory without having been told to.
AccountsDurable == part = "Lifecycle" => Lifecycle!AccountsDurable

\* However many signals arrive and whatever tick is in flight, no tick begins after
\* shutdown() was called, and every known client is disconnected exactly once.
ShutdownClean == part = "Lifecycle" => Lifecycle!ShutdownClean

\* A spec the parser accepts gives a schema in which no model has two fields of one name,
\* every object field has exactly one opposite, and an include of a declared relation finds
\* its field.
SchemaPaired == part = "Relations" => Relations!SchemaPaired

\* What an artefact offers is served by the handler it describes, or by that of a resource of
\* the same plural, whichever features are combined; and the OpenAPI document omits no endpoint
\* of a resource that has its plural alone, of the user system (the older authFlows are never
\* documented), of OAuth or of the API keys.
ArtefactsServed == part = "Surface" => Surface!ArtefactsServed
=============================================================================
