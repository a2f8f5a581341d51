----------------------------- MODULE ApiSurface ------------------------------
(***************************************************************************)
(* The routes a spec gives a server (runtime/index.ts,                     *)
(* generators/routes.ts) and the routes its artefacts offer: the OpenAPI   *)
(* document (docs/swagger.ts, docs/auth-openapi.ts), the client            *)
(* (sdk/generate.ts), the Postman collection (docs/postman.ts), the README *)
(* (docs/readme.ts) and the generated tests (generators/tests.ts).         *)
(*                                                                         *)
(* Each artefact works out for itself, from the spec, what was mounted.    *)
(* The author enables one thing after the other; then the server mounts    *)
(* its routes in order, and a request goes to the first that matches.      *)
(* A path has the plural of a resource, which toPlural makes of its name   *)
(* and several may share; nothing refuses such namesakes.  A parameter of  *)
(* a path is ":".                                                          *)
(***************************************************************************)
EXTENDS Integers, FiniteSets, Sequences, SequencesExt, FiniteSetsExt

CONSTANTS Published,     \* the names of the resources, in the order of the spec
          Plural,        \* per resource: its plural
          Irregular,     \* those whose plural is not the name with an s
          Subsets,       \* the `endpoints` a resource may be restricted to
          Extras,        \* pairs of a resource and a custom endpoint [method, path] it may get
          Relatable,     \* pairs of resources that may be related
          MaxSettings    \* bound: settings in all

VARIABLES
    surfaceStage,  \* "declaring", "refused" or "given", "mounted", "published"
    parsed,        \* the spec went through parseSpec
    switches,      \* the features that are on
    endpoints,     \* per resource: its CRUD endpoints
    custom,        \* per resource: its custom endpoints, in order
    nested,        \* pairs of a parent and a child that a relation of a resource gives
    top,           \* the top-level relations [from, type, to]
    mounted,       \* the routes of the server, in order
    offered        \* per artefact: the routes it offers

surfaceOwn == <<surfaceStage, parsed, switches, endpoints, custom, nested, top, mounted, offered>>

Names == ToSet(Published)
CrudActions == {"list", "create", "read", "update", "delete"}
Artefacts == {"openapi", "sdk", "postman", "readme", "tests"}

Switches == {"jwt", "strategyJwt", "apikey", "strategyApikey", "oauth", "authFlows", "refreshTokens",
             "revocation", "uploadLocal", "uploadS3", "fileField", "outbound", "inbound",
             "search", "noDocs"}

\* Settings that are values of one and the same field.
Exclusive == {{"strategyJwt", "strategyApikey"}, {"uploadLocal", "uploadS3"}}

\* Words that are no plural, since toPlural gives names that end in s.
NotPlural == {"health", "ready", "auth", "admin", "upload", "openapi.json", "naive", ":"}

ApiSurfaceAssumption ==
    /\ Published \in Seq(STRING)
    /\ \A i, j \in DOMAIN Published : Published[i] = Published[j] => i = j
    /\ Plural \in [Names -> STRING] /\ \A r \in Names : Plural[r] \notin NotPlural
    /\ Irregular \subseteq Names /\ Relatable \subseteq Names \X Names
    /\ Extras \subseteq Names \X [method : STRING, path : Seq(STRING)]
    /\ Subsets \subseteq SUBSET CrudActions /\ MaxSettings \in Nat

Init ==
    /\ surfaceStage = "declaring" /\ parsed = FALSE
    /\ switches = {}
    /\ endpoints = [r \in Names |-> CrudActions] /\ custom = [r \in Names |-> <<>>]
    /\ nested = {} /\ top = {} /\ mounted = <<>> /\ offered = [a \in Artefacts |-> {}]

Settings ==
    Cardinality(switches) + Cardinality(nested) + Cardinality(top)
    + Cardinality({r \in Names : endpoints[r] # CrudActions})
    + Len(FlattenSeq([i \in DOMAIN Published |-> custom[Published[i]]]))

Declare ==
    /\ surfaceStage = "declaring" /\ Settings < MaxSettings
    /\ \/ \E s \in Switches \ switches :
             /\ \A e \in Exclusive : s \in e => e \cap switches = {}
             /\ s \in {"refreshTokens", "revocation"} => "authFlows" \in switches
             /\ switches' = switches \cup {s}
             /\ UNCHANGED <<endpoints, custom, nested, top>>
       \/ \E r \in Names, e \in Subsets :
             /\ endpoints' = [endpoints EXCEPT ![r] = e]
             /\ UNCHANGED <<switches, custom, nested, top>>
       \/ \E e \in Extras :
             /\ custom' = [custom EXCEPT ![e[1]] = Append(@, e[2])]
             /\ UNCHANGED <<switches, endpoints, nested, top>>
       \/ \E pair \in Relatable :
             /\ nested' = nested \cup {pair}
             /\ UNCHANGED <<switches, endpoints, custom, top>>
       \/ \E pair \in Relatable, t \in {"many-to-one", "one-to-many", "one-to-one", "many-to-many"} :
             /\ top' = top \cup {[from |-> pair[1], type |-> t, to |-> pair[2]]}
             /\ UNCHANGED <<switches, endpoints, custom, nested>>
    /\ UNCHANGED <<surfaceStage, parsed, mounted, offered>>

OAuthAlone == TRUE  \* mutant: OAuth needs no user system

OAuthHasUsers == "oauth" \in switches => "jwt" \in switches

\* normalizeTopLevelRelations: what the top-level relations add to the resources.
Folded(t) ==
    CASE t.type \in {"many-to-one", "one-to-one"} -> {<<t.to, t.from>>}
      [] t.type = "one-to-many" -> {<<t.from, t.to>>}
      [] OTHER -> {}

\* parseSpec keeps the keys its schema has, and `customEndpoints` is none of them.
Parse ==
    /\ surfaceStage = "declaring"
    /\ IF OAuthHasUsers
       THEN /\ surfaceStage' = "given" /\ parsed' = TRUE
            /\ nested' = nested \cup UNION {Folded(t) : t \in top}
       ELSE surfaceStage' = "refused" /\ UNCHANGED <<parsed, nested>>
    /\ UNCHANGED <<switches, endpoints, custom, top, mounted, offered>>

\* createRuntime takes any object.
GiveUnparsed ==
    /\ surfaceStage = "declaring" /\ surfaceStage' = "given"
    /\ UNCHANGED <<parsed, switches, endpoints, custom, nested, top, mounted, offered>>

CustomEndpoints(r) == IF parsed THEN <<>> ELSE custom[r]
Namesakes(r) == {s \in Names \ {r} : Plural[s] = Plural[r]}

(***************************************************************************)
(* Routes                                                                  *)
(***************************************************************************)
Route(method, path, handler) == [method |-> method, path |-> path, handler |-> handler]

Verb(a) ==
    CASE a \in {"list", "read"} -> "GET"
      [] a = "create" -> "POST"
      [] a = "update" -> "PUT"
      [] a = "delete" -> "DELETE"
OfItem(a) == a \in {"read", "update", "delete"}

Flat(r, a) ==
    Route(Verb(a), IF OfItem(a) THEN <<Plural[r], ":">> ELSE <<Plural[r]>>, <<"crud", r, a>>)
Nested(p, c, a) ==
    Route(Verb(a),
          IF OfItem(a) THEN <<Plural[p], ":", Plural[c], ":">> ELSE <<Plural[p], ":", Plural[c]>>,
          <<"nested", p, c, a>>)
Custom(r, e) == Route(e.method, <<Plural[r]>> \o e.path, <<"custom", r, e.method, e.path>>)
User(name) == Route(IF name = "me" THEN "GET" ELSE "POST", <<"auth", name>>, <<"auth", name>>)
OAuth(provider) ==
    {Route("GET", <<"auth", "oauth", provider>>, <<"oauth", "start">>),
     Route("GET", <<"auth", "oauth", provider, "callback">>, <<"oauth", "callback">>)}
Key(method, path, name) == Route(method, <<"admin", "api-keys">> \o path, <<"keys", name>>)
Hook(method, path, name) == Route(method, <<"admin", "webhooks">> \o path, <<"webhooks", name>>)
Inbound(source) == Route("POST", <<"webhooks", "inbound", source>>, <<"webhooks", "inbound">>)
Upload == Route("POST", <<"upload">>, <<"files", "upload">>)
Page(name) == Route("GET", <<name>>, <<"page", name>>)

When(condition, routes) == IF condition THEN routes ELSE {}
On(s) == s \cap switches # {}
FilesOn == On({"uploadLocal", "uploadS3"})
KeysOn == On({"apikey", "strategyApikey"})

(***************************************************************************)
(* What the server mounts: layers of routes, each of disjoint patterns     *)
(***************************************************************************)
MountApiKeyRoutes ==
    {Key("POST", <<>>, "create"), Key("GET", <<>>, "list"), Key("DELETE", <<":">>, "revoke")}
MountJwtAuthRoutes == {User(n) : n \in {"register", "login", "refresh", "logout", "me"}}
MountUploadRoutes == {Upload, Route("DELETE", <<"upload", ":">>, <<"files", "delete">>)}
MountLocalUploadRoute == {Route("GET", <<"uploads", ":">>, <<"serve">>)}
MountWebhookAdminRoutes ==
    {Hook("POST", <<>>, "create"), Hook("GET", <<>>, "list"), Hook("DELETE", <<":">>, "delete"),
     Hook("GET", <<":", "deliveries">>, "deliveries")}
MountAuthFlows ==
    {User("register"), User("login")} \cup When(On({"refreshTokens"}), {User("refresh")})
    \cup When(On({"revocation"}), {User("logout")})

FlatOf(r, actions) == {Flat(r, a) : a \in actions \cap endpoints[r]}

RegisterNestedRoutes(p) ==
    UNION {{Nested(p, c, a) : a \in endpoints[c] \cap {"list", "create", "read"}} :
              c \in {n \in Names : <<p, n>> \in nested}}

RegisterResource(r) ==
    <<FlatOf(r, {"list"})>> \o [k \in DOMAIN CustomEndpoints(r) |-> {Custom(r, custom[r][k])}]
    \o <<FlatOf(r, CrudActions \ {"list"}), RegisterNestedRoutes(r)>>

GenerateRoutes == FlattenSeq([i \in DOMAIN Published |-> RegisterResource(Published[i])])

MountedRoutes ==
    <<{Page("health"), Page("ready")},
      When(KeysOn, MountApiKeyRoutes),
      When(On({"jwt"}), MountJwtAuthRoutes),
      When(On({"jwt"}) /\ On({"oauth"}), OAuth(":")),
      When(FilesOn, MountUploadRoutes),
      When(On({"uploadLocal"}), MountLocalUploadRoute),
      When(On({"outbound"}), MountWebhookAdminRoutes),
      When(On({"inbound"}), {Inbound(":")})>>
    \o GenerateRoutes
    \o <<When(On({"authFlows"}) /\ ~On({"jwt"}), MountAuthFlows),
         When(~On({"noDocs"}), {Page("openapi.json"), Page("docs")})>>

Mount ==
    /\ surfaceStage = "given" /\ surfaceStage' = "mounted"
    /\ mounted' = MountedRoutes
    /\ UNCHANGED <<parsed, switches, endpoints, custom, nested, top, offered>>

(***************************************************************************)
(* The OpenAPI document                                                    *)
(***************************************************************************)
\* The entry of a path is that of the last resource that has one.
Kept(r, actions) ==
    IF \E i, j \in DOMAIN Published :
           /\ i < j /\ Published[i] = r /\ Published[j] \in Namesakes(r)
           /\ actions \cap endpoints[Published[j]] # {}
    THEN {} ELSE FlatOf(r, actions)
BuildPaths(r) == Kept(r, {"list", "create"}) \cup Kept(r, {"read", "update", "delete"})
JwtAuthPaths == {User("register"), User("login"), User("refresh"), User("logout"), User("me")}
OAuthPaths == OAuth(":")
ApiKeyAdminPaths ==
    {Key("POST", <<>>, "create"), Key("GET", <<>>, "list"), Key("DELETE", <<":">>, "revoke")}
BuildAuthPaths ==
    When(On({"jwt"}), JwtAuthPaths) \cup When(On({"jwt"}) /\ On({"oauth"}), OAuthPaths)
    \cup When(KeysOn, ApiKeyAdminPaths)
OpenApi == (UNION {BuildPaths(r) : r \in Names}) \cup BuildAuthPaths

(***************************************************************************)
(* The client: a nested accessor has every endpoint of the child           *)
(***************************************************************************)
NestedChildren(p) == {c \in Names : <<p, c>> \in nested}
ResourceAccessor(r) ==
    {Flat(r, a) : a \in endpoints[r]}
    \cup UNION {{Nested(r, c, a) : a \in endpoints[c]} : c \in NestedChildren(r)}
AuthBlock == {User(n) : n \in {"register", "login", "refresh", "logout", "me"}}
UploadEnabled == FilesOn \/ On({"fileField"})
Sdk ==
    (UNION {ResourceAccessor(r) : r \in Names}) \cup When(On({"jwt"}), AuthBlock)
    \cup When(UploadEnabled, {Upload})

(***************************************************************************)
(* The Postman collection                                                  *)
(***************************************************************************)
AuthFolder == {User(n) : n \in {"register", "login", "refresh", "logout", "me"}}
OAuthFolder == When(On({"oauth"}), OAuth("google"))
CustomEndpointRequests(r) == {Custom(r, e) : e \in ToSet(CustomEndpoints(r))}

\* A request for every top-level relation of the resource, whatever its type.
ResourceFolder(r) ==
    {Flat(r, a) : a \in endpoints[r]} \cup CustomEndpointRequests(r)
    \cup {Nested(r, t.to, "list") : t \in {u \in top : u.from = r}}
UploadFolder == When(FilesOn, {Upload})
WebhooksFolder ==
    When(On({"outbound"}), MountWebhookAdminRoutes) \cup When(On({"inbound"}), {Inbound("stripe")})
Postman ==
    When(On({"jwt", "strategyJwt"}), AuthFolder) \cup OAuthFolder
    \cup (UNION {ResourceFolder(r) : r \in Names}) \cup UploadFolder \cup WebhooksFolder

(***************************************************************************)
(* The README                                                              *)
(***************************************************************************)
RenderAuth ==
    When(On({"jwt", "strategyJwt"}), {User(n) : n \in {"register", "login", "refresh", "me"}})
    \cup When(On({"oauth"}), OAuth("google"))
RenderResourceEndpoints(r) ==
    {Flat(r, a) : a \in endpoints[r]} \cup CustomEndpointRequests(r)
    \cup {Nested(r, t.to, "list") : t \in {u \in top : u.from = r}}
RenderUpload == When(FilesOn, {Upload})
Subscription == Route("POST", <<"webhooks", "endpoints">>, <<"webhooks", "create">>)
RenderWebhooks ==
    When(On({"outbound"}), {Subscription}) \cup When(On({"inbound"}), {Inbound("stripe")})

RenderSearch == When(On({"search"}) /\ Published # <<>>, {Flat(Published[1], "list")})

\* The examples create and list the first resource that can be created.
Creatable == {i \in DOMAIN Published : "create" \in endpoints[Published[i]]}
RenderExamples ==
    IF Creatable = {} THEN {} ELSE {Flat(Published[Min(Creatable)], a) : a \in {"create", "list"}}
Readme ==
    RenderAuth \cup (UNION {RenderResourceEndpoints(r) : r \in Names})
    \cup RenderSearch \cup RenderUpload \cup RenderWebhooks \cup RenderExamples
    \cup {Page("openapi.json"), Page("health")}

\* The generated tests append an s to the name of the resource.
Tests ==
    UNION {{[Flat(r, a) EXCEPT !.path[1] = IF r \in Irregular THEN "naive" ELSE Plural[r]] :
               a \in endpoints[r]} : r \in Names}

Publish ==
    /\ surfaceStage = "mounted" /\ surfaceStage' = "published"
    /\ offered' = [openapi |-> OpenApi, sdk |-> Sdk, postman |-> Postman, readme |-> Readme,
                   tests |-> Tests]
    /\ UNCHANGED <<parsed, switches, endpoints, custom, nested, top, mounted>>

Next == Declare \/ Parse \/ GiveUnparsed \/ Mount \/ Publish

Spec == Init /\ [][Next]_surfaceOwn
-----------------------------------------------------------------------------
Matches(pattern, path) ==
    Len(pattern) = Len(path) /\ \A i \in DOMAIN path : pattern[i] \in {":", path[i]}

\* The handler a request goes to: that of the first route that matches.
Matching(x, i) == {y \in mounted[i] : y.method = x.method /\ Matches(y.path, x.path)}
Reached(x) ==
    LET hits == {i \in DOMAIN mounted : Matching(x, i) # {}} IN
    IF hits = {} THEN <<"404">> ELSE (CHOOSE y \in Matching(x, Min(hits)) : TRUE).handler

TypeOK ==
    /\ surfaceStage \in {"declaring", "refused", "given", "mounted", "published"}
    /\ parsed \in BOOLEAN /\ switches \subseteq Switches /\ nested \subseteq Names \X Names
    /\ \A r \in Names :
           endpoints[r] \subseteq CrudActions /\ {<<r, e>> : e \in ToSet(custom[r])} \subseteq Extras
    /\ \A t \in top : {t.from, t.to} \subseteq Names
    /\ DOMAIN offered = Artefacts

\* A namesake whose routes come first answers alike.
OfNamesake(h, g) ==
    LET Like(r) == {r} \cup Namesakes(r) IN
    \/ h[1] = "crud" /\ \E s \in Like(h[2]) : g = <<"crud", s, h[3]>>
    \/ h[1] = "nested" /\ \E s \in Like(h[2]), d \in Like(h[3]) : g = <<"nested", s, d, h[4]>>

\* A custom endpoint and the route of stored files take a request before the resource does,
\* its list takes that of a custom endpoint at the resource's root, inbound webhooks take that
\* of one they lie on, and the routes of a namesake that of one they match.
Overridden(x) ==
    \/ Reached(x)[1] \in {"custom", "serve"}
    \/ OfNamesake(x.handler, Reached(x))
    \/ /\ x.handler[1] = "custom"
       /\ \/ Len(x.path) = 1 /\ Reached(x) = <<"crud", x.handler[2], "list">>
          \/ Reached(x) = <<"webhooks", "inbound">>
          \/ Reached(x)[1] \in {"crud", "nested"} /\ Reached(x)[2] \in Namesakes(x.handler[2])

\* Where an artefact goes beyond what is mounted.
NestedWrites == {x \in offered["sdk"] : x.handler[1] = "nested" /\ x.method \in {"PUT", "DELETE"}}
UploadOfField == IF FilesOn THEN {} ELSE {Upload}
UserRoutes == IF On({"jwt"}) THEN {} ELSE AuthFolder \cup When(~parsed, OAuthFolder)
RelationRoutes == {Nested(t.from, t.to, "list") : t \in top}
UnlistedRelations ==
    {x \in RelationRoutes :
        <<x.handler[2], x.handler[3]>> \notin nested \/ "list" \notin endpoints[x.handler[3]]}
UnlistedExample == {Flat(r, "list") : r \in {n \in Names : "list" \notin endpoints[n]}}
UnservedDocs == When(On({"noDocs"}), {Page("openapi.json")})
Misspelled == {x \in offered["tests"] : x.path[1] = "naive"}

Sound(artefact, gaps) == \A x \in offered[artefact] \ gaps : Reached(x) = x.handler \/ Overridden(x)

\* The routes of `authFlows`, mounted where there is no user system, are not in the document.
Documented(x) ==
    \/ x.handler[1] = "crud" /\ Namesakes(x.handler[2]) = {}
    \/ x.handler[1] \in {"oauth", "keys"}
    \/ On({"jwt"}) /\ x.handler[1] = "auth"

\* What an artefact offers is served by the handler it describes, or by that of a resource of
\* the same plural, whichever features are combined; and the OpenAPI document omits no endpoint
\* of a resource that has its plural alone, of the user system (the older authFlows are never
\* documented), of OAuth or of the API keys.
ArtefactsServed ==
    surfaceStage = "published" =>
        /\ Sound("openapi", {})
        /\ Sound("sdk", NestedWrites \cup UploadOfField)
        /\ Sound("postman", UserRoutes \cup UnlistedRelations)
        /\ Sound("readme", UserRoutes \cup UnlistedRelations \cup UnlistedExample \cup UnservedDocs
                               \cup {Subscription})
        /\ Sound("tests", Misspelled)
        /\ \A i \in DOMAIN mounted : \A x \in mounted[i] : Documented(x) => x \in offered["openapi"]

\* A custom endpoint of a resource is mounted on the resource's router.
CustomEndpointsMounted ==
    surfaceStage \in {"mounted", "published"} =>
        \A r \in Names : \A e \in ToSet(custom[r]) :
            \E i \in DOMAIN mounted : Custom(r, e) \in mounted[i]
=============================================================================
