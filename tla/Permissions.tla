----------------------------- MODULE Permissions -----------------------------
(***************************************************************************)
(* Who may do what to which row: the guard of the permissions block        *)
(* (rbac/resource-permissions.ts), the older guard by roles that inherit   *)
(* (rbac/roles.ts, rbac/permissions.ts, generators/routes.ts buildGuard),  *)
(* and the scope a matched rule puts on the handlers that create, change   *)
(* and delete rows, one step per await.                                    *)
(*                                                                         *)
(* The scope column is also a foreign key a body may carry and the parent  *)
(* a nested route names.  A credential is "none", "bad" (refused by the    *)
(* authentication middleware), "jwt" or "key".                             *)
(***************************************************************************)
EXTENDS Integers, FiniteSets, Sequences, SequencesExt

CONSTANTS Requests, None, Absent,
          Seeded,       \* rows that exist at first: ids, disjoint from Requests
          Values,       \* of the scope column
          Bodies, Urls, \* what a body and a URL may say of it: values or None
          Requesters,   \* records [cred, role, sub, claim]
          RuleSets,     \* the permission rules of the resource: sequences of [role, scope, grants], or None
          RoleNames,    \* names that a role, a token or a list of parents may give
          Roles,        \* those of roles that are defined
          Parents,      \* what a role may inherit: sequences of names
          Hierarchies,  \* the role definitions the older guard is tried with
          Allowed       \* the sets of roles the older guard may be given

VARIABLES
    mode,       \* "permissions", "legacy" or "roles" (resolution of roles only)
    rules,      \* of RuleSets
    inherits,   \* per role: the roles it inherits, in order
    required,   \* older guard: is authentication required?
    allowed,    \* older guard: the roles let in, or {} for everybody
    rows,       \* per id: the value of the scope column, None, or Absent
    pc,         \* per request
    req,        \* per request: [who, kind, id, body, parent], or None
    scope,      \* per request: the value its rows must have, or None
    seen,       \* per request: the value in the row it read
    everIn,     \* history: per id, the values its row has had
    by,         \* history: per id, the scopes that wrote it
    last        \* history: per id, the scope of the last write, or None

permOwn == <<mode, rules, inherits, required, allowed, rows, pc, req, scope, seen, everIn, by, last>>

Ids == Seeded \cup Requests

PermissionsAssumption ==
    /\ IsFiniteSet(RoleNames) /\ Roles \subseteq RoleNames /\ Parents \subseteq Seq(RoleNames)
    /\ Hierarchies \subseteq [Roles -> Seq(RoleNames)] /\ \A who \in Requesters : who.role \in RoleNames
    /\ Bodies \cup Urls \subseteq Values \cup {None}
    /\ Seeded \cap Requests = {} /\ Absent \notin Values /\ None \notin Values
    /\ None # Absent /\ \A who \in Requesters : {who.sub, who.claim} \subseteq Values \cup {None}

Init ==
    /\ \/ mode = "permissions" /\ rules \in RuleSets /\ inherits = [r \in Roles |-> <<>>]
          /\ required = TRUE /\ allowed = {}
       \/ mode = "legacy" /\ rules = None /\ inherits \in Hierarchies
          /\ required \in BOOLEAN /\ allowed \in Allowed
       \/ mode = "roles" /\ rules = None /\ inherits \in [Roles -> Parents]
          /\ required = TRUE /\ allowed = {}
    /\ rows \in [Ids -> Values \cup {Absent}] /\ \A i \in Ids : rows[i] = Absent <=> i \in Requests
    /\ pc = [r \in Requests |-> "new"] /\ req = [r \in Requests |-> None]
    /\ scope = [r \in Requests |-> None] /\ seen = [r \in Requests |-> None]
    /\ everIn = [i \in Ids |-> {rows[i]} \ {Absent}]
    /\ by = [i \in Ids |-> {}] /\ last = [i \in Ids |-> None]

(***************************************************************************)
(* Roles that inherit                                                      *)
(***************************************************************************)
\* mutant: only the first role inherited counts
FirstParent(role) == IF inherits[role] = <<>> THEN <<>> ELSE <<Head(inherits[role])>>

ParentsOf(role) == inherits[role]

\* getEffectiveRoles: depth first, never into a role visited before, on whatever path.
Visited[p \in Seq(RoleNames) \X SUBSET RoleNames] ==
    LET todo == p[1]  visited == p[2]  role == Head(todo) IN
    IF todo = <<>> THEN visited
    ELSE IF role \in visited THEN Visited[<<Tail(todo), visited>>]
    ELSE Visited[<<(IF role \in Roles THEN ParentsOf(role) ELSE <<>>) \o Tail(todo),
                   visited \cup {role}>>]

EffectiveRoles(role) == Visited[<<<<role>>, {}>>]

HasPermission(role) == allowed = {} \/ EffectiveRoles(role) \cap allowed # {}

(***************************************************************************)
(* Guards: a verdict is [in, scope]                                        *)
(***************************************************************************)
In(value) == [in |-> TRUE, scope |-> value]
Out == [in |-> FALSE, scope |-> None]

Authenticated(who) == who.cred \in {"jwt", "key"}

LegacyGuard(who) ==
    IF (required => Authenticated(who))
       /\ (allowed = {} \/ (who.cred \in {"jwt", "bad"} /\ HasPermission(who.role)))
    THEN In(None) ELSE Out

\* resolveOwnership: None if the identity lacks what the rule scopes by.
OwnershipOf(rule, who) == IF rule.scope = "own" THEN who.sub ELSE who.claim

RuleVerdict(rule, who) ==
    IF rule.scope = "none" THEN In(None)
    ELSE IF OwnershipOf(rule, who) = None THEN Out ELSE In(OwnershipOf(rule, who))

Granting == SelectSeq(rules, LAMBDA rule : rule.grants)
FirstFor(role) == SelectInSeq(Granting, LAMBDA rule : rule.role = role)
Public == IF FirstFor("public") > 0 THEN In(None) ELSE Out

PermissionGuard(who) ==
    IF rules = None THEN IF Authenticated(who) THEN In(None) ELSE Out
    ELSE IF Authenticated(who) /\ FirstFor(who.role) > 0
         THEN RuleVerdict(Granting[FirstFor(who.role)], who)
         ELSE Public

Guard(r) ==
    /\ mode # "roles" /\ pc[r] = "new"
    /\ \E who \in Requesters, kind \in {"create", "update", "delete"}, i \in Seeded,
          body \in Bodies, parent \in Urls :
           LET verdict == IF mode = "legacy" THEN LegacyGuard(who) ELSE PermissionGuard(who) IN
           /\ kind = "delete" => body = None
           /\ req' = [req EXCEPT ![r] = [who |-> who, kind |-> kind, id |-> IF kind = "create" THEN r ELSE i,
                                         body |-> body, parent |-> parent]]
           /\ scope' = [scope EXCEPT ![r] = verdict.scope]
           /\ pc' = [pc EXCEPT ![r] = IF ~verdict.in THEN "refused"
                                      ELSE IF kind = "create" THEN "write" ELSE "read"]
    /\ UNCHANGED <<mode, rules, inherits, required, allowed, rows, seen, everIn, by, last>>

(***************************************************************************)
(* Handlers                                                                *)
(***************************************************************************)
\* The row must be there, under the parent the URL names, and in the scope.
Read(r) ==
    LET row == rows[req[r].id] IN
    /\ pc[r] = "read"
    /\ IF row = Absent \/ (req[r].parent # None /\ row # req[r].parent)
          \/ (scope[r] # None /\ row # scope[r])
       THEN pc' = [pc EXCEPT ![r] = "404"] /\ UNCHANGED seen
       ELSE pc' = [pc EXCEPT ![r] = "write"] /\ seen' = [seen EXCEPT ![r] = row]
    /\ UNCHANGED <<mode, rules, inherits, required, allowed, rows, req, scope, everIn, by, last>>

Write(r, value) ==
    LET i == req[r].id IN
    /\ rows' = [rows EXCEPT ![i] = value]
    /\ everIn' = [everIn EXCEPT ![i] = @ \cup ({value} \ {Absent, None})]
    /\ by' = [by EXCEPT ![i] = @ \cup ({scope[r]} \ {None})]
    /\ last' = [last EXCEPT ![i] = scope[r]]
    /\ pc' = [pc EXCEPT ![r] = "done"]
    /\ UNCHANGED <<mode, rules, inherits, required, allowed, req, scope, seen>>

\* The scope overrides the parent, and a URL that names another scope is refused.
CreateRow(r) ==
    LET q == req[r] IN
    /\ pc[r] = "write" /\ q.kind = "create"
    /\ IF scope[r] # None /\ q.parent \notin {None, scope[r]}
       THEN pc' = [pc EXCEPT ![r] = "refused"]
            /\ UNCHANGED <<mode, rules, inherits, required, allowed, rows, req, scope, seen, everIn, by, last>>
       ELSE Write(r, IF scope[r] # None THEN scope[r] ELSE IF q.parent # None THEN q.parent ELSE q.body)

\* mutant: the foreign keys of the body are applied after the scope column
BodyLast(r) == IF req[r].body # None THEN req[r].body ELSE seen[r]

\* The row as read, the body's keys over it, then the scope column and the parent as read.
NewValue(r) ==
    IF scope[r] # None \/ req[r].parent # None \/ req[r].body = None THEN seen[r] ELSE req[r].body

\* In memory the write also brings a deleted row back; a database refuses it.
UpdateRow(r) ==
    /\ pc[r] = "write" /\ req[r].kind = "update"
    /\ \/ Write(r, NewValue(r))
       \/ /\ rows[req[r].id] = Absent
          /\ pc' = [pc EXCEPT ![r] = "404"]
          /\ UNCHANGED <<mode, rules, inherits, required, allowed, rows, req, scope, seen, everIn, by, last>>

DeleteRow(r) == pc[r] = "write" /\ req[r].kind = "delete" /\ Write(r, Absent)

Next == \E r \in Requests : Guard(r) \/ Read(r) \/ CreateRow(r) \/ UpdateRow(r) \/ DeleteRow(r)
-----------------------------------------------------------------------------
TypeOK ==
    /\ mode \in {"permissions", "legacy", "roles"} /\ rules \in RuleSets \cup {None}
    /\ inherits \in [Roles -> Seq(RoleNames)] /\ required \in BOOLEAN /\ allowed \in Allowed \cup {{}}
    /\ rows \in [Ids -> Values \cup {None, Absent}]
    /\ pc \in [Requests -> {"new", "read", "write", "refused", "404", "done"}]
    /\ req \in [Requests -> {None} \cup [who : Requesters, kind : {"create", "update", "delete"}, id : Ids,
                   body : Bodies, parent : Urls]]
    /\ scope \in [Requests -> Values \cup {None}] /\ seen \in [Requests -> Values \cup {None}]
    /\ everIn \in [Ids -> SUBSET Values] /\ by \in [Ids -> SUBSET Values]
    /\ last \in [Ids -> Values \cup {None}]

\* A requester with a scope only ever writes rows that were in that scope at some time, and
\* leaves each of them in its scope (or deleted), whatever the body and the URL say and
\* whatever others write between its read and its write.
ScopeKept ==
    \A i \in Ids :
        /\ by[i] \subseteq everIn[i]
        /\ last[i] # None => rows[i] \in {last[i], Absent}

\* The roles a role stands for are those its inheritance leads to, through any cycle.
RolesExact ==
    LET Step == {e \in Roles \X RoleNames : e[2] \in ToSet(inherits[e[1]])}
        Closed(S) == \A e \in Step : e[1] \in S => e[2] \in S IN
    \A role \in RoleNames :
        LET up == EffectiveRoles(role) IN
        /\ role \in up /\ Closed(up)
        /\ \A S \in SUBSET RoleNames : role \in S /\ Closed(S) => up \subseteq S
=============================================================================
