---------------------------- MODULE MCApiServer -----------------------------
(***************************************************************************)
(* ApiServer on small instances of its parts.                              *)
(***************************************************************************)
EXTENDS ApiServer, TLC

CONSTANTS stockA, stockB,   \* stock rows
          tagX, tagY        \* related rows

\* Two transactions that take the rows in opposite orders may wait for each other.
MCPlans == {<<stockA, stockB>>, <<stockB, stockA>>, <<stockA>>}
MCBodies == {<<>>, <<tagX>>, <<tagX, tagY>>}

\* Two relations of one resource to User.
MCLinks == <<"author", "editor">>

(***************************************************************************)
(* Requesters, rules and roles of Permissions                              *)
(***************************************************************************)
Requester(cred, role, sub, claim) == [cred |-> cred, role |-> role, sub |-> sub, claim |-> claim]
MCRequesters ==
    {Requester("none", "anonymous", None, None), Requester("bad", "admin", None, None),
     Requester("jwt", "user", "v1", "v2"), Requester("jwt", "user", "v2", None),
     Requester("jwt", "admin", "v1", "v1"), Requester("key", "user", None, None)}

Rule(role, scope_, grants) == [role |-> role, scope |-> scope_, grants |-> grants]
MCRuleSets ==
    {None,
     <<Rule("user", "own", FALSE)>>,
     <<Rule("public", "none", TRUE), Rule("user", "own", TRUE)>>,
     <<Rule("user", "claim", TRUE), Rule("admin", "none", TRUE)>>}

\* Every way to inherit up to two roles, cycles and a role that is not defined included.
MCParents ==
    {p \in UNION {[1..n -> RoleNames] : n \in 0..2} : \A i, j \in DOMAIN p : i # j => p[i] # p[j]}
MCHierarchies == {[r \in Roles |-> IF r = "admin" THEN <<"user">> ELSE <<>>]}

(***************************************************************************)
(* Declarations of RelationPlan                                            *)
(***************************************************************************)
MCResources == <<"post", "tag", "label">>

MCArrays == [post |-> <<"post">>, tag |-> <<"la", "ies">>, label |-> <<"la", "ies">>,
             t |-> <<"t", "s">>]
MCPlain == {<<"post", <<"tag", "Id">>>>, <<"post", <<"w">>>>, <<"post", <<"user", "Id">>>>,
            <<"post", <<"y", "tag", "s">>>>}

Declares(r, type, to, field, through, isRequired) ==
    <<r, [type |-> type, to |-> to, field |-> field, through |-> through,
          required |-> isRequired, onDelete |-> None]>>
Named(stem_, ending_) == [stem |-> stem_, ending |-> ending_]

MCDeclarable ==
    {Declares("post", "manyToOne", "tag", None, None, TRUE),
     Declares("post", "manyToOne", "tag", Named("x", "_id"), None, FALSE),
     Declares("post", "manyToOne", "tag", Named("tag", ""), None, FALSE),
     Declares("post", "oneToOne", "post", Named("x", "Id"), None, FALSE),
     Declares("post", "oneToOne", "post", Named("tag", "Id"), None, FALSE),
     Declares("post", "oneToMany", "post", None, None, FALSE),
     Declares("post", "oneToMany", "tag", None, None, FALSE),
     Declares("post", "manyToOne", "user", None, None, FALSE),
     Declares("post", "manyToOne", "user", Named("w", ""), None, FALSE),
     Declares("tag", "manyToOne", "post", None, None, TRUE),
     Declares("tag", "manyToOne", "post", Named("y", "Id"), None, FALSE),
     Declares("post", "manyToMany", "tag", None, "t", FALSE),
     Declares("post", "manyToMany", "post", None, "t", FALSE),
     Declares("post", "manyToMany", "tag", None, "label", FALSE),
     Declares("label", "manyToMany", "post", None, "label", FALSE),
     Declares("tag", "oneToMany", "post", None, None, FALSE),
     Declares("label", "manyToOne", "post", None, None, FALSE),
     Declares("label", "manyToOne", "tag", Named("z", "Id"), None, FALSE)}

TopRelation(from, type, to, field, through) ==
    [from |-> from, type |-> type, to |-> to, field |-> field, through |-> through]
MCTopLevel ==
    {TopRelation("post", "one-to-many", "tag", None, None),
     TopRelation("tag", "many-to-many", "post", None, "t"),
     TopRelation("post", "one-to-one", "tag", Named("x", "Id"), None)}

(***************************************************************************)
(* Resources and custom endpoints of ApiSurface                            *)
(***************************************************************************)
\* The route of stored files lies on the first, the route of inbound webhooks on the others,
\* which are namesakes.
MCPublished == <<"Upload", "Webhook", "Webhooks">>
MCPlural == [Upload |-> "uploads", Webhook |-> "webhooks", Webhooks |-> "webhooks"]

Extra(r, method, path) == <<r, [method |-> method, path |-> path]>>
MCExtras ==
    {Extra("Webhook", "GET", <<>>), Extra("Webhook", "GET", <<":", "uploads">>),
     Extra("Webhook", "POST", <<"inbound", "search">>), Extra("Webhooks", "GET", <<":">>)}
MCRelatable == {<<"Webhook", "Upload">>, <<"Webhooks", "Webhook">>}

\* A behaviour exercises one part.  Requests, rows and signals are the same model values, so
\* that one permutation of them serves every part.
MCSymmetry == Permutations(Clients) \cup Permutations(Requests)
=============================================================================
