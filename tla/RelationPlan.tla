---------------------------- MODULE RelationPlan -----------------------------
(***************************************************************************)
(* What the relations of a spec become: the parser's checks                *)
(* (parser/index.ts), the folding of top-level relations and the plan of   *)
(* foreign keys, object fields and back fields (relations/index.ts), the   *)
(* database schema (generators/schema.ts), and the names an ?include=      *)
(* looks for in it (relations/prisma-include.ts).                          *)
(*                                                                         *)
(* An author declares one relation after the other.  A resource is named   *)
(* by its name in lower case.  The column of a foreign key is any name: a  *)
(* stem, and the ending that baseFromFk strips from it, if it has one.     *)
(* The name of a field is the sequence of names it is glued from, and no   *)
(* name is glued from others.  A column without a stem ("id"), or with the *)
(* name of a field every model has (createdAt, ...), is left out, and so   *)
(* are `as` and `reverseAs`, by which an author names what a self-join     *)
(* leaves on its resource.                                                 *)
(***************************************************************************)
EXTENDS Integers, FiniteSets, Sequences, SequencesExt, FiniteSetsExt

CONSTANTS None,
          Resources,    \* names of resources, in the order of the spec (a sequence)
          System,       \* names of active system resources
          Ownable,      \* resources that may have an ownOnly rule
          Declarable,   \* pairs of a resource and a relation it may declare
          TopLevel,     \* top-level relations that may be declared
          Joins,        \* names a `through` may give
          Arrays,       \* per model: the field name backArrayField makes of it
          Plain,        \* the fields the resources declare, pairs of a resource and a name
          MaxRelations  \* bound: relations in all

VARIABLES
    declared,   \* per resource: its relations [type, to, field, through, required, onDelete], in order
    top,        \* the top-level relations [from, type, to, field, through], in order
    owned,      \* the resources with an ownOnly rule
    stage,      \* "declaring", "parsed" or "rejected", "planned", "rendered"
    all,        \* the parsed relations, pairs of a resource and a relation, in the order of the spec
    links,      \* the plan: one link per foreign key
    fields      \* the schema: its columns, object fields and back fields

planOwn == <<declared, top, owned, stage, all, links, fields>>

Names == ToSet(Resources)
Direct == {"manyToOne", "oneToOne"}
Types == Direct \cup {"oneToMany", "manyToMany"}

\* Columns, by their stem and ending: "Id" is added to a stem, and stripped like the others.
Endings == {"Id", "id", "ID", "iD", "_Id", "_id", "_ID", "_iD"}
Columns == [stem : STRING, ending : Endings \cup {""}]
Default(name) == [stem |-> name, ending |-> "Id"]

Relations == [type : Types, to : STRING, field : {None} \cup Columns, through : Joins \cup {None},
              required : BOOLEAN, onDelete : STRING \cup {None}]
TopTypes == {"many-to-one", "one-to-one", "one-to-many", "many-to-many"}
TopRelations == [from : STRING, type : TopTypes, to : STRING, field : {None} \cup Columns,
                 through : Joins \cup {None}]

\* The names a model or a field may have, apart from those of foreign keys.
Known == Names \cup System \cup Joins

\* No name is an ending that the schema glues to names.
RelationPlanAssumption ==
    /\ Resources \in Seq(STRING) /\ Resources # <<>> /\ Ownable \subseteq Names
    /\ System \cap Names = {} /\ Known \subseteq STRING /\ None \notin STRING \cup Columns
    /\ (Endings \cup {"s", "ies"}) \cap Known = {}
    /\ Arrays \in [Names \cup Joins -> Seq(STRING)]
    /\ \A m \in Names \cup Joins :
           Arrays[m] \in {<<m>>, <<m, "s">>} \/ (Len(Arrays[m]) = 2 /\ Arrays[m][2] = "ies")
    /\ Plain \subseteq Names \X Seq(STRING)
    /\ Declarable \subseteq Names \X Relations /\ TopLevel \subseteq TopRelations
    /\ MaxRelations \in Nat

Init ==
    /\ declared = [r \in Names |-> <<>>] /\ top = <<>>
    /\ owned \in SUBSET Ownable
    /\ stage = "declaring" /\ all = <<>> /\ links = {} /\ fields = {}

DeclaredSoFar == Len(top) + Len(FlattenSeq([i \in DOMAIN Resources |-> declared[Resources[i]]]))

Declare ==
    /\ stage = "declaring" /\ DeclaredSoFar < MaxRelations
    /\ \/ \E d \in Declarable : declared' = [declared EXCEPT ![d[1]] = Append(@, d[2])] /\ UNCHANGED top
       \/ \E t \in TopLevel : top' = Append(top, t) /\ UNCHANGED declared
    /\ UNCHANGED <<owned, stage, all, links, fields>>

(***************************************************************************)
(* Folding top-level relations into the resources                          *)
(***************************************************************************)
Relation(type, to, field, through) ==
    [type |-> type, to |-> to, field |-> field, through |-> through, required |-> FALSE, onDelete |-> None]

Has(rels, to, type) == \E k \in DOMAIN rels : rels[k].to = to /\ rels[k].type = type

AddTo(spec, r, rel) ==
    IF r \notin Names \/ Has(spec[r], rel.to, rel.type) THEN spec
    ELSE [spec EXCEPT ![r] = Append(@, rel)]

Fold1(spec, t) ==
    CASE t.type = "many-to-one" -> AddTo(spec, t.from, Relation("manyToOne", t.to, t.field, None))
      [] t.type = "one-to-one" -> AddTo(spec, t.from, Relation("oneToOne", t.to, t.field, None))
      [] t.type = "one-to-many" ->
            AddTo(AddTo(spec, t.from, Relation("oneToMany", t.to, None, None)),
                  t.to, Relation("manyToOne", t.from, Default(t.from), None))
      [] t.type = "many-to-many" -> AddTo(spec, t.from, Relation("manyToMany", t.to, None, t.through))

Folded ==
    LET folded[n \in 0 .. Len(top)] == IF n = 0 THEN declared ELSE Fold1(folded[n - 1], top[n]) IN
    folded[Len(top)]

Flat(spec) == FlattenSeq([i \in DOMAIN Resources |->
                  [k \in DOMAIN spec[Resources[i]] |-> <<Resources[i], spec[Resources[i]][k]>>]])

(***************************************************************************)
(* The parser                                                              *)
(***************************************************************************)
KnownTarget(rel) == rel.to \in Names \/ (rel.to \in System /\ rel.type \in Direct)

WellDeclared(rel) ==
    /\ KnownTarget(rel)
    /\ rel.type = "manyToMany" => rel.through # None
    /\ ~(rel.required /\ rel.onDelete = "SetNull" /\ rel.type \in Direct)

ThroughShared(rels) == TRUE  \* mutant: two relations may share a join table

ThroughUnique(rels) ==
    \A j, k \in DOMAIN rels :
        rels[j][2].through # None /\ rels[j][2].through = rels[k][2].through => j = k

RequiredTo(rels, r, s) ==
    \E k \in DOMAIN rels :
        /\ rels[k][1] = r /\ rels[k][2].to = s
        /\ rels[k][2].type = "manyToOne" /\ rels[k][2].required

WellDeclaredTop(t) ==
    /\ t.from \in Names
    /\ t.to \in Names \/ (t.to \in System /\ t.type \in {"many-to-one", "one-to-one"})
    /\ t.type = "many-to-many" => t.through # None

Accepts(rels) ==
    /\ \A k \in DOMAIN top : WellDeclaredTop(top[k])
    /\ owned # {} => "user" \in System
    /\ \A k \in DOMAIN rels : WellDeclared(rels[k][2])
    /\ ThroughUnique(rels)
    /\ \A r, s \in Names : ~(RequiredTo(rels, r, s) /\ RequiredTo(rels, s, r))

Parse ==
    /\ stage = "declaring"
    /\ LET rels == Flat(Folded) IN
       IF Accepts(rels) THEN stage' = "parsed" /\ all' = rels ELSE stage' = "rejected" /\ UNCHANGED all
    /\ UNCHANGED <<declared, top, owned, links, fields>>

(***************************************************************************)
(* The plan: one link per foreign key                                      *)
(***************************************************************************)
Column(rel) == IF rel.field = None THEN Default(rel.to) ELSE rel.field
Stem(rel) == Column(rel).stem

\* The places in the spec of r's direct relations to another resource.
OwningTo(r, to) == {k \in DOMAIN all : all[k][1] = r /\ all[k][2].to = to /\ all[k][2].type \in Direct}
KeyTo(r, to) ==
    IF OwningTo(r, to) = {} THEN Default(to) ELSE Column(all[Min(OwningTo(r, to))][2])

Link(owner, to, column) ==
    [owner |-> owner, to |-> to, stem |-> column.stem, ending |-> column.ending]

OfRelation(r, rel) ==
    IF rel.type \in Direct THEN <<Link(r, rel.to, Column(rel))>>
    ELSE IF rel.type = "oneToMany" /\ rel.to # r /\ OwningTo(rel.to, r) = {}
    THEN <<Link(rel.to, r, Default(r))>>
    ELSE <<>>

HasChildren(r) ==
    \E k \in DOMAIN all : all[k][1] = r /\ all[k][2].to = r /\ all[k][2].type = "oneToMany"

OfSelf(r) ==
    IF HasChildren(r) /\ OwningTo(r, r) = {}
    THEN <<Link(r, r, Default("parent"))>> ELSE <<>>

\* A join table that is no resource and joins a resource with itself is no link.
SelfJoin(r, rel) == rel.type = "manyToMany" /\ rel.to = r /\ rel.through \notin Names

OfJoin(r, rel) ==
    IF rel.type # "manyToMany" \/ SelfJoin(r, rel) THEN <<>>
    ELSE IF rel.through \in Names
    THEN <<Link(rel.through, r, KeyTo(rel.through, r)),
           Link(rel.through, rel.to, KeyTo(rel.through, rel.to))>>
    ELSE <<Link(rel.through, r, Default(r)), Link(rel.through, rel.to, Default(rel.to))>>

Candidates ==
    FlattenSeq([k \in DOMAIN all |-> OfRelation(all[k][1], all[k][2])])
    \o FlattenSeq([i \in DOMAIN Resources |-> OfSelf(Resources[i])])
    \o FlattenSeq([k \in DOMAIN all |-> OfJoin(all[k][1], all[k][2])])

\* addLink: a foreign key declared again is the same link, whatever it points at.
SameKey(l, m) == l.owner = m.owner /\ l.stem = m.stem /\ l.ending = m.ending
Plan ==
    /\ stage = "parsed"
    /\ LET c == Candidates IN
       links' = {c[j] : j \in {i \in DOMAIN c : \A k \in 1 .. i - 1 : ~SameKey(c[k], c[i])}}
    /\ stage' = "planned"
    /\ UNCHANGED <<declared, top, owned, all, fields>>

NotNamed(l) == FALSE  \* mutant: no relation gets a name

Named(l) == l.owner = l.to \/ \E m \in links \ {l} : {m.owner, m.to} = {l.owner, l.to}
Several(l) == \E m \in links \ {l} : m.owner = l.owner /\ m.to = l.to

(***************************************************************************)
(* The schema: fields [model, name, to, side, rel, of], of naming what the *)
(* field was rendered for; columns and plain fields have no target.        *)
(***************************************************************************)
Field(model, name, to, side, rel, of) ==
    [model |-> model, name |-> name, to |-> to, side |-> side, rel |-> rel, of |-> of]

NameOf(l) == IF Named(l) THEN <<l.owner, l.stem>> ELSE <<>>

ColumnName(l) == IF l.ending = "" THEN <<l.stem>> ELSE <<l.stem, l.ending>>

OwnerFields(l) ==
    LET object == IF (Several(l) \/ l.owner = l.to) /\ l.owner \in Names THEN l.stem ELSE l.to
        rel == IF l.owner \in Names THEN NameOf(l) ELSE <<>> IN
    {Field(l.owner, ColumnName(l), None, "column", <<>>, <<"link", l>>),
     Field(l.owner, <<object>>, l.to, "owner", rel, <<"link", l>>)}

BackName(l) ==
    IF l.owner = l.to THEN <<l.stem, l.to, "s">>
    ELSE IF Several(l) THEN <<l.stem, l.owner, "s">> ELSE Arrays[l.owner]

BackField(l) == Field(l.to, BackName(l), l.owner, "back", NameOf(l), <<"link", l>>)

\* collectBackRelations: a system resource counts the relations declared, not the links.
SystemBack(k) ==
    LET r == all[k][1]  rel == all[k][2] IN
    IF Cardinality(OwningTo(r, rel.to)) = 1
    THEN Field(rel.to, <<r, "s">>, r, "back", <<>>, <<"relation", k>>)
    ELSE Field(rel.to, <<Stem(rel), r, "s">>, r, "back", <<r, Stem(rel)>>, <<"relation", k>>)

\* ownOnly without a relation to the user: renderModel adds the column and the object.
Injected(r) ==
    {Field(r, <<"user", "Id">>, None, "column", <<>>, <<"owner", r>>),
     Field(r, <<"user">>, "user", "owner", <<>>, <<"owner", r>>),
     Field("user", <<"owned", r, "s">>, r, "back", <<>>, <<"owner", r>>)}

SelfJoinFields(r, rel) ==
    LET t == rel.through
        Half(name, column, back, of) ==
            {Field(t, column, None, "column", <<>>, of),
             Field(t, name, r, "owner", <<t>> \o name, of),
             Field(r, back, t, "back", <<t>> \o name, of)} IN
    Half(<<r>>, <<r, "Id">>, <<t>>, <<"self", 1>>)
    \cup Half(<<"related", r>>, <<"related", r, "Id">>, <<"related", t>>, <<"self", 2>>)

\* renderModel leaves out a declared field that is a foreign key of the model.
KeyOfModel(p) ==
    \/ \E l \in links : l.owner = p[1] /\ ColumnName(l) = p[2]
    \/ p[1] \in owned /\ p[2] = <<"user", "Id">>

Fields ==
    {Field(p[1], p[2], None, "plain", <<>>, <<"declared">>) : p \in {q \in Plain : ~KeyOfModel(q)}}
    \cup (UNION {OwnerFields(l) : l \in links})
    \cup {BackField(l) : l \in {m \in links : m.to \in Names}}
    \cup {SystemBack(k) : k \in {j \in DOMAIN all : all[j][2].to \in System}}
    \cup (UNION {Injected(r) : r \in {s \in owned : OwningTo(s, "user") = {}}})
    \cup (UNION {SelfJoinFields(all[k][1], all[k][2]) :
                 k \in {j \in DOMAIN all : SelfJoin(all[j][1], all[j][2])}})

Render ==
    /\ stage = "planned" /\ stage' = "rendered"
    /\ fields' = Fields
    /\ UNCHANGED <<declared, top, owned, all, links>>

Next == Declare \/ Parse \/ Plan \/ Render

Opposite(f, g) == f.model = g.to /\ f.to = g.model /\ f.rel = g.rel /\ f.side # g.side
-----------------------------------------------------------------------------
(***************************************************************************)
(* ?include= of one relation: resolveRelationField                         *)
(***************************************************************************)
Meant(r, to) == all[Min({k \in DOMAIN all : all[k][1] = r /\ all[k][2].to = to})][2]

IncludeField(r, to) ==
    LET rel == Meant(r, to)
        joins == {all[k][2].through : k \in {j \in DOMAIN all : all[j][1] = r /\ to = r /\ SelfJoin(r, all[j][2])}} IN
    IF joins # {} THEN <<CHOOSE t \in joins : TRUE>>
    ELSE IF rel.type \in Direct THEN IF Cardinality(OwningTo(r, to)) > 1 THEN <<Stem(rel)>> ELSE <<to>>
    ELSE IF rel.type = "oneToMany" THEN Arrays[to] ELSE Arrays[rel.through]

TypeOK ==
    /\ \A r \in Names : \A k \in DOMAIN declared[r] : <<r, declared[r][k]>> \in Declarable
    /\ top \in Seq(TopLevel) /\ owned \subseteq Names
    /\ stage \in {"declaring", "parsed", "rejected", "planned", "rendered"}
    /\ \A k \in DOMAIN all : all[k][1] \in Names
    /\ \A l \in links : l.to \in Names \cup System /\ \A f \in fields : f.model \in Names \cup System \cup Joins

\* The declarations that the plan does not tell apart.  Two relations of a resource have one
\* stem, or one is called parent beside children of the resource's own kind.
DirectAt == {k \in DOMAIN all : all[k][2].type \in Direct}
SharedKey ==
    \/ \E j, k \in DirectAt : j # k /\ all[j][1] = all[k][1] /\ Stem(all[j][2]) = Stem(all[k][2])
    \/ \E k \in DirectAt : LET r == all[k][1] IN
           HasChildren(r) /\ OwningTo(r, r) = {} /\ Stem(all[k][2]) = "parent"

\* A foreign key is named after another model.
MisledKey ==
    \/ \E k \in DirectAt : Stem(all[k][2]) \in Known \ {all[k][2].to}
    \/ \E r \in Names : HasChildren(r) /\ "parent" \in Known \ {r}

\* A column has the name of the object field that the relation gives.
BareKey ==
    \E k \in DirectAt :
        LET r == all[k][1]  rel == all[k][2] IN
        /\ Column(rel).ending = ""
        /\ rel.to \in {Stem(rel), r} \/ OwningTo(r, rel.to) # {k}

\* A join table is one of the models it joins or a system resource.
MisledJoin ==
    \E k \in DOMAIN all :
        all[k][2].type = "manyToMany" /\ all[k][2].through \in {all[k][1], all[k][2].to} \cup System

\* The models that refer to one have the same plural, or one that refers to another
\* which refers to it is its own plural.
SharedPlural ==
    \E l, m \in links :
        \/ l.owner # m.owner /\ l.to = m.to /\ Arrays[l.owner] = Arrays[m.owner]
        \/ l.owner # l.to /\ l.owner = m.to /\ l.to = m.owner /\ Arrays[l.owner] = <<l.owner>>

\* A declared field has the name of an object or array field.
TakenName ==
    \E f, g \in fields : f.model = g.model /\ f.name = g.name /\ f.side = "plain" /\ g.to # None

Odd == SharedKey \/ MisledKey \/ BareKey \/ MisledJoin \/ SharedPlural \/ TakenName

\* Includes that look for a field the schema names differently.
Unresolvable(r, to) ==
    LET rel == Meant(r, to) IN
    \/ to = r /\ ~SelfJoin(r, rel)
    \/ rel.type = "oneToMany" /\ Cardinality(OwningTo(to, r)) > 1
    \/ rel.type = "manyToMany" /\ Cardinality(OwningTo(rel.through, r)) > 1

\* A spec the parser accepts gives a schema in which no model has two fields of one name,
\* every object field has exactly one opposite, and an include of a declared relation finds
\* its field.
SchemaPaired ==
    stage = "rendered" /\ ~Odd =>
        /\ \A f, g \in fields : f.model = g.model /\ f.name = g.name => f = g
        /\ \A f \in fields : f.to # None => Cardinality({g \in fields : Opposite(f, g)}) = 1
        /\ \A k \in {j \in DOMAIN all : ~Unresolvable(all[j][1], all[j][2].to)} :
              \E f \in fields : f.model = all[k][1] /\ f.to # None
                                 /\ f.name = IncludeField(all[k][1], all[k][2].to)
=============================================================================
