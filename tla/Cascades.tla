------------------------------ MODULE Cascades -------------------------------
(***************************************************************************)
(* deleteSystemResource("User", id) (runtime/index.ts) and the cascade it  *)
(* runs first (relations/index.ts): in memory in one turn of the event     *)
(* loop, over a database in one transaction whose statements interleave    *)
(* with the requests of others.  The child rows are those of one resource  *)
(* with several relations to User, taken in the order of the spec.         *)
(*                                                                         *)
(* Resources in memory may have their users in a database: then the user   *)
(* is deleted in a call of its own, whose failure the user store swallows. *)
(*                                                                         *)
(* The database is external: a statement sees what is committed and what   *)
(* its own transaction wrote, a written row is locked until the end, and   *)
(* the deletion of the user applies the foreign keys' own actions.         *)
(***************************************************************************)
EXTENDS Integers, Sequences

CONSTANTS Rows,
          Links,     \* the relations, a sequence
          Gone       \* a row that does not exist

VARIABLES
    store,      \* of the resources: "memory" or "database"
    userStore,  \* of the users: "memory" or "database"
    onDelete,   \* per relation: a policy of Policies
    refs,       \* per row: the relations by which it refers to the user, or Gone
    given,      \* history: refs at first
    touched,    \* history: the rows other requests created, edited or deleted
    staged,     \* what the transaction wrote: a function from rows to their new refs
    user,       \* "there", "deleting" (by the transaction) or "gone"
    step,       \* of deleteSystemResource
    link        \* the relation the cascade is at

cascadeOwn == <<store, userStore, onDelete, refs, given, touched, staged, user, step, link>>

\* No policy: the database takes SetNull for an optional relation, Restrict for a required one.
Policies == {"Restrict", "Cascade", "SetNull", "unset", "unset-required"}
Relations == {Links[i] : i \in DOMAIN Links}
Contents == (SUBSET Relations) \cup {Gone}

CascadesAssumption == Links \in Seq(Relations) /\ Links # <<>> /\ Gone \notin Relations

Init ==
    /\ store \in {"memory", "database"} /\ userStore \in {"memory", "database"}
    /\ store = "database" => userStore = "database"
    /\ onDelete \in [Relations -> Policies]
    /\ refs \in [Rows -> Contents] /\ given = refs
    /\ touched = {} /\ staged = <<>>
    /\ user = "there" /\ step = "idle" /\ link = 1

View(row) == IF row \in DOMAIN staged THEN staged[row] ELSE refs[row]
Points(row, l) == View(row) # Gone /\ l \in View(row)
Children(l) == {row \in Rows : Points(row, l)}
Under(policy) == {l \in Relations : onDelete[l] = policy}

(***************************************************************************)
(* Memory: cascadeSystemResourceDelete, then users.delete: in the same     *)
(* turn if the users are in memory too, and otherwise at the database.     *)
(***************************************************************************)
RefusedNever == FALSE  \* mutant: no first pass for Restrict

Refused == \E l \in Under("Restrict") : Children(l) # {}

\* Relation after relation; a deleted row is not there for the next one.
Cascaded(row) ==
    IF refs[row] = Gone \/ refs[row] \cap Under("Cascade") # {} THEN Gone
    ELSE refs[row] \ Under("SetNull")

DeleteInMemory ==
    /\ store = "memory" /\ step = "idle"
    /\ IF Refused
       THEN step' = "refused" /\ UNCHANGED <<refs, user>>
       ELSE /\ refs' = [row \in Rows |-> Cascaded(row)]
            /\ IF userStore = "memory"
               THEN user' = "gone" /\ step' = "done"
               ELSE user' = user /\ step' = "remove"
    /\ UNCHANGED <<store, userStore, onDelete, given, touched, staged, link>>

\* PrismaUserStore.delete: whatever goes wrong, the row stays and nobody is told.
RemoveUser ==
    /\ step = "remove"
    /\ user' \in {"gone", user}
    /\ step' = "done"
    /\ UNCHANGED <<store, userStore, onDelete, refs, given, touched, staged, link>>

(***************************************************************************)
(* Database: cascadeSystemResourceDeletePrisma, statement by statement     *)
(***************************************************************************)
Rollback == staged' = <<>> /\ user' = "there" /\ step' = "refused"

BeginCascade ==
    /\ store = "database" /\ step = "idle"
    /\ step' = "restrict"
    /\ UNCHANGED <<store, userStore, onDelete, refs, given, touched, staged, user, link>>

\* First pass: a Restrict relation with rows ends it.
CountRestricted ==
    /\ step = "restrict"
    /\ IF link > Len(Links)
       THEN step' = "find" /\ link' = 1 /\ UNCHANGED <<staged, user>>
       ELSE IF onDelete[Links[link]] = "Restrict" /\ Children(Links[link]) # {}
            THEN Rollback /\ UNCHANGED link
            ELSE link' = link + 1 /\ UNCHANGED <<staged, user, step>>
    /\ UNCHANGED <<store, userStore, onDelete, refs, given, touched>>

\* Second pass: findMany, and only if it found rows the write of the policy.
FindChildren ==
    /\ step = "find"
    /\ IF link > Len(Links) THEN step' = "deleteUser" /\ UNCHANGED link
       ELSE IF Children(Links[link]) # {} /\ onDelete[Links[link]] \in {"Cascade", "SetNull"}
       THEN step' = "write" /\ UNCHANGED link
       ELSE link' = link + 1 /\ UNCHANGED step
    /\ UNCHANGED <<store, userStore, onDelete, refs, given, touched, staged, user>>

WriteChildren ==
    LET l == Links[link]
        new(row) == IF onDelete[l] = "Cascade" THEN Gone ELSE View(row) \ {l} IN
    /\ step = "write"
    /\ staged' = [row \in (DOMAIN staged) \cup Children(l) |->
                     IF row \in Children(l) THEN new(row) ELSE staged[row]]
    /\ link' = link + 1 /\ step' = "find"
    /\ UNCHANGED <<store, userStore, onDelete, refs, given, touched, user>>

Binding == Under("Restrict") \cup Under("unset-required")
Bound == {row \in Rows : View(row) # Gone /\ View(row) # {}}

\* The user's row is deleted, and the foreign keys act on the rows that still refer to it.
DeleteUser ==
    LET new(row) == IF View(row) \cap Under("Cascade") # {} THEN Gone ELSE {} IN
    /\ step = "deleteUser"
    /\ IF \E row \in Bound : View(row) \cap Binding # {}
       THEN Rollback
       ELSE /\ staged' = [row \in (DOMAIN staged) \cup Bound |->
                             IF row \in Bound THEN new(row) ELSE staged[row]]
            /\ user' = "deleting" /\ step' = "commit"
    /\ UNCHANGED <<store, userStore, onDelete, refs, given, touched, link>>

Commit ==
    /\ step = "commit"
    /\ refs' = [row \in Rows |-> View(row)]
    /\ staged' = <<>> /\ user' = "gone" /\ step' = "done"
    /\ UNCHANGED <<store, userStore, onDelete, given, touched, link>>

\* A statement fails, the transaction times out, or the process stops.
Fail ==
    /\ step \in {"restrict", "find", "write", "deleteUser", "commit"}
    /\ Rollback
    /\ UNCHANGED <<store, userStore, onDelete, refs, given, touched, link>>

(***************************************************************************)
(* Other requests write a row.  The database makes them wait for a locked  *)
(* row and for the user's, and keeps foreign keys; memory checks neither.  *)
(* Bound: others write each row once.                                      *)
(***************************************************************************)
Other(row) ==
    /\ row \notin (DOMAIN staged) \cup touched
    /\ \E new \in Contents :
           /\ new # refs[row]
           /\ store = "database" => new \in {Gone, {}} \/ user = "there"
           /\ refs' = [refs EXCEPT ![row] = new]
    /\ touched' = touched \cup {row}
    /\ UNCHANGED <<store, userStore, onDelete, given, staged, user, step, link>>

Next ==
    \/ DeleteInMemory \/ RemoveUser
    \/ BeginCascade \/ CountRestricted \/ FindChildren \/ WriteChildren
    \/ DeleteUser \/ Commit \/ Fail
    \/ \E row \in Rows : Other(row)
-----------------------------------------------------------------------------
TypeOK ==
    /\ store \in {"memory", "database"} /\ userStore \in {"memory", "database"}
    /\ onDelete \in [Relations -> Policies]
    /\ refs \in [Rows -> Contents] /\ given \in [Rows -> Contents] /\ touched \subseteq Rows
    /\ DOMAIN staged \subseteq Rows /\ \A row \in DOMAIN staged : staged[row] \in Contents
    /\ user \in {"there", "deleting", "gone"} /\ link \in 1 .. Len(Links) + 1
    /\ step \in {"idle", "remove", "restrict", "find", "write", "deleteUser", "commit", "refused",
                "done"}

\* The cascade ran in memory before, and apart from, the deletion of a user in a database.
Apart == store = "memory" /\ userStore = "database" /\ step \in {"remove", "done"}

\* A user is deleted with everything the policies of its children ask for, or not at all:
\* while it is there, rows nobody else wrote are as they were; once it is gone, no row of the
\* database refers to it, and in memory only rows written by others or by a relation without
\* a policy do.  With resources in memory and users in a database the children go first: the
\* user outlives them until its own deletion, and for good if that fails.
CascadeAllOrNothing ==
    /\ user # "gone" => Apart \/ \A row \in Rows \ touched : refs[row] = given[row]
    /\ user = "gone" /\ store = "database" => \A row \in Rows : refs[row] \in {Gone, {}}
    /\ user = "gone" \/ Apart => \A row \in Rows \ touched : refs[row] # Gone =>
           /\ refs[row] \subseteq Under("unset") \cup Under("unset-required")
           /\ given[row] # Gone /\ given[row] \cap Under("Cascade") = {}
=============================================================================
