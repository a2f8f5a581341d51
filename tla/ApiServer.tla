----------------------------- MODULE ApiServer ------------------------------
(***************************************************************************)
(* The parts of the server that share no state with each other in the      *)
(* code, put side by side.  A behaviour exercises one of them, chosen at   *)
(* the start (its name is in `part`), while the others are unused: the     *)
(* states of the whole are the sum of the parts' states and not their      *)
(* product.  The parts that do interact are composed where they interact:  *)
(* within these modules, in MemoryResourceRoutes, in JwtSessions and in    *)
(* WebhookDelivery.                                                        *)
(***************************************************************************)
EXTENDS AccountParts, RecordParts, RuntimeParts

ASSUME ApiServerAssumption == AccountAssumption /\ RecordAssumption /\ RuntimeAssumption

vars == <<accountVars, recordVars, runtimeVars>>

Init ==
    /\ part \in AccountPartNames \cup RecordPartNames \cup RuntimePartNames
    /\ AccountInit /\ RecordInit /\ RuntimeInit

Next ==
    \/ part \in AccountPartNames /\ AccountNext /\ UNCHANGED <<recordVars, runtimeVars>>
    \/ part \in RecordPartNames /\ RecordNext /\ UNCHANGED <<accountVars, runtimeVars>>
    \/ part \in RuntimePartNames /\ RuntimeNext /\ UNCHANGED <<accountVars, recordVars>>

Spec == Init /\ [][Next]_vars
-----------------------------------------------------------------------------
TypeOK ==
    /\ part \in AccountPartNames \cup RecordPartNames \cup RuntimePartNames
    /\ AccountTypeOK /\ RecordTypeOK /\ RuntimeTypeOK
=============================================================================
