---------------------------- MODULE WebhookOutbox ----------------------------
(***************************************************************************)
(* What the webhook queue promises of each event, without workers, claims  *)
(* or locks: it is tried at most MaxAttempts times, the receiver accepts   *)
(* it at most once, an acceptance is recorded, and the record is final.    *)
(***************************************************************************)
EXTENDS Naturals

CONSTANTS Events, MaxAttempts

VARIABLES state,  \* [Events -> "absent", "queued", "accepted", "delivered", "failed"]
          tries   \* attempts made so far

vars == <<state, tries>>

Init ==
    /\ state = [e \in Events |-> "absent"]
    /\ tries = [e \in Events |-> 0]

Move(e, from, to) == state[e] = from /\ state' = [state EXCEPT ![e] = to]

Queue(e) == Move(e, "absent", "queued") /\ UNCHANGED tries

\* The receiver answers 2xx; the row does not say so yet.
Accept(e) ==
    /\ tries[e] < MaxAttempts
    /\ Move(e, "queued", "accepted")
    /\ tries' = [tries EXCEPT ![e] = @ + 1]

Record(e) == Move(e, "accepted", "delivered") /\ UNCHANGED tries

\* The receiver refuses and attempts are left.
Refuse(e) ==
    /\ tries[e] + 1 < MaxAttempts
    /\ Move(e, "queued", "queued")
    /\ tries' = [tries EXCEPT ![e] = @ + 1]

\* The last attempt was refused, or the endpoint is gone.
GiveUp(e) ==
    /\ Move(e, "queued", "failed")
    /\ tries' = [tries EXCEPT ![e] = MaxAttempts]

Try(e) == Accept(e) \/ Record(e) \/ Refuse(e) \/ GiveUp(e)

Next == \E e \in Events : Queue(e) \/ Try(e)

Spec == Init /\ [][Next]_vars

\* An event that is queued is tried until its fate is settled.
FairSpec == Spec /\ \A e \in Events : WF_vars(Try(e))
=============================================================================
