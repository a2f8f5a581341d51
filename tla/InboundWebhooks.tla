--------------------------- MODULE InboundWebhooks ---------------------------
(***************************************************************************)
(* POST /webhooks/inbound/:source (webhooks/inbound-routes.ts): an event   *)
(* that passes the signature check is put at the front of a bounded log    *)
(* and acknowledged; onEvent runs in a later microtask, and what it throws *)
(* is only logged.  Providers deliver an event again when they please.     *)
(***************************************************************************)
EXTENDS Integers, FiniteSets, Sequences, SequencesExt

CONSTANTS Configured,   \* the sources of buildInboundSources
          Strangers,    \* slugs that are none of them
          MaxEntries,   \* of the log
          Deliveries    \* bound on the number of deliveries

VARIABLES
    production,   \* NODE_ENV
    secrets,      \* per source: its secret is "set", "missing", or it names none
    log,          \* InboundEventLog.events: delivery numbers, latest first
    queue,        \* microtasks: the deliveries onEvent has still to see
    received,     \* deliveries so far
    accepted,     \* history: the deliveries acknowledged with 200, in order
    handled       \* history: per delivery, the calls of onEvent

inboundOwn == <<production, secrets, log, queue, received, accepted, handled>>

InboundAssumption ==
    /\ Configured \cap Strangers = {}
    /\ MaxEntries \in Nat \ {0} /\ Deliveries \in Nat

Init ==
    /\ production \in BOOLEAN
    /\ secrets \in [Configured -> {"set", "missing", "unnamed"}]
    /\ log = <<>> /\ queue = <<>> /\ received = 0 /\ accepted = <<>>
    /\ handled = [d \in 1..Deliveries |-> 0]

\* 404 for an unknown source; 401 for a bad signature, and in production for a source
\* whose secret is missing.
Accepts(source, signed) ==
    /\ source \in Configured
    /\ secrets[source] = "set" => signed
    /\ secrets[source] = "missing" => ~production

\* mutant: the log is trimmed before the event is added
LoggedLate(d) == <<d>> \o SubSeq(log, 1, IF Len(log) < MaxEntries THEN Len(log) ELSE MaxEntries)

Logged(d) == LET all == <<d>> \o log IN SubSeq(all, 1, IF Len(all) < MaxEntries THEN Len(all) ELSE MaxEntries)

Receive ==
    /\ received < Deliveries
    /\ received' = received + 1
    /\ \E source \in Configured \cup Strangers, signed \in BOOLEAN :
           IF Accepts(source, signed)
           THEN /\ log' = Logged(received')
                /\ queue' = Append(queue, received')
                /\ accepted' = Append(accepted, received')
           ELSE UNCHANGED <<log, queue, accepted>>
    /\ UNCHANGED <<production, secrets, handled>>

\* onEvent is called; whether it throws changes nothing here.
HandleFirst ==
    /\ queue # <<>>
    /\ handled' = [handled EXCEPT ![Head(queue)] = @ + 1]
    /\ queue' = Tail(queue)
    /\ UNCHANGED <<production, secrets, log, received, accepted>>

Next == Receive \/ HandleFirst
-----------------------------------------------------------------------------
TypeOK ==
    /\ production \in BOOLEAN /\ secrets \in [Configured -> {"set", "missing", "unnamed"}]
    /\ received \in 0..Deliveries
    /\ {log, queue, accepted} \subseteq Seq(1..Deliveries)
    /\ handled \in [1..Deliveries -> Nat]

\* The log shows the last MaxEntries accepted deliveries, latest first, and every
\* acknowledged delivery is handed to onEvent exactly once, also when it has already
\* dropped out of the log.
InboundFaithful ==
    /\ Reverse(log) = SubSeq(accepted, Len(accepted) - Len(log) + 1, Len(accepted))
    /\ Len(log) = IF Len(accepted) < MaxEntries THEN Len(accepted) ELSE MaxEntries
    /\ \A d \in 1..Deliveries :
           handled[d] = IF d \in ToSet(accepted) /\ d \notin ToSet(queue) THEN 1 ELSE 0
=============================================================================
