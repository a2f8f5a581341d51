------------------------ MODULE MCMemoryWebhookStore ------------------------
EXTENDS MemoryWebhookStore

CONSTANTS tick, manual, ep1, ep2, m1, m2

\* m1 goes to both endpoints, m2 to the first.
TwoEndpointOf == [e \in 1..3 |-> IF e = 2 THEN ep2 ELSE ep1]
TwoEmissionOf == [e \in 1..3 |-> IF e = 3 THEN m2 ELSE m1]
=============================================================================
