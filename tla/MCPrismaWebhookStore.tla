------------------------ MODULE MCPrismaWebhookStore ------------------------
EXTENDS PrismaWebhookStore, TLC

CONSTANTS w1, w2, ep1, ep2, m1

\* One emission to two subscribers.
FanOutEndpointOf == [e \in 1..2 |-> IF e = 1 THEN ep1 ELSE ep2]
FanOutEmissionOf == [e \in 1..2 |-> m1]

Symmetry == Permutations(Workers)
=============================================================================
