CONSTANTS
    w1 = w1
    w2 = w2
    ep1 = ep1
    ep2 = ep2
    m1 = m1
    Free = Free
    Orphan = Orphan
    NumEvents = 2
    Endpoints = {ep1, ep2}
    Emissions = {m1}
    EndpointOf <- FanOutEndpointOf
    EmissionOf <- FanOutEmissionOf
    Workers = {w1, w2}
    BatchSize = 2
    MaxAttempts = 2
    MaxFaults = 0
    OutlivedIn = {}
SPECIFICATION Spec
INVARIANTS AcceptedAtMostOnce
CHECK_DEADLOCK FALSE
