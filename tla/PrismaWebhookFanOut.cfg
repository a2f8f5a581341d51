CONSTANTS
    w1 = w1
    w2 = w2
    ep1 = ep1
    ep2 = ep2
    m1 = m1
    Free = Free
    Orphan = Orphan
    NumEvents = 2
    Endpoints = {ep1, ep2}
    Emissions = {m1}
    EndpointOf <- FanOutEndpointOf
    EmissionOf <- FanOutEmissionOf
    Workers = {w1}
    BatchSize = 2
    MaxAttempts = 1
    MaxFaults = 0
    OutlivedIn = {}
SPECIFICATION Spec
INVARIANTS FanOutComplete
CHECK_DEADLOCK FALSE
