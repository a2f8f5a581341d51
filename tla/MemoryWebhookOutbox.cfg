CONSTANTS
    tick = tick
    manual = manual
    ep1 = ep1
    ep2 = ep2
    m1 = m1
    m2 = m2
    Free = Free
    Orphan = Orphan
    NumEvents = 3
    Endpoints = {ep1, ep2}
    Emissions = {m1, m2}
    EndpointOf <- TwoEndpointOf
    EmissionOf <- TwoEmissionOf
    Workers = {tick, manual}
    BatchSize = 2
    MaxAttempts = 2
    MaxFaults = 0
    OutlivedIn = {}
SPECIFICATION FairSpec
INVARIANTS TypeOK AcceptedAtMostOnce FanOutComplete
PROPERTIES ImplementsOutbox
CHECK_DEADLOCK FALSE
