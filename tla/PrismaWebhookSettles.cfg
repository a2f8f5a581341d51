CONSTANTS
    w1 = w1
    w2 = w2
    ep1 = ep1
    ep2 = ep2
    m1 = m1
    Free = Free
    Orphan = Orphan
    NumEvents = 2
    Endpoints = {ep1, ep2}
    Emissions = {m1}
    EndpointOf <- FanOutEndpointOf
    EmissionOf <- FanOutEmissionOf
    Workers = {w1, w2}
    BatchSize = 1
    MaxAttempts = 2
    MaxFaults = 1
    OutlivedIn = {"posting"}
SPECIFICATION FairSpec
INVARIANTS LocksHaveLiveClaims DeliveredWasAccepted
PROPERTIES EventuallyQuiet
CHECK_DEADLOCK FALSE
