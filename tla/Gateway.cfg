SPECIFICATION GatewayFairSpec
CONSTANTS
    Pmids = {p1, p2}
    Replicas = {r1}
    NoId = NoId
    MaxDeliveries = 3
    MaxFaults = 1
    MaxCrashes = 1
    MaxRequests = 2
    Window = 2
INVARIANTS ToldIsStored AdmissionsBounded
PROPERTIES EventuallyTold
CHECK_DEADLOCK FALSE
