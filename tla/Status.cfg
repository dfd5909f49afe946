SPECIFICATION FairSpec
CONSTANTS
    Reports = {sent, delivered}
    Replicas = {r1, r2}
    MaxDay = 2
    MaxDeliveries = 2
    MaxFaults = 1
INVARIANTS AckedIsLogged OneCopyPerDelivery
PROPERTIES SettledStays EventuallyLogged
CHECK_DEADLOCK FALSE
