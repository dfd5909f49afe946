SPECIFICATION FairSpec
CONSTANTS
    Pmids = {p1}
    Replicas = {r1, r2}
    NoId = NoId
    MaxDeliveries = 4
    MaxFaults = 2
    MaxCrashes = 1
INVARIANTS AckedIsDurable WriteOrder DuplicatesAccounted
PROPERTIES EventuallyAcked
CHECK_DEADLOCK FALSE
