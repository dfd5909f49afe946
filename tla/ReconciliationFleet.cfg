SPECIFICATION FairSpec
CONSTANTS
    Msgs = {1}
    Jobs = {j1, j2}
    NoMsg = NoMsg
    MaxRetries = 3
    ScanLimit = 1
    MaxFaults = 1
    MaxCrashes = 1
INVARIANTS FleetWorkBound
PROPERTIES EventuallyAtRest FollowsLifecycle
CHECK_DEADLOCK FALSE
