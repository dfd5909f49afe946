SPECIFICATION ReplaySpec
CONSTANTS
    Msgs = {1}
    Jobs = {j1}
    NoMsg = NoMsg
    MaxRetries = 3
    ScanLimit = 1
    MaxFaults = 0
    MaxCrashes = 0
    MaxReplays = 1
INVARIANT NoLoss
CHECK_DEADLOCK FALSE
