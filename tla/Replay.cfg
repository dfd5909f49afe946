SPECIFICATION ReplayFairSpec
CONSTANTS
    Msgs = {1}
    Jobs = {j1}
    NoMsg = NoMsg
    MaxRetries = 3
    ScanLimit = 1
    MaxFaults = 2
    MaxCrashes = 1
    MaxReplays = 2
INVARIANTS ReplayBudget DeadLetterKeepsOriginal
PROPERTIES InboxDrains
CHECK_DEADLOCK FALSE
