SPECIFICATION FairSpec
CONSTANTS
    Msgs = {1, 2}
    Jobs = {j1}
    NoMsg = NoMsg
    MaxRetries = 3
    ScanLimit = 1
    MaxFaults = 2
    MaxCrashes = 1
INVARIANTS NoLoss WorkBudget DeadLetterKeepsOriginal
PROPERTIES DeadLetterIsFinal EventuallyAtRest ImplementsLifecycle
CHECK_DEADLOCK FALSE
