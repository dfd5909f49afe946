SPECIFICATION CleanupFairSpec
CONSTANTS
    Msgs = {1}
    Jobs = {j1}
    NoMsg = NoMsg
    MaxRetries = 3
    ScanLimit = 1
    MaxFaults = 2
    MaxCrashes = 1
    Media = {b1}
PROPERTIES EnvelopesGo MediaGoes
CHECK_DEADLOCK FALSE
