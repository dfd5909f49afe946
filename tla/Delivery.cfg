SPECIFICATION FairSpec
CONSTANTS
    Prices <- SomePrices
    Numbers <- SomeNumbers
    Kept <- KeptDigits
    MaxRuns = 2
    MaxPosts = 3
    MaxLost = 3
    MaxCrashes = 1
INVARIANTS ReturnedMeansAccepted AudioFollowsText CopiesAccounted EngineGetsWhatWasRead
PROPERTIES FailureHasCause ExecutionEnds FreeFormWasInWindow
CHECK_DEADLOCK FALSE
