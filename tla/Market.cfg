SPECIFICATION FairSpec
CONSTANTS
    Varieties <- TwoVarieties
    Workers = {w1}
    MaxDay = 3
    SlaDays = 1
    MinDates = 2
    FetchLimit = 2
    MaxFaults = 2
INVARIANTS PublishedIsCurated CleanRunPublishesAll
PROPERTIES CuratedStays WorkersSeeTheMarket
