SPECIFICATION FairLiveSpec
CONSTANTS
    N = 3
    MaxKey = 5
    Clock = 5
    Deltas = 2
    Anchors = 3
    Batches <- MCBatches
    Quota <- MCQuota
    Readings = {0, 2}
    MaxSinks = 2
    MaxPushes = 4
INVARIANTS
    GivesTheLog
PROPERTIES
    IsWeaver
    Ends
