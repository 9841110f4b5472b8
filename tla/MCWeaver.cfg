SPECIFICATION Spec
CONSTANTS
    N = 3
    MaxKey = 2
    Clock = 2
    Deltas = 2
    Anchors = 3
    Batches <- MCBatches
    Quota <- MCQuota
INVARIANTS
    NeverOutOfOrder
    PastStopsAtTheWeave
PROPERTIES
    IsArrivalMerge
CHECK_DEADLOCK FALSE
