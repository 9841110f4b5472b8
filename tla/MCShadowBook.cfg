SPECIFICATION ShadowSpec
CONSTANTS
    bid = bid
    ask = ask
    Level <- MCLevel
    Qty = {0, 1, 2}
    Changes <- MCChanges
    MaxEmitted = 4
    MaxCadence = 1
INVARIANTS
    CheckpointsReplay
    AgreesWithTheVenue
    OneCheckpointPerPeriod
CHECK_DEADLOCK FALSE
