SPECIFICATION BookSpec
CONSTANTS
    bid = bid
    ask = ask
    Level <- MCLevel
    Qty = {0, 1, 2}
    Seeds <- MCSeeds
    Writes <- MCWrites
    MaxSeq = 5
    MaxPeriod = 3
    MaxRun = 2
INVARIANTS
    ReadableAsOf
PROPERTIES
    WakesAsFarAsTheNetReaches
