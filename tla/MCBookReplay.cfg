SPECIFICATION ReplaySpec
CONSTANTS
    bid = bid
    ask = ask
    Level <- MCLevel
    Qty = {0, 1, 2}
    Seeds <- MCSeeds
    Carried <- MCCarried
    Writes <- MCWrites
    MaxSeq = 4
    MaxPeriod = 1
    MaxRun = 2
INVARIANTS
    WrongOnlyWhereUnread
    StandsOnTheLastRow
PROPERTIES
    AnswersOnTheTick
