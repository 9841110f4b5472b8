SPECIFICATION Spec
CONSTANTS
  Prices = {1, 3}
  Gaps = {1, 3}
  Period = 2
  ReadSets <- MCReadSets
  BaseLen = 2
  SmoothLen = 2
  MaxTrades = 6
  MaxTicks = 5
  MaxBatch = 2
INVARIANTS
    RunsMatchTheTape
    WindowsAreExact
    ReadsAsIfAlone
    NoReadAhead
CHECK_DEADLOCK FALSE
