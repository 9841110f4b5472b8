SPECIFICATION FairSpec
CONSTANTS
  Level <- MCLevel
  Qty = {0, 1, 2}
  Archives <- MCArchives
  Depth = 1
  Lead = 1
  Tapes <- MCTapes
  DayLength = 10
  Days = 3
  MaxRuns = 2
INVARIANTS
    SentinelMeansWhole
    NothingTwice
PROPERTIES
    FoldsToTheEnd
CHECK_DEADLOCK FALSE
