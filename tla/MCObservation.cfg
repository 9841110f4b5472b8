SPECIFICATION ObserveSpec
CONSTANTS
  Readings <- MCReadings
  Literals <- MCLiterals
  MaxOps = 2
  Observed <- MCObserved
  Levels <- MCLevels
  Batches <- MCBatches
  Watches <- MCWatches
  MaxTicks = 3
INVARIANTS
    AbsenceIsTyped
    PlanesAgree
    SimplifyKeeps
    ObservedAsBare
PROPERTIES
    ToldWhereItMoved
    DerivativesAreOneStep
CHECK_DEADLOCK FALSE
