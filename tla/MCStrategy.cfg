SPECIFICATION Spec
CONSTANTS
  Mids = {8, 10, 12}
  AtrLevels = {1, 2}
  Situations <- MCSituations
  TrailDen = 5
  Severe = FALSE
  SlX = 2
  TpX = 1
  Grace = 1
  MaxTs = 2
INVARIANTS
    TradesOnEvidence
    EpisodeIsTheLatchs
PROPERTIES
    TrailTightens
CHECK_DEADLOCK FALSE
