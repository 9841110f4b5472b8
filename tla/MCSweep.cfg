SPECIFICATION SweepSpec
CONSTANTS
  Graphs <- MCGraphs
  MaxTick = 5
  EpisodeLen = 2
INVARIANTS
    StepsInOrder
    SleepIsInvisible
    NothingHeldIsShort
    EpisodesAreSeparate
    PictureIsTrue
PROPERTIES
    WalkEnds
CHECK_DEADLOCK FALSE
