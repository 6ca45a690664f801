SPECIFICATION Spec
CONSTANTS
  Trajectories = 2
  MaxLength = 2
  MaxCalls = 3
  SizeDivisor = 6
  WorldSize = 2
  WindowSize = 2
  InitVal = 1
  SrLo = 60
  SrHi = 60
  MaxSteps = 2
CHECK_DEADLOCK FALSE
INVARIANT NothingLost
INVARIANT ReturnsAreOfTheTurn
INVARIANT PenaltiesPaidOnce
PROPERTY WindowsSeeEpisodes
