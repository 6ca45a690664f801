SPECIFICATION Spec
CONSTANTS
  GroupSize = 2
  MaxSteps = 2
  EnvLimit = 2
  Tasks <- TwoTasks
  TrainBatchSize = 2
  ValBatchSize = 3
  FilterGroups = TRUE
  MaxNumGenBatches = 2
  MaxCalls = 1
CHECK_DEADLOCK FALSE
INVARIANT ListsAligned
INVARIANT GroupsComplete
INVARIANT SamplingEndsWell
