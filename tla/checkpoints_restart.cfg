SPECIFICATION FairSpec
CONSTANTS
  Roles <- ActorAndCritic
  WorldSize = 3
  Contents <- AdapterAndShards
  MaxCkptToKeep = 2
  AdapterMayFail = FALSE
  TotalSteps = 5
  SaveFreq = 2
  ResumeModes <- AutoOnly
  MaxLaunches = 4
  LastStep = 9
  CrashPoints <- Anywhere
  NoFile = NoFile
CHECK_DEADLOCK FALSE
INVARIANT TrackedIsWhole
INVARIANT KeptPathsIntact
INVARIANT PartsInStep
PROPERTY ImplementsDurableTraining
PROPERTY TrainingCompletes
