\* Up to two turns of every rollout and validation, three steps of each launch,
\* two launches.
CONSTANTS
  MaxTurns = 2
  MaxSteps = 3
  MaxLaunches = 2
SPECIFICATION Spec
INVARIANT GeneratesWithActorWeights
INVARIANT StreamsContinue
INVARIANT SamplingAsAsked
INVARIANT GpuIsShared
\* The last launch has been killed, or has taken its steps.
CHECK_DEADLOCK FALSE
