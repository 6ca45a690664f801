\* Two rollouts of two games over three turns, in both modes.
SPECIFICATION FairSpec
CONSTANTS
  BatchSize = 2
  ThinkingModes = {"dt_action", "selective_gate"}
  HistoryLength = 1
  MaxSteps = 3
  EnvLimit = 3
  ResponseChoices <- ResponsesByMode
  GateChoices <- GateTrueFalse
  MemoChoices <- MemosByMode
  Rollouts = 2
CHECK_DEADLOCK FALSE
INVARIANT FullInv
INVARIANT CallsAreSpaced
INVARIANT CountersMatchRows
INVARIANT CallRowsAreNeutral
INVARIANT SteeredByOwnCalls
INVARIANT PromptsTellTheTruth
INVARIANT VerdictMatchesReward
PROPERTY FinishedIsFrozen
PROPERTY ImplementsProtocol
PROPERTY RolloutEnds
