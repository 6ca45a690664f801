SPECIFICATION Spec
CONSTANTS
  BatchSize = 1
  ThinkingModes = {"selective_gate"}
  HistoryLength = 2
  MaxSteps = 4
  EnvLimit = 4
  ResponseChoices <- ResponsesByMode
  GateChoices <- GateTrueFalse
  MemoChoices <- MemosByMode
  Rollouts = 1
CHECK_DEADLOCK FALSE
INVARIANT FreshMemoGuides
