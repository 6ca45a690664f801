\* A batch of two requests without tools, in training or validation.
CONSTANTS
  PromptLength = 2
  ResponseLength = 4
  MaxModelLen = 6
  Tools = {}
  Calls <- CallPlaces
  PoolOf <- PoolOfCall
  NumWorkers = 1
  RateLimit = 1
  Prompts = 2
  N = 2
  MaxTurns = 1
  Formats = {"chatml"}
  Modes = {"train", "validate", "greedy"}
  PromptSizes = {1, 2}
  Texts = {1}
  MaxCalls = 1
SPECIFICATION Spec
INVARIANT ParametersFallBack
CHECK_DEADLOCK FALSE
