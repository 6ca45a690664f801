\* Two samples of a prompt that just fits, or is cut after a token within a message,
\* after its closing, or after an opening; up to two calls in an
\* answer, one token for both tools; lengths at which a second answer fits, is
\* cut off or has no room.
CONSTANTS
  PromptLength = 2
  ResponseLength = 6
  MaxModelLen = 12
  Tools <- BothTools
  Calls <- CallPlaces
  PoolOf <- PoolOfCall
  NumWorkers = 1
  RateLimit = 1
  Prompts = 1
  N = 2
  MaxTurns = 2
  Formats = {"chatml", "qwen"}
  Modes = {"train"}
  PromptSizes = {2, 4}
  Texts = {1}
  MaxCalls = 2
SPECIFICATION Spec
INVARIANT TokensAreConserved
INVARIANT TrainedAsShown
INVARIANT ToolsLiveWithTheirRequest
PROPERTY BatchEnds
\* A batch has returned or failed, and the threads are idle.
CHECK_DEADLOCK FALSE
