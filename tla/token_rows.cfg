\* Four rows on two ranks, prompts that fit, just fit and do not fit.
CONSTANTS
  BatchSize = 4
  WorldSize = 2
  PromptLengths = {1, 3, 4}
  MaxPromptLength = 3
  ResponseLength = 2
  MicroBatchSize = 3
  Settings <- MCSettings
SPECIFICATION RowsSpec
INVARIANT RowsTrainAsGenerated
\* The step has been prepared, or its preprocessing failed.
CHECK_DEADLOCK FALSE
