\* Two ranks, up to six rows of one to three tokens, micro-batches of one row
\* or of at most four tokens.
CONSTANTS
  WorldSize = 2
  MaxRows = 6
  MaxLen = 3
  MicroBatchSize = 1
  MiniBatchSize = 2
  PpoEpochs = 2
  MaxTokenLen = 4
SPECIFICATION FairSpec
INVARIANT PartitionsAreExact
INVARIANT AnswersAligned
INVARIANT UpdatesWeighRowsAlike
PROPERTY SpreadNeverGrows
PROPERTY CallsReturn
\* The call ends.
CHECK_DEADLOCK FALSE
