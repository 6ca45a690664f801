\* Six layers, which save tensors or do not; two micro-batches.
CONSTANTS
  NumLayers = 6
  Passes = 2
SPECIFICATION OffloadSpec
INVARIANT AtMostTwoGroups
INVARIANT StreamsKeepOrder
\* The last micro-batch is done.
CHECK_DEADLOCK FALSE
