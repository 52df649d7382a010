SPECIFICATION FairSpec
CONSTANTS
  BatchSize = 2
  BufferSize = 1
  Adaptive = TRUE
  Callers = {}
  ConsumerSteps = TRUE
  MayDrop = FALSE
  MaxInputs = 4
  MaxCalls = 2
CHECK_DEADLOCK FALSE
PROPERTY UserReturns
