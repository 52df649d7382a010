SPECIFICATION Spec
CONSTANTS
  Callers = {c1}
  NumWorkers = 1
  Capacity = 1
  MaxAttempts = 1
  Strategies = {"LeastLoaded"}
  CounterSpan = 4
  AllowCancel = TRUE
  StepMayFail = FALSE
  MaxCalls = 1
  MaxUpdates = 0
INVARIANT PendingDrains
