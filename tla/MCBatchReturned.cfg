SPECIFICATION Spec
CONSTANTS
  MaxBatch = 2
  MinBatch = 1
  MaxSeqLen = 1
  EnablePriority = TRUE
  Priorities = {1}
  PlainSubmit = FALSE
  MaxRequests = 2
  MaxModels = 1
  MaxFailures = 1
INVARIANT CompletedReturned
