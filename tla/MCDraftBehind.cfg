SPECIFICATION Spec
CONSTANTS
  Tokens = {a, b}
  NumDraft = 2
  Lengths = {4}
  MaxCalls = 1
  MaxErrors = 0
CHECK_DEADLOCK FALSE
INVARIANT DraftAtPrefix
