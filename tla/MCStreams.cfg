SPECIFICATION AllFair
CONSTANTS
  Topics = 1
  ChannelCap = 2
  BatchLimit = 2
  ReadLen = 2
  MaxSessions = 2
  MaxEvents = 2
  BatchSize = 2
  BufferSize = 1
  Adaptive = TRUE
  Clients = {u1}
  MayDrop = TRUE
  MaxInputs = 3
  MaxCalls = 1
  Callers = {c1, c2}
  RequestIds = {a, b}
  AdapterCap = 1
  MaxRequests = 2
  MaxFaults = 1
  Kinds = {"buffer", "debounce", "throttle"}
  ChunkSize = 2
  Period = 2
  MaxLate = 3
CHECK_DEADLOCK FALSE
INVARIANTS
  StreamInv
  AdapterInv
  ClientInv
PROPERTIES
  UserReturns
  AllDelivered
  CallsEnd
  TasksSettle
