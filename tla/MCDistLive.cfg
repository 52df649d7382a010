SPECIFICATION AllFair
CONSTANTS
  Callers = {c1, c2, c3}
  Shrinkers = {m1}
  Conns = {k1, k2}
  NoConn = NoConn
  MinConnections = 0
  MaxConnections = 1
  MaxAttempts = 2
  ValidateOnAcquire = TRUE
  ValidateOnRelease = FALSE
  AllowCancel = FALSE
  MaxCalls = 3
  Clients = {w1, w2}
  NumWorkers = 2
  QueueRoom = 1
  Tries = 2
  Balancing = {"Random"}
  CounterSpan = 4
  StepMayFail = TRUE
  MaxPredicts = 2
  MaxUpdates = 1
  Threads = {w1, w2, w3}
  Lens = {1, 2}
  MaxSyncs = 2
  WorldSize = 3
  Sizes = {1, 2}
  Odds = {0, 2}
  MaxSteps = 2
  BufferSize = 1
  Delay = 1
  MaxDelay = 3
  FillSizes = {2}
  SignalCap = 1
  MaxSent = 3
  MaxFaults = 1
  MaxGrowth = 4
CHECK_DEADLOCK FALSE
INVARIANTS
  StatsExact
  LiveWithinMax
  ExchangeInv
  SocketInv
PROPERTIES
  LeaseContract
  WaitersServed
  ReduceContract
  StoreContract
  AllReturn
