SPECIFICATION AllSpec
CONSTANTS
  Callers = {c1, c2}
  Shrinkers = {m1}
  Conns = {k1, k2, k3}
  NoConn = NoConn
  MinConnections = 1
  MaxConnections = 2
  MaxAttempts = 2
  ValidateOnAcquire = TRUE
  ValidateOnRelease = TRUE
  AllowCancel = TRUE
  MaxCalls = 3
  Clients = {u1, u2}
  NumWorkers = 2
  QueueRoom = 1
  Tries = 2
  Balancing = {"RoundRobin", "LeastLoaded", "Random"}
  CounterSpan = 4
  StepMayFail = TRUE
  MaxPredicts = 2
  MaxUpdates = 1
  Capacity = 3
  Readers = {r1}
  RingItems = 7
  QueueThreads = {t1, t2, t3}
  CounterWidth = 8
  QueueItems = 5
  SignalCapacity = 2
  BatchLen = 2
  Producers = {p1, p2}
  Consumers = {r1}
  Blocks = {1, 3}
  MaxSamples = 5
  MaxPadded = 1
  Threads = {t1, t2}
  PoolSize = 16
  BlockSize = 5
  Width = 32
  MaxAllocs = 3
  Tokens = {a, b}
  NumDraft = 2
  Lengths = {2}
  MaxGenerates = 2
  MaxStepErrors = 1
  Names = {best, other}
  Best = best
  NoFile = NoFile
  Torn = Torn
  NoBest = NoBest
  Losses = {1, 2}
  BatchCounts = {2}
  Epochs = 2
  Patience = 0
  MaxTrained = 3
  MaxFits = 2
  MaxSaves = 2
  MaxFaults = 1
  Inputs = {x, y, z}
  MuxStrategies = {"RoundRobin", "TimeOrdered", "Sequential", "Weighted"}
  BufferSize = 2
  Stamps = {1, 2}
  MaxPushes = 4
  MaxReads = 3
  Atoms = {a, b}
  MaxTraceLength = 3
  Depth = 2
  MaxResets = 1
  Releases = {1, 2}
  NoRelease = 0
  Fallbacks = {"NextVersion", "PreviousStable", "SpecificVersion", "NoFallback"}
  Named = 2
  MaxErrors = 1
  MaxSlow = 5
  MaxRecorded = 3
  MaxChecks = 2
CHECK_DEADLOCK FALSE
INVARIANTS
  TypeOK
  Ownership
  PermitsConserved
  SlotsInv
  DeadNotRetried
  ServedUnderSet
  CountSettles
  LossesCounted
  AllocInv
  DecoderInv
  CheckpointInv
  LTLInv
  VersionsInv
PROPERTIES
  QueueContract
  MuxContract
