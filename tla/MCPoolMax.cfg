SPECIFICATION Spec
CONSTANTS
  Callers = {c1, c2}
  Shrinkers = {m1}
  Conns = {k1, k2, k3}
  NoConn = NoConn
  MinConnections = 1
  MaxConnections = 1
  MaxAttempts = 2
  ValidateOnAcquire = TRUE
  ValidateOnRelease = FALSE
  AllowCancel = FALSE
  MaxCalls = 3
SYMMETRY Symmetry
INVARIANTS
  LiveWithinMax
