SPECIFICATION Spec
CONSTANTS
  Threads = {t1}
  Layouts <- SmallAndLarge
  SizeOf <- Buffers
  PoolSize = 16
  BlockSize = 5
  Width = 32
  MaxAllocs = 4
CHECK_DEADLOCK FALSE
INVARIANT PoolDisjoint
