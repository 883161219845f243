SPECIFICATION Spec
CONSTANTS
  Threads = {t1}
  Capturers = {t1}
  Ptrs = {p1, p2}
  Lens = {512}
  PoolCap = 512
  NoThread = NoThread
  NoPtr = NoPtr
  MaxLog2 = 30
INVARIANT ReplayFindsMemoryMapped
CHECK_DEADLOCK FALSE
