SPECIFICATION FairSpec
CONSTANTS
  Threads = {t1, t2, t3}
  Capturers = {}
  Ptrs = {p1, p2, p3}
  Lens = {512, 600}
  PoolCap = 1536
  NoThread = NoThread
  NoPtr = NoPtr
  MaxLog2 = 30
INVARIANT ParkedWithinCap
PROPERTY CriticalSectionsEnd
CHECK_DEADLOCK FALSE
