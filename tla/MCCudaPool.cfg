SPECIFICATION Spec
CONSTANTS
  Threads = {t1, t2}
  Capturers = {t1}
  Ptrs = {p1, p2, p3}
  Lens = {300, 512, 600}
  PoolCap = 1024
  NoThread = NoThread
  NoPtr = NoPtr
  MaxLog2 = 30
SYMMETRY PtrSymmetry
INVARIANT TypeOK
INVARIANT SingleOwner
INVARIANT BucketSized
INVARIANT NoLostMemory
INVARIANT PooledBytesExact
PROPERTY CapturePinsMemory
PROPERTY ImplementsHeap
CHECK_DEADLOCK FALSE
