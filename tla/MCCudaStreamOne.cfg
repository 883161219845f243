SPECIFICATION Spec
CONSTANTS
  Threads = {t1}
  Recorders = {t1}
  Bufs = {b1, b2}
  Values = {v1, v2}
  Lens = {64, 262145}
  Stagings = {s1}
  MaxQueue = 2
  MaxRecord = 1
  NoThread = NoThread
  NoStaging = NoStaging
INVARIANT TypeOK
INVARIANT CopiesCarryTheirBytes
PROPERTY ImplementsMemory
CHECK_DEADLOCK FALSE
