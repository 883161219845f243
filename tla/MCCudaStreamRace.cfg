SPECIFICATION Spec
CONSTANTS
  Threads = {t1, t2}
  Recorders = {}
  Bufs = {b1}
  Values = {v1, v2}
  Lens = {64}
  Stagings = {s1}
  MaxQueue = 2
  MaxRecord = 1
  NoThread = NoThread
  NoStaging = NoStaging
INVARIANT CopiesCarryTheirBytes
CHECK_DEADLOCK FALSE
