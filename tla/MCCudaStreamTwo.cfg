SPECIFICATION FairSpec
CONSTANTS
  Threads = {t1, t2}
  Recorders = {}
  Bufs = {b1}
  Values = {v1}
  Lens = {64, 128}
  Stagings = {s1, s2}
  MaxQueue = 1
  MaxRecord = 1
  NoThread = NoThread
  NoStaging = NoStaging
INVARIANT OnePlaceEach
INVARIANT StagingFits
PROPERTY WaitsAndLocksEnd
CHECK_DEADLOCK FALSE
