SPECIFICATION Spec
CONSTANTS
  Thread = {t1, t2}
  NoOne = NoOne
  MaxSets = 2
  MaxDescs = 3
  Widths = {1, 2}
  MaxItems = 3
  MaxFailures = 2
INVARIANTS
  TypeOK
  PoolsSerialized
  LockFollowsTheCall
  LockNotReentered
  PoolDrained
  ErrorsLoseAtMost
PROPERTIES
  TeardownWaits
