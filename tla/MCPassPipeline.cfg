SPECIFICATION Spec
CONSTANTS
  MaxRounds = 4
  UnrollFactor = 3
  MaxVecRun = 4
  VecScanWindow = 8
  Sources <- PlainSources
CHECK_DEADLOCK FALSE
INVARIANT TypeOK
PROPERTIES ReuseKeepsMeaning MotionKeepsMeaning UnrollKeepsMeaning VectorizeKeepsMeaning
