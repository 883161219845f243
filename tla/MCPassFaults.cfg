SPECIFICATION Spec
CONSTANTS
  MaxRounds = 4
  UnrollFactor = 3
  MaxVecRun = 4
  VecScanWindow = 8
  Sources <- FaultySources
CHECK_DEADLOCK FALSE
PROPERTY ReshapingKeepsMeaning
