SPECIFICATION MCSpec
CONSTANTS
  Bins = 8
  Anchors = 2
  ToaErrors <- Calibrations
  Reach = 2
  MaxError = 3
  Grid <- Line
  Origin = 0
  Near <- NearLine
  Neighbours <- NextTo
  Errors <- AnyErrors
  Snapshots = 5
  BufMax = 2
  estimateHistory = 3
  NoPosition = NoPosition
  MessageMax = 5
INVARIANTS FindsEndOfCluster DelayShiftsToa DifferencesOfToas LocalMinimum ShowsLatest
PROPERTIES Ends EverySnapshotShown
CHECK_DEADLOCK FALSE
