SPECIFICATION ScanSpec
CONSTANTS
  Period = 6
  Marks = 2
  SeqMod = 8
  MaxBuf = 9
  StartAt = {0}
  LossLen = {1}
  MaxLosses = 1
INVARIANT LabelIsHeader
