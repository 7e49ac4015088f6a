SPECIFICATION FairScanSpec
CONSTANTS
  Period = 6
  Marks = 2
  SeqMod = 8
  MaxBuf = 9
  StartAt = {0, 2, 3, 4, 5}
  LossLen = {2, 3, 5, 6, 8, 12, 18}
  MaxLosses = 2
INVARIANTS LabelIsHeader WholeSweep
PROPERTIES LabelsIncrease AllSweepsCut
