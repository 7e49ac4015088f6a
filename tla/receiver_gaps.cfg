SPECIFICATION ReceiverSpec
CONSTANTS
  NumSubcarriers = 1
  NumFreqs = 7
  NumSteps = 3
  MaxFiller = 3
  MaxRound = 3
INVARIANT GapsPassedOver
CHECK_DEADLOCK FALSE
