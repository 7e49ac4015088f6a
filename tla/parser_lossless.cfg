SPECIFICATION FairSpec
CONSTANTS
  NAnchors = 3
  RestartGap = 1
  HistCap = 2
  MaxChunk = 1
  MaxOut = 2
  LastSeq = 3
  Laps = 2
  Lossy = {}
  NoSnap = NoSnap
INVARIANT NeverSpins
PROPERTIES NoSweepSkipped CallReturns WaitEnds
