SPECIFICATION Spec
CONSTANTS
  NAnchors = 2
  RestartGap = 9
  HistCap = 2
  MaxChunk = 1
  MaxOut = 1
  LastSeq = 3
  Laps = 1
  Lossy = {0, 1}
  NoSnap = NoSnap
INVARIANT Aligned
