SPECIFICATION Spec
CONSTANTS
  NAnchors = 3
  RestartGap = 1
  HistCap = 1
  MaxChunk = 2
  MaxOut = 2
  LastSeq = 2
  Laps = 2
  Lossy = {0, 1}
  NoSnap = NoSnap
INVARIANTS FollowersAgree HistoryBounded AlignedTillTrouble
PROPERTIES PublishInOrder QuietWhileWaiting
