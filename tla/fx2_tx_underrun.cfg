SPECIFICATION Spec
CONSTANTS
  Channels = 2
  Packet = 4
  Depth = 7
  AtMod = 3
  Ep6Max = 1
  RdTicks = 5
INVARIANT NoOverrunLost
