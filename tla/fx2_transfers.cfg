SPECIFICATION MCSpec
CONSTANTS
  Channels = 2
  Packet = 4
  Depth = 7
  AtMod = 3
  Ep6Max = 1
  RdTicks = 5
  TxChannels = 2
  TxPacket = 4
  TxDepth = 7
  SpaceLevel = 4
  WordMod = 8
  NoTxWord = NoTxWord
  Ep2Max = 1
  WrTicks = 5
INVARIANTS NoOverrunLostRxOnly NoUnderrunLostTxOnly
PROPERTIES ContinuousUnlessFlagged PacketWords NoFalseOverrun TakenAsSent PacketsFlow
