SPECIFICATION MCSpec
CONSTANTS
  Decims = {16, 257, 262, 65536, 131072}
  MaxFactor = 257
  Scripts = {"demo", "fft", "bb_comb", "hs", "rt_harmonia", "tx", "cal_tx", "mrfm_fft"}
  Values = {0, 1}
  NumSubcarriers = 1
  NumFreqs = 7
  NumSteps = 3
  MaxFiller = 3
  MaxRound = 3
  Channels = 2
  FrameDecim = 2
  VScales = 2
  TimeBases = 2
  MaxEvents = 2
CHECK_DEADLOCK FALSE
INVARIANTS AnchorKeepsItsPort SettingsAgree OnlyDemoSettersRaise RegistersOfAdjacentRounds StitchedInPlace
PROPERTIES DrawnAsLabelled
