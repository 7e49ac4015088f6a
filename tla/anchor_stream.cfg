SPECIFICATION Spec
CONSTANTS
  NumFreqSteps = 3
  RecordTicks = 17
  FirstReset = 4
  NextReset = 2
  WaitTicks = 1
  PulseHead = 1
  PulseTail = 2
  NextEnd = 3
  Decim = 4
  MarkMax = 1
  SeqMod = 4
  SamplesPerFreq = 6
  SkipSamples = 3
  FftSize = 2
INVARIANT SliceRecorded
PROPERTIES SequenceTicks Framed
