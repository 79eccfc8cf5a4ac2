SPECIFICATION Spec
CONSTANTS
  Totals <- Lengths
  Pad = 1
  Gap = 1
  MaxSegments = 2
  VadModes = {TRUE, FALSE}
  Concurrent = TRUE
  Chunks = {1, 3}
  HighWater = 4
  MaxBuffer = 6
  Window = 3
  Overlap = 1
  MaxTexts = 3
  Overshoot = 1
INVARIANT MapSeparates
INVARIANT SpeechKept
PROPERTY PassSplits
PROPERTY NewAudioKept
