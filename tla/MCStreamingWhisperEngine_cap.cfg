SPECIFICATION Spec
CONSTANTS
  Totals <- Lengths
  Pad = 0
  Gap = 1
  MaxSegments = 1
  VadModes = {FALSE}
  Concurrent = TRUE
  Chunks = {1, 3}
  HighWater = 4
  MaxBuffer = 5
  Window = 2
  Overlap = 1
  MaxTexts = 2
  Overshoot = 0
PROPERTY AddedAudioPreserved
