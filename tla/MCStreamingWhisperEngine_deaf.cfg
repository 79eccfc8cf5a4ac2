SPECIFICATION FairSpec
CONSTANTS
  Totals <- Lengths
  Pad = 1
  Gap = 1
  MaxSegments = 0
  VadModes = {TRUE}
  Concurrent = FALSE
  Chunks = {2}
  HighWater = 4
  MaxBuffer = 5
  Window = 2
  Overlap = 1
  MaxTexts = 2
  Overshoot = 0
PROPERTY FlowResumes
