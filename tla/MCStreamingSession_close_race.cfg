SPECIFICATION Spec
CONSTANTS
  ChunkSizes = {3}
  MinBuffer = 1
  MinNew = 2
  Window = 2
  LowWater = 2
  HighWater = 3
  Cap = 4
  WarnEvery = 2
  IdleTimeout = 0
  InferenceMayThrow = FALSE
  MaxFrames = 2
  MaxConfigs = 1
INVARIANT CloseSerialized
