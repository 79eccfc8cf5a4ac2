SPECIFICATION Spec
CONSTANTS
  ChunkSizes = {3}
  MinBuffer = 1
  MinNew = 2
  Window = 2
  LowWater = 2
  HighWater = 3
  Cap = 4
  WarnEvery = 2
  IdleTimeout = 0
  InferenceMayThrow = TRUE
  MaxFrames = 3
  MaxConfigs = 2
INVARIANT EngineBacked
INVARIANT RefsReturned
INVARIANT TranscriptInOrder
INVARIANT BusyInSync
PROPERTY FinalIsLast
PROPERTY CommittedTextStands
