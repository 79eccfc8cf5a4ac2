SPECIFICATION FairSpec
CONSTANTS
  Requests = {r1, r2}
  MaxSlots = 1
  Tasks = {k1, k2, k3}
  TTLs = {2}
  MaxLoads = 2
INVARIANT InferenceBacked
INVARIANT NothingKept
INVARIANT AnsweredOnce
PROPERTY RequestEnds
