SPECIFICATION FairSpec
CONSTANTS
  Threads = {t1, t2, t3, t4, t5}
  Limits = {0, 1, 2, 3}
  MaxChanges = 2
INVARIANT NoLostWakeup
INVARIANT CountMatchesGuards
PROPERTY CapRespected
PROPERTY FreeSlotTaken
