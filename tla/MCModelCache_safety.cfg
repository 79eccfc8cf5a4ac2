SPECIFICATION FairSpec
CONSTANTS
  Users = {u1, u2}
  Sessions = {u1}
  MaxConfigs = 2
  Tasks <- TaskIds
  TTLs <- TtlValues
  MaxLoads = 2
INVARIANT HeldModelStaysLoaded
INVARIANT RefCountExact
INVARIANT IdleModelScheduled
INVARIANT NoTaskOutlivesCache
PROPERTY ReleaseReturns
PROPERTY IdleModelUnloads
