SPECIFICATION FairSpec
CONSTANTS
  Users = {u1, u2}
  Sessions = {u1}
  MaxConfigs = 2
  Tasks <- TaskIds
  TTLs = {1}
  MaxLoads = 2
PROPERTY UnusedModelUnloads
