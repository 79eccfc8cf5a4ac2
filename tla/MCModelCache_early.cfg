SPECIFICATION Spec
CONSTANTS
  Users = {u1, u2}
  Sessions = {}
  MaxConfigs = 1
  Tasks <- TaskIds
  TTLs = {2}
  MaxLoads = 2
PROPERTY KeptForTtl
