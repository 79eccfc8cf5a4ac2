SPECIFICATION Spec
CONSTANTS
  Requests = {r1, r2}
  MaxSlots = 1
  Tasks = {k1, k2, k3}
  TTLs = {1}
  MaxLoads = 2
INVARIANT InvalidNotTranscribed
