\* Errors on the way to Redis, with prompt rounds.
SPECIFICATION Spec
CONSTANTS
  r1 = r1
  r2 = r2
  r3 = r3
  None = None
  Gone = Gone
  Replicas = {r1, r2}
  Ttl = 6
  Refresh = 2
  MaxStall = 1
  Faults = {"error"}
  MaxFaults = 3
SYMMETRY Symmetry
INVARIANTS
  SoleLeader
