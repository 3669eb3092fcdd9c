\* Rounds shorter than the slack of the lease; every fault, twice.
SPECIFICATION FairSpec
CONSTANTS
  r1 = r1
  r2 = r2
  r3 = r3
  None = None
  Gone = Gone
  Replicas = {r1, r2, r3}
  Ttl = 6
  Refresh = 2
  MaxStall = 1
  Faults = {"crash", "stop", "error"}
  MaxFaults = 2
INVARIANTS
  TypeOK
  AtMostOneLeader
  AtMostOneScan
  ActsOnOwnLease
PROPERTIES
  Takeover
