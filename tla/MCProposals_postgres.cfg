\* Two sessions on Postgres: rows are locked, the matrix is not.
SPECIFICATION FairSpec
CONSTANTS
  s1 = s1
  s2 = s2
  i1 = i1
  i2 = i2
  i3 = i3
  p1 = p1
  p2 = p2
  k1 = k1
  k2 = k2
  None = None
  Sessions = {s1, s2}
  Ids = {i1, i2}
  Pairs = {p1}
  Keys = {k1, k2}
  Runs <- MCRuns
  Requests <- LockRequests
  Ops = {"propose", "decide"}
  ProposeChannels = {"worker"}
  DecideChannels = {"api"}
  Faults = {"crash", "apply", "post"}
  SerialWriters = FALSE
  MaxVersion = 2
\* The system rests when every request is answered and nothing is left to decide.
CHECK_DEADLOCK FALSE
INVARIANTS
  IdemUnique
  ApplyAtomic
  AuditExplainsStatus
PROPERTIES
  SessionsEnd
