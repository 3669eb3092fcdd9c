\* Every operation, one session at a time.
SPECIFICATION Spec
CONSTANTS
  s1 = s1
  s2 = s2
  i1 = i1
  i2 = i2
  i3 = i3
  p1 = p1
  p2 = p2
  k1 = k1
  k2 = k2
  None = None
  Sessions = {s1}
  Ids = {i1, i2, i3}
  Pairs = {p1}
  Keys = {k1, k2}
  Runs <- MCRuns
  Requests <- OnePairRequests
  Ops = {"propose", "decide", "mark_notified", "expire_overdue"}
  ProposeChannels = {"worker"}
  DecideChannels = {"mcp", "card"}
  Faults = {"apply"}
  SerialWriters = FALSE
  MaxVersion = 3
\* The system rests when every request is answered and nothing is left to decide.
CHECK_DEADLOCK FALSE
SYMMETRY Symmetry
INVARIANTS
  TypeOK
  OneOpenPerPair
  
  AppliedRecordExact
  AnnouncedIsCommitted
  
PROPERTIES
  DecidedForGood
