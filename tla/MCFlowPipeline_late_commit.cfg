\* Two ingestions at once, and nothing fails.
SPECIFICATION Spec
CONSTANTS
  f1 = f1
  f2 = f2
  g1 = g1
  g2 = g2
  c1 = c1
  w1 = w1
  w2 = w2
  None = None
  Flows = {f1, f2}
  Ingests = {g1, g2}
  Schedulers = {c1}
  Workers = {w1}
  BatchSize = 2
  MaxInserts = 2
  MaxTime = 2
  Faults = {}
  MaxFaults = 0
  GroupFirst = TRUE
SYMMETRY Symmetry
INVARIANTS
  NothingSkipped
