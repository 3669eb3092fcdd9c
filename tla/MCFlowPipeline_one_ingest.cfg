\* Failing scans and workers, a lost cursor; one ingestion at a time.
SPECIFICATION FairSpec
CONSTANTS
  f1 = f1
  f2 = f2
  g1 = g1
  g2 = g2
  c1 = c1
  w1 = w1
  w2 = w2
  None = None
  Flows = {f1, f2}
  Ingests = {g1}
  Schedulers = {c1}
  Workers = {w1}
  BatchSize = 2
  MaxInserts = 2
  MaxTime = 2
  Faults = {"scan", "cursor", "handler", "crash"}
  MaxFaults = 1
  GroupFirst = TRUE
INVARIANTS
  TypeOK
  NothingSkipped
  OncePerWindow
  AckedIsProposed
PROPERTIES
  FlowsSettle
