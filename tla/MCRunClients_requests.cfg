\* Two runs, requests that overlap, failures; time passes.
\* The system stops when nobody sends anything.
SPECIFICATION Spec
CONSTANTS
  p = p
  t = t
  s1 = s1
  s2 = s2
  NotANumber = NotANumber
  AnyPort = AnyPort
  NoAnswer = NoAnswer
  Sessions = {s1, s2}
  Pages = {p}
  Commands = {t}
  OneUser = TRUE
  Scripts <- MCScripts
  Batches <- MCBatches
  Answers = {"harmful", NoAnswer}
  MaxRuns = 2
  MaxScripts = 4
  MaxIngests = 2
  BatchSize = 1
  Window = 0
  Faults = {"model", "crash", "timeout", "early"}
  MaxFaults = 1
INVARIANTS
  TypeOK
  MatrixOfOneBuild
  OneVerdictPerFlow
  ShownIsStored
PROPERTIES
  Remembers
  ImplementsLedger
CHECK_DEADLOCK FALSE
