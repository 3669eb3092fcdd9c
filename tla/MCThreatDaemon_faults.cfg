\* Links, providers, the cache and the process fail.
SPECIFICATION FairSpec
CONSTANTS
  f1 = f1
  a1 = a1
  None = None
  Miss = Miss
  NoOpinion = NoOpinion
  Nothing = Nothing
  Heartbeat = Heartbeat
  Addresses = {a1}
  Flows = {f1}
  Lines <- MCLines
  Clients <- MCClients
  Responses <- MCResponses
  MaxLines = 2
  MaxChanges = 1
  Threshold = 50
  TtlNegative = 1
  TtlClean = 2
  TtlMalicious = 3
  KeyTtl = 3
  BackoffInitial = 4
  BackoffMax = 8
  Faults = {"link", "eof", "close", "set", "timeout", "db", "redis", "crash"}
  MaxFaults = 1
INVARIANTS
  TypeOK
  InOrderOnce
  
  
  OncePerKeyLife
  RowPerFailure
PROPERTIES
  NoneDropped
  
  StopEnds
  LinesHandled
