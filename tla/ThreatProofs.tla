---------------------------- MODULE ThreatProofs ----------------------------
(* Theorems about LogTail, ThreatVerdicts and ThreatDaemon, for every value *)
(* of their constants.                                                      *)
EXTENDS ThreatDaemon, SequenceTheorems, FiniteSetTheorems, TLAPS

-----------------------------------------------------------------------------
(* The decision                                                             *)

\* A provider that fails can hide a bad address and never make one: what is bad
\* by some of the verdicts is bad by more of them (_decide).
THEOREM MoreVerdictsNoLess ==
  ASSUME NEW some, NEW all, some \subseteq all, IsMalicious(some)
  PROVE  IsMalicious(all)
<1>1. CASE ByScore(some) # {}
  BY <1>1 DEF ByScore, IsMalicious
<1>2. CASE \E c \in MaliciousCategories : Agreed(c, some)
  <2>1. PICK c \in MaliciousCategories : Agreed(c, some)
    BY <1>2
  <2>2. Agreed(c, all)
    BY <2>1 DEF Agreed, Naming
  <2>3. QED BY <2>2 DEF IsMalicious
<1>3. QED BY <1>1, <1>2 DEF IsMalicious

-----------------------------------------------------------------------------
(* Type correctness                                                         *)

AnyAnswer == UNION {Answers(p) : p \in Configured}

\* The daemon is at a line with an event and an address.
AtLine ==
  pc \in {"get", "fetch", "record", "claim", "add"} =>
    hand \in 1..Len(log) /\ Item.flow \in Flows /\ Item.dst \in Addresses

LookupTypes ==
  /\ asking \in DOMAIN Clients /\ fetching \subseteq Configured
  /\ verdicts \subseteq Verdicts
  /\ lookups \subseteq Addresses \X Verdicts

AnswerTypes ==
  /\ opinion \in [Configured \X Addresses -> UNION {Responses[p] : p \in Configured}]
  /\ said \in [Configured \X Addresses -> AnyAnswer \cup {None}]
  /\ cache \in [Configured \X Addresses -> [answer : AnyAnswer \cup {Miss}, left : Nat]]
  /\ \A p \in Configured, a \in Addresses :
       /\ opinion[<<p, a>>] \in Responses[p]
       /\ said[<<p, a>>] \in Answers(p) \cup {None}
       /\ cache[<<p, a>>].answer \in Answers(p) \cup {Miss}
  /\ changes \in 0..MaxChanges

BusTypes ==
  /\ keys \in [EventKey -> 0..KeyTtl]
  /\ epoch \in [EventKey -> Nat]
  /\ events \in Seq([key : EventKey, epoch : Nat, verdicts : SUBSET Verdicts])

TypeInv == TailTypeOK /\ pc \in Daemon /\ AtLine /\ LookupTypes /\ AnswerTypes /\ BusTypes

LEMMA TypeInvTypes == TypeInv => TypeOK
  BY DEF TypeInv, LookupTypes, AnswerTypes, BusTypes, TypeOK

LEMMA TypeInit == Init => TypeInv
<1> SUFFICES ASSUME Init PROVE TypeInv
  OBVIOUS
<1> USE TailAssumption, TtlAssumption, DaemonAssumption
<1>1. TailTypeOK
  <2>1. \A S : <<>> \in Seq(S) /\ Len(<<>>) = 0
    BY EmptySeq
  <2>2. log \in Seq(Lines) /\ Len(log) = 0 /\ got \in Seq(1..Len(log))
    BY <2>1 DEF Init, TailInit
  <2>3. stop \in BOOLEAN /\ link \in Link /\ shut \in 0..Len(log) \cup {Nothing}
    BY DEF Init, TailInit, Link
  <2>4. backoff \in BackoffInitial..BackoffMax /\ faults \in 0..MaxFaults
    BY DEF Init, TailInit
  <2>5. passed \in 0..Len(log) /\ hand \in 1..Len(log) \cup {Nothing, Heartbeat}
    BY <2>2 DEF Init, TailInit
  <2>6. Len(log) <= MaxLines
    BY <2>2
  <2>7. QED BY <2>2, <2>3, <2>4, <2>5, <2>6 DEF TailTypeOK
<1>2. pc \in Daemon /\ AtLine
  BY DEF Init, Daemon, AtLine
<1>3. LookupTypes
  <2>1. 1 \in DOMAIN Clients
    <3>1. Clients \in Seq(Providers) /\ Clients # <<>>
      OBVIOUS
    <3>2. QED BY <3>1, EmptySeq, LenProperties
  <2>2. QED BY <2>1 DEF Init, LookupTypes
<1>4. AnswerTypes
  BY DEF Init, AnswerTypes
<1>5. BusTypes
  BY EmptySeq DEF Init, BusTypes
<1>6. QED BY <1>1, <1>2, <1>3, <1>4, <1>5 DEF TypeInv

\* A longer log: what was in it stays where it was.
LEMMA LogGrows ==
  ASSUME TailTypeOK, WriteLine
  PROVE  /\ log' \in Seq(Lines) /\ Len(log') = Len(log) + 1 /\ Len(log) \in Nat
         /\ \A n \in 1..Len(log) : log'[n] = log[n]
  BY AppendProperties, LenProperties DEF TailTypeOK, WriteLine

LEMMA WorldTypes ==
  ASSUME TailTypeOK, World
  PROVE  TailTypeOK'
<1> USE TailAssumption
<1>1. CASE WriteLine
  <2>1. log' \in Seq(Lines) /\ Len(log') <= MaxLines
    BY <1>1, LogGrows DEF TailTypeOK, WriteLine
  <2>2. 1..Len(log) \subseteq 1..Len(log') /\ 0..Len(log) \subseteq 0..Len(log')
    BY <1>1, LogGrows
  <2>3. got' \in Seq(1..Len(log'))
    BY <1>1, <2>2, SeqMonotonic DEF TailTypeOK, WriteLine
  <2>4. QED BY <1>1, <2>1, <2>2, <2>3 DEF TailTypeOK, WriteLine, connection
<1>2. CASE RemoteCloses
  BY <1>2, LenProperties DEF TailTypeOK, RemoteCloses, CanFail
<1>3. CASE Close
  BY <1>3 DEF TailTypeOK, Close, CanFail, connection
<1>4. CASE LinkDrops
  BY <1>4 DEF TailTypeOK, LinkDrops, CanFail, connection, Link
<1>5. QED BY <1>1, <1>2, <1>3, <1>4 DEF World

LEMMA ReadLineTypes ==
  ASSUME TailTypeOK, ReadLine
  PROVE  TailTypeOK' /\ passed + 1 \in 1..Len(log)
<1>1. Len(log) \in Nat
  BY LenProperties DEF TailTypeOK
<1>2. passed + 1 \in 1..Len(log)
  BY <1>1, TailAssumption DEF TailTypeOK, ReadLine, Unread, PipeEnd
<1>3. got' \in Seq(1..Len(log))
  BY <1>2, AppendProperties DEF TailTypeOK, ReadLine
<1>4. QED BY <1>1, <1>2, <1>3 DEF TailTypeOK, ReadLine, Link

LEMMA BackoffTypes ==
  ASSUME NEW b \in BackoffInitial..BackoffMax, NEW c \in NextBackoff(b)
  PROVE  c \in BackoffInitial..BackoffMax
  BY TailAssumption DEF NextBackoff, Smaller

LEMMA TailStepTypes ==
  ASSUME TailTypeOK, TailStep
  PROVE  TailTypeOK'
<1> USE TailAssumption
<1>1. CASE Connect
  BY <1>1 DEF TailTypeOK, Connect, connection, Link
<1>2. CASE StartTail
  BY <1>2, LenProperties DEF TailTypeOK, StartTail, EndOfLog, Link
<1>3. CASE ReadLine
  BY <1>3, ReadLineTypes
<1>4. CASE Quiet
  BY <1>4 DEF TailTypeOK, Quiet, connection, Link
<1>5. CASE Resume
  BY <1>5 DEF TailTypeOK, Resume, AfterYield, connection, Link
<1>6. CASE EndOfFile
  BY <1>6 DEF TailTypeOK, EndOfFile, connection, Link
<1>7. CASE BackoffEnds
  BY <1>7, BackoffTypes DEF TailTypeOK, BackoffEnds, connection, Link
<1>8. QED BY <1>1, <1>2, <1>3, <1>4, <1>5, <1>6, <1>7 DEF TailStep

\* The tail moves only while the daemon waits for it, and the log only grows.
LEMMA OutsideKeepsLine ==
  ASSUME TypeInv, UNCHANGED pc,
         \/ TailStep /\ pc = "next"
         \/ World
  PROVE  AtLine'
<1>1. CASE TailStep /\ pc = "next"
  BY <1>1 DEF AtLine
<1>2. CASE WriteLine
  BY <1>2, LogGrows DEF TypeInv, AtLine, Item, WriteLine
<1>3. CASE RemoteCloses
  BY <1>3 DEF TypeInv, AtLine, Item, RemoteCloses
<1>4. CASE Close
  BY <1>4 DEF TypeInv, AtLine, Item, Close
<1>5. CASE LinkDrops
  BY <1>5 DEF TypeInv, AtLine, Item, LinkDrops
<1>6. QED BY <1>1, <1>2, <1>3, <1>4, <1>5 DEF World

LEMMA OutsideTypes ==
  ASSUME TypeInv,
         \/ TailMoves
         \/ World /\ UNCHANGED <<providers, cache, bus, lookups, pc, lookup>>
  PROVE  TypeInv'
<1>1. UNCHANGED <<providers, cache, bus, lookups, pc, lookup>>
  BY DEF TailMoves
<1>2. TailTypeOK'
  BY WorldTypes, TailStepTypes DEF TypeInv, TailMoves
<1>3. AtLine'
  BY <1>1, OutsideKeepsLine DEF TailMoves
<1>4. QED
  BY <1>1, <1>2, <1>3 DEF TypeInv, LookupTypes, AnswerTypes, BusTypes, providers, bus, lookup

\* What a step of the daemon may do to the variables of its tail.
LEMMA DaemonKeepsTail ==
  ASSUME TailTypeOK,
         log' = log /\ connection' = connection /\ got' = got,
         link' \in {link, "loop", "ended"},
         backoff' \in {backoff, BackoffInitial},
         stop' \in {stop, FALSE},
         hand' \in {hand, Nothing},
         faults' = faults \/ (faults < MaxFaults /\ faults' = faults + 1)
  PROVE  TailTypeOK'
<1>1. passed' = passed /\ shut' = shut
  BY DEF connection
<1>2. /\ log' \in Seq(Lines) /\ Len(log') <= MaxLines
      /\ passed' \in 0..Len(log') /\ got' \in Seq(1..Len(log'))
      /\ shut' \in 0..Len(log') \cup {Nothing}
      /\ hand' \in 1..Len(log') \cup {Nothing, Heartbeat}
  BY <1>1 DEF TailTypeOK
<1>3. link' \in Link /\ stop' \in BOOLEAN
  BY DEF TailTypeOK, Link
<1>4. backoff' \in BackoffInitial..BackoffMax /\ faults' \in 0..MaxFaults
  BY TailAssumption DEF TailTypeOK
<1>5. QED BY <1>2, <1>3, <1>4 DEF TailTypeOK

LEMMA TargetIsAddress ==
  ASSUME TypeInv, pc \in {"get", "fetch", "record", "claim", "add"}
  PROVE  Target \in Addresses /\ Key(Item) \in EventKey
  BY DEF TypeInv, AtLine, Target, Key, EventKey

LEMMA TtlIsNat ==
  ASSUME NEW answer
  PROVE  TtlFor(answer) \in Nat \ {0}
  BY TtlAssumption DEF TtlFor

LEMMA CachedIsVerdict ==
  ASSUME TypeInv, NEW p \in Configured, NEW a \in Addresses
  PROVE  Cached(cache[<<p, a>>]) \subseteq Verdicts
<1>1. cache[<<p, a>>].answer \in Answers(p) \cup {Miss}
  BY DEF TypeInv, AnswerTypes
<1>2. ASSUME cache[<<p, a>>].answer \notin {Miss, NoOpinion}
      PROVE  cache[<<p, a>>].answer \in Verdicts
  BY <1>1, <1>2 DEF Verdicts
<1>3. QED BY <1>2 DEF Cached

LEMMA CacheGetTypes ==
  ASSUME TypeInv, CacheGet
  PROVE  TypeInv'
<1> DEFINE p == Clients[asking]
<1>1. Clients \in Seq(Providers) /\ Len(Clients) \in Nat /\ DOMAIN Clients = 1..Len(Clients)
  BY DaemonAssumption, LenProperties
<1>2. asking \in 1..Len(Clients)
  BY <1>1 DEF TypeInv, LookupTypes
<1>3. p \in Configured
  BY <1>1, <1>2 DEF Configured
<1>4. Target \in Addresses
  BY TargetIsAddress DEF CacheGet
<1>5. UNCHANGED <<tailVars, providers, cache, bus, lookups>>
  BY DEF CacheGet
<1>6. TailTypeOK'
  BY <1>5, DaemonKeepsTail DEF TypeInv, tailVars
<1>7. pc' \in {"get", "record", "fetch"}
  BY DEF CacheGet, Goto
<1>8. AtLine'
  BY <1>5, <1>7 DEF TypeInv, AtLine, Item, tailVars, CacheGet
<1>9. LookupTypes'
  <2>1. verdicts' \subseteq Verdicts
    BY <1>3, <1>4, CachedIsVerdict DEF TypeInv, LookupTypes, CacheGet
  <2>2. fetching' \subseteq Configured
    BY <1>3 DEF TypeInv, LookupTypes, CacheGet
  <2>3. asking' \in 1..Len(Clients)
    BY <1>1, <1>2 DEF CacheGet
  <2>4. QED BY <1>1, <1>5, <2>1, <2>2, <2>3 DEF TypeInv, LookupTypes
<1>10. AnswerTypes' /\ BusTypes'
  BY <1>5 DEF TypeInv, AnswerTypes, BusTypes, providers, bus
<1>11. QED BY <1>6, <1>7, <1>8, <1>9, <1>10 DEF TypeInv, Daemon

\* What the other steps of a lookup leave alone.
LEMMA SameLine ==
  ASSUME TypeInv, log' = log, hand' = hand,
         pc \in {"get", "fetch", "record", "claim", "add"}
  PROVE  AtLine'
  BY DEF TypeInv, AtLine, Item

LEMMA NotAtLine ==
  ASSUME pc' \in {"next", "down"}
  PROVE  AtLine'
  BY DEF AtLine

LEMMA FetchTypes ==
  ASSUME TypeInv, NEW p \in Configured, Fetch(p)
  PROVE  TypeInv'
<1> DEFINE a == Target
           answer == Answer(p, opinion[<<p, a>>])
<1>1. a \in Addresses
  BY TargetIsAddress DEF Fetch
<1>2. answer \in Answers(p) /\ TtlFor(answer) \in Nat
  <2>1. opinion[<<p, a>>] \in Responses[p]
    BY <1>1 DEF TypeInv, AnswerTypes
  <2>2. QED BY <2>1, TtlIsNat DEF Fetch, Answers
<1>3. /\ log' = log /\ link' = link /\ connection' = connection /\ got' = got /\ hand' = hand
      /\ backoff' = backoff /\ stop' = stop /\ opinion' = opinion /\ changes' = changes
      /\ UNCHANGED <<keys, epoch, events, lookups, asking>>
  BY DEF Fetch, bus
<1>4. faults' = faults \/ (faults < MaxFaults /\ faults' = faults + 1)
  BY DEF Fetch, CanFail
<1>5. TailTypeOK'
  BY <1>3, <1>4, DaemonKeepsTail DEF TypeInv
<1>6. pc' \in Daemon /\ AtLine'
  BY <1>3, SameLine DEF Fetch, Fetched, Goto, Daemon
<1>7. LookupTypes'
  <2>1. answer # NoOpinion => answer \in Verdicts
    BY <1>2 DEF Verdicts
  <2>4. verdicts' \subseteq Verdicts
    BY <2>1 DEF TypeInv, LookupTypes, Fetch
  <2>2. fetching' \subseteq Configured
    BY DEF TypeInv, LookupTypes, Fetch, Fetched
  <2>3. QED BY <1>3, <2>4, <2>2 DEF TypeInv, LookupTypes
<1>8. AnswerTypes'
  <2>1. said' = [said EXCEPT ![<<p, a>>] = answer]
    BY DEF Fetch
  <2>2. cache' = cache \/ cache' = [cache EXCEPT ![<<p, a>>] = [answer |-> answer, left |-> TtlFor(answer)]]
    BY DEF Fetch, CacheSet
  <2>3. answer \in AnyAnswer
    BY <1>2 DEF AnyAnswer
  <2>4. said' \in [Configured \X Addresses -> AnyAnswer \cup {None}]
    BY <2>1, <2>3 DEF TypeInv, AnswerTypes
  <2> DEFINE entry == [answer |-> answer, left |-> TtlFor(answer)]
  <2>8. entry \in [answer : AnyAnswer \cup {Miss}, left : Nat] /\ entry.answer = answer
    BY <1>2, <2>3
  <2>9. cache' = cache \/ cache' = [cache EXCEPT ![<<p, a>>] = entry]
    BY <2>2
  <2> HIDE DEF entry, answer, a
  <2>5. cache' \in [Configured \X Addresses -> [answer : AnyAnswer \cup {Miss}, left : Nat]]
    BY <2>8, <2>9 DEF TypeInv, AnswerTypes
  <2>6. \A q \in Configured, b \in Addresses :
          /\ said'[<<q, b>>] \in Answers(q) \cup {None}
          /\ cache'[<<q, b>>].answer \in Answers(q) \cup {Miss}
    <3> TAKE q \in Configured, b \in Addresses
    <3>1. CASE <<q, b>> = <<p, a>>
      <4>1. q = p
        BY <3>1
      <4>2. said'[<<q, b>>] = answer
        BY <1>1, <2>1, <3>1 DEF TypeInv, AnswerTypes
      <4>3. cache'[<<q, b>>] = cache[<<q, b>>] \/ cache'[<<q, b>>] = entry
        BY <1>1, <2>9, <3>1 DEF TypeInv, AnswerTypes
      <4>4. QED BY <1>2, <2>8, <4>1, <4>2, <4>3 DEF TypeInv, AnswerTypes
    <3>2. CASE <<q, b>> # <<p, a>>
      BY <2>1, <2>9, <3>2 DEF TypeInv, AnswerTypes
    <3>3. QED BY <3>1, <3>2
  <2>7. QED BY <1>3, <2>4, <2>5, <2>6 DEF TypeInv, AnswerTypes
<1>9. BusTypes'
  BY <1>3 DEF TypeInv, BusTypes
<1>10. QED BY <1>5, <1>6, <1>7, <1>8, <1>9 DEF TypeInv

LEMMA FetchFailsTypes ==
  ASSUME TypeInv, NEW p \in Configured, FetchFails(p)
  PROVE  TypeInv'
<1>1. /\ log' = log /\ link' = link /\ connection' = connection /\ got' = got /\ hand' = hand
      /\ backoff' = backoff /\ stop' = stop
      /\ UNCHANGED <<opinion, changes, said, cache, keys, epoch, events, lookups, asking, verdicts>>
  BY DEF FetchFails, bus, providers
<1>2. faults' = faults \/ (faults < MaxFaults /\ faults' = faults + 1)
  BY DEF FetchFails, CanFail
<1>3. TailTypeOK'
  BY <1>1, <1>2, DaemonKeepsTail DEF TypeInv
<1>4. pc' \in Daemon /\ AtLine'
  BY <1>1, SameLine DEF FetchFails, Fetched, Goto, Daemon
<1>5. LookupTypes'
  BY <1>1 DEF TypeInv, LookupTypes, FetchFails, Fetched
<1>6. AnswerTypes' /\ BusTypes'
  BY <1>1 DEF TypeInv, AnswerTypes, BusTypes
<1>7. QED BY <1>3, <1>4, <1>5, <1>6 DEF TypeInv

LEMMA ConcludeTypes ==
  ASSUME TypeInv, Conclude
  PROVE  TypeInv'
<1>1. /\ log' = log /\ link' = link /\ connection' = connection /\ got' = got
      /\ backoff' = backoff /\ stop' = stop
      /\ UNCHANGED <<opinion, changes, said, cache, keys, epoch, events, asking, fetching>>
  BY DEF Conclude, bus, providers
<1>2. faults' = faults \/ (faults < MaxFaults /\ faults' = faults + 1)
  BY DEF Conclude, CanFail
<1>3. \/ pc' = "claim" /\ hand' = hand /\ verdicts' = verdicts
      \/ pc' = "next" /\ hand' = Nothing /\ verdicts' = {}
  BY DEF Conclude, NextItem, Goto
<1>4. TailTypeOK'
  BY <1>1, <1>2, <1>3, DaemonKeepsTail DEF TypeInv
<1>5. pc' \in Daemon /\ AtLine'
  BY <1>1, <1>3, SameLine, NotAtLine DEF Conclude, Daemon
<1>6. LookupTypes'
  <2>1. Recorded \subseteq Addresses \X Verdicts
    BY TargetIsAddress DEF Conclude, Recorded, TypeInv, LookupTypes
  <2>2. lookups' \subseteq lookups \cup Recorded
    BY DEF Conclude, RecordedBut
  <2>3. QED BY <1>1, <1>3, <2>1, <2>2 DEF TypeInv, LookupTypes
<1>7. AnswerTypes' /\ BusTypes'
  BY <1>1 DEF TypeInv, AnswerTypes, BusTypes
<1>8. QED BY <1>4, <1>5, <1>6, <1>7 DEF TypeInv

LEMMA TakeItemTypes ==
  ASSUME TypeInv, TakeItem
  PROVE  TypeInv'
<1>1. /\ log' = log /\ link' = link /\ connection' = connection /\ got' = got
      /\ backoff' = backoff /\ stop' = stop /\ faults' = faults
      /\ UNCHANGED <<providers, cache, bus, lookups, lookup>>
  BY DEF TakeItem
<1>2. \/ pc' = "next" /\ hand' = Nothing
      \/ pc' = "get" /\ hand' = hand /\ ~Skips(hand)
  BY DEF TakeItem, Goto
<1>3. TailTypeOK'
  BY <1>1, <1>2, DaemonKeepsTail DEF TypeInv
<1>4. pc' \in Daemon
  BY <1>2 DEF Daemon
<1>5. AtLine'
  <2>1. CASE pc' = "next"
    BY <2>1 DEF AtLine
  <2>2. CASE hand' = hand /\ ~Skips(hand)
    <3>1. hand \in 1..Len(log) /\ log[hand].flow # None /\ log[hand].dst # None
      BY <2>2 DEF TypeInv, TailTypeOK, TakeItem, Skips
    <3>2. log[hand] \in [flow : Flows \cup {None}, dst : Addresses \cup {None}]
      BY <3>1, ElementOfSeq, DaemonAssumption DEF TypeInv, TailTypeOK
    <3>3. log[hand].flow \in Flows \cup {None} /\ log[hand].dst \in Addresses \cup {None}
      BY <3>2
    <3>4. QED BY <1>1, <2>2, <3>1, <3>3 DEF AtLine, Item
  <2>3. QED BY <1>2, <2>1, <2>2
<1>6. LookupTypes' /\ AnswerTypes' /\ BusTypes'
  BY <1>1 DEF TypeInv, LookupTypes, AnswerTypes, BusTypes, providers, bus, lookup
<1>7. QED BY <1>3, <1>4, <1>5, <1>6 DEF TypeInv

LEMMA ClaimTypes ==
  ASSUME TypeInv, Claim
  PROVE  TypeInv'
<1> DEFINE k == Key(Item)
<1>1. /\ log' = log /\ link' = link /\ connection' = connection /\ got' = got
      /\ backoff' = backoff /\ stop' = stop /\ faults' = faults
      /\ UNCHANGED <<providers, cache, events, lookups, asking, fetching>>
  BY DEF Claim
<1>2. \/ pc' = "add" /\ hand' = hand /\ verdicts' = verdicts
      \/ pc' = "next" /\ hand' = Nothing /\ verdicts' = {}
  BY DEF Claim, NextItem, Goto
<1>3. TailTypeOK'
  BY <1>1, <1>2, DaemonKeepsTail DEF TypeInv
<1>4. pc' \in Daemon /\ AtLine'
  BY <1>1, <1>2, SameLine, NotAtLine DEF Claim, Daemon
<1>5. LookupTypes' /\ AnswerTypes'
  BY <1>1, <1>2 DEF TypeInv, LookupTypes, AnswerTypes, providers
<1>6. BusTypes'
  <2>1. k \in EventKey
    BY TargetIsAddress DEF Claim
  <2>2. epoch[k] \in Nat /\ KeyTtl \in 0..KeyTtl
    BY <2>1, DaemonAssumption DEF TypeInv, BusTypes
  <2>3. \/ UNCHANGED <<keys, epoch>>
        \/ /\ keys' = [keys EXCEPT ![k] = KeyTtl]
           /\ epoch' = [epoch EXCEPT ![k] = IF keys[k] > 0 THEN epoch[k] ELSE epoch[k] + 1]
    BY Zenon DEF Claim
  <2> HIDE DEF k
  <2>4. keys' \in [EventKey -> 0..KeyTtl]
    BY <2>2, <2>3 DEF TypeInv, BusTypes
  <2> DEFINE life == IF keys[k] > 0 THEN epoch[k] ELSE epoch[k] + 1
  <2>7. life \in Nat
    BY <2>2
  <2>8. UNCHANGED epoch \/ epoch' = [epoch EXCEPT ![k] = life]
    BY <2>3
  <2> HIDE DEF life
  <2>5. epoch' \in [EventKey -> Nat]
    BY <2>7, <2>8 DEF TypeInv, BusTypes
  <2>6. QED BY <1>1, <2>4, <2>5 DEF TypeInv, BusTypes
<1>7. QED BY <1>3, <1>4, <1>5, <1>6 DEF TypeInv

\* What the bus gets.
LEMMA AddAppends ==
  ASSUME TypeInv, Add
  PROVE  LET event == [key |-> Key(Item), epoch |-> epoch[Key(Item)], verdicts |-> verdicts]
         IN  /\ event \in [key : EventKey, epoch : Nat, verdicts : SUBSET Verdicts]
             /\ events' = Append(events, event)
             /\ events' \in Seq([key : EventKey, epoch : Nat, verdicts : SUBSET Verdicts])
             /\ Len(events) \in Nat /\ Len(events') = Len(events) + 1
             /\ \A n \in 1..Len(events) : events'[n] = events[n]
             /\ events'[Len(events) + 1] = event
<1> DEFINE event == [key |-> Key(Item), epoch |-> epoch[Key(Item)], verdicts |-> verdicts]
           Event == [key : EventKey, epoch : Nat, verdicts : SUBSET Verdicts]
<1>1. event \in Event
  BY TargetIsAddress DEF Add, TypeInv, BusTypes, LookupTypes
<1>2. events \in Seq(Event) /\ events' = Append(events, event)
  BY DEF TypeInv, BusTypes, Add
<1> HIDE DEF event, Event
<1>3. /\ events' \in Seq(Event) /\ Len(events) \in Nat /\ Len(events') = Len(events) + 1
      /\ \A n \in 1..Len(events) : events'[n] = events[n]
      /\ events'[Len(events) + 1] = event
  BY <1>1, <1>2, AppendProperties, LenProperties
<1>4. QED BY <1>1, <1>2, <1>3 DEF event, Event

LEMMA AddTypes ==
  ASSUME TypeInv, Add
  PROVE  TypeInv'
<1>1. /\ log' = log /\ link' = link /\ connection' = connection /\ got' = got
      /\ backoff' = backoff /\ stop' = stop /\ faults' = faults
      /\ pc' = "next" /\ hand' = Nothing /\ verdicts' = {}
      /\ UNCHANGED <<providers, cache, keys, epoch, lookups, asking, fetching>>
  BY DEF Add, NextItem, Goto
<1>2. TailTypeOK'
  BY <1>1, DaemonKeepsTail DEF TypeInv
<1>3. pc' \in Daemon /\ AtLine'
  BY <1>1, NotAtLine DEF Daemon
<1>4. LookupTypes' /\ AnswerTypes'
  BY <1>1 DEF TypeInv, LookupTypes, AnswerTypes, providers
<1>5. BusTypes'
  BY <1>1, AddAppends DEF TypeInv, BusTypes
<1>6. QED BY <1>2, <1>3, <1>4, <1>5 DEF TypeInv

\* The ways the process ends.
LEMMA ExitTypes ==
  ASSUME TypeInv, Dies \/ Returns
  PROVE  TypeInv'
<1>1. /\ log' = log /\ link' = "ended" /\ connection' = connection /\ got' = got
      /\ backoff' = backoff /\ stop' = stop
      /\ pc' = "down" /\ hand' = Nothing /\ verdicts' = {} /\ asking' = 1 /\ fetching' = {}
      /\ UNCHANGED <<providers, cache, bus, lookups>>
  BY DEF Dies, Returns, Exit, Goto
<1>2. faults' = faults \/ (faults < MaxFaults /\ faults' = faults + 1)
  BY DEF Dies, Returns, CanFail
<1>3. TailTypeOK'
  BY <1>1, <1>2, DaemonKeepsTail DEF TypeInv
<1>4. pc' \in Daemon /\ AtLine'
  BY <1>1, NotAtLine DEF Daemon
<1>5. 1 \in DOMAIN Clients
  <2>1. Clients \in Seq(Providers) /\ Clients # <<>>
    BY DaemonAssumption
  <2>2. QED BY <2>1, EmptySeq, LenProperties
<1>6. LookupTypes'
  BY <1>1, <1>5 DEF TypeInv, LookupTypes
<1>7. AnswerTypes' /\ BusTypes'
  BY <1>1 DEF TypeInv, AnswerTypes, BusTypes, providers, bus
<1>8. QED BY <1>3, <1>4, <1>6, <1>7 DEF TypeInv

LEMMA RestartTypes ==
  ASSUME TypeInv, Restart
  PROVE  TypeInv'
<1>1. /\ log' = log /\ link' = "loop" /\ connection' = connection /\ got' = got
      /\ backoff' = BackoffInitial /\ stop' = FALSE /\ faults' = faults
      /\ pc' = "next" /\ hand' = hand
      /\ UNCHANGED <<providers, cache, bus, lookups, lookup>>
  BY DEF Restart, Goto
<1>2. TailTypeOK'
  BY <1>1, DaemonKeepsTail DEF TypeInv
<1>3. pc' \in Daemon /\ AtLine'
  BY <1>1, NotAtLine DEF Daemon
<1>4. LookupTypes' /\ AnswerTypes' /\ BusTypes'
  BY <1>1 DEF TypeInv, LookupTypes, AnswerTypes, BusTypes, providers, bus, lookup
<1>5. QED BY <1>2, <1>3, <1>4 DEF TypeInv

LEMMA ChangeOpinionTypes ==
  ASSUME TypeInv, ChangeOpinion
  PROVE  TypeInv'
<1>1. UNCHANGED <<tailVars, said, cache, bus, lookups, pc, lookup>>
  BY DEF ChangeOpinion
<1>2. TailTypeOK'
  BY <1>1, DaemonKeepsTail DEF TypeInv, tailVars
<1>3. pc' \in Daemon /\ AtLine' /\ LookupTypes' /\ BusTypes'
  BY <1>1 DEF TypeInv, AtLine, Item, LookupTypes, BusTypes, bus, lookup, tailVars
<1>4. AnswerTypes'
  <2>1. PICK p \in Configured, a \in Addresses :
          \E r \in Responses[p] : opinion' = [opinion EXCEPT ![<<p, a>>] = r]
    BY DEF ChangeOpinion
  <2>7. PICK r \in Responses[p] : opinion' = [opinion EXCEPT ![<<p, a>>] = r]
    BY <2>1
  <2>2. r \in UNION {Responses[q] : q \in Configured}
    OBVIOUS
  <2>3. \A q \in Configured, b \in Addresses : opinion'[<<q, b>>] \in Responses[q]
    <3> TAKE q \in Configured, b \in Addresses
    <3>1. CASE <<q, b>> = <<p, a>>
      BY <2>7, <3>1 DEF TypeInv, AnswerTypes
    <3>2. CASE <<q, b>> # <<p, a>>
      BY <2>7, <3>2 DEF TypeInv, AnswerTypes
    <3>3. QED BY <3>1, <3>2
  <2>4. opinion' \in [Configured \X Addresses -> UNION {Responses[q] : q \in Configured}]
    BY <2>7, <2>2 DEF TypeInv, AnswerTypes
  <2>5. changes' \in 0..MaxChanges
    BY DaemonAssumption DEF TypeInv, AnswerTypes, ChangeOpinion
  <2>6. QED BY <1>1, <2>3, <2>4, <2>5 DEF TypeInv, AnswerTypes
<1>5. QED BY <1>2, <1>3, <1>4 DEF TypeInv

LEMMA TickTypes ==
  ASSUME TypeInv, Tick
  PROVE  TypeInv'
<1>1. UNCHANGED <<tailVars, providers, epoch, events, lookups, pc, lookup>>
  BY DEF Tick
<1>2. TailTypeOK'
  BY <1>1, DaemonKeepsTail DEF TypeInv, tailVars
<1>3. pc' \in Daemon /\ AtLine' /\ LookupTypes'
  BY <1>1 DEF TypeInv, AtLine, Item, LookupTypes, lookup, tailVars
<1>4. AnswerTypes'
  <2> DEFINE Entry == [answer : AnyAnswer \cup {Miss}, left : Nat]
  <2>1. cache' = [pa \in Configured \X Addresses |-> Older(cache[pa])]
    BY DEF TypeInv, AnswerTypes, Tick
  <2>2. \A entry \in Entry :
          /\ Older(entry) \in Entry
          /\ Older(entry).answer \in {entry.answer, Miss}
    BY DEF Older
  <2>3. \A pa \in Configured \X Addresses : cache[pa] \in Entry
    BY DEF TypeInv, AnswerTypes
  <2> HIDE DEF Entry
  <2>4. cache' \in [Configured \X Addresses -> Entry]
    BY <2>1, <2>2, <2>3
  <2>5. \A p \in Configured, a \in Addresses : cache'[<<p, a>>].answer \in Answers(p) \cup {Miss}
    <3> TAKE p \in Configured, a \in Addresses
    <3>1. cache'[<<p, a>>] = Older(cache[<<p, a>>]) /\ cache[<<p, a>>] \in Entry
      BY <2>1, <2>3
    <3>2. cache[<<p, a>>].answer \in Answers(p) \cup {Miss}
      BY DEF TypeInv, AnswerTypes
    <3>3. QED BY <2>2, <3>1, <3>2
  <2>6. QED BY <1>1, <2>4, <2>5 DEF TypeInv, AnswerTypes, Entry, providers
<1>5. BusTypes'
  <2>1. \A k \in EventKey : keys[k] \in Nat /\ keys[k] <= KeyTtl
    BY DaemonAssumption DEF TypeInv, BusTypes
  <2>2. \A k \in EventKey : (IF keys[k] = 0 THEN 0 ELSE keys[k] - 1) \in 0..KeyTtl
    BY <2>1, DaemonAssumption
  <2>3. keys' \in [EventKey -> 0..KeyTtl]
    BY <2>2 DEF Tick
  <2>4. QED BY <1>1, <2>3 DEF TypeInv, BusTypes
<1>6. QED BY <1>2, <1>3, <1>4, <1>5 DEF TypeInv

LEMMA TypeStep == TypeInv /\ [Next]_vars => TypeInv'
<1> SUFFICES ASSUME TypeInv, [Next]_vars PROVE TypeInv'
  OBVIOUS
<1>1. CASE UNCHANGED vars
  <2>1. UNCHANGED <<tailVars, providers, cache, bus, lookups, pc, lookup>>
    BY <1>1 DEF vars
  <2>2. TailTypeOK'
    BY <2>1, DaemonKeepsTail DEF TypeInv, tailVars
  <2>3. QED
    BY <2>1, <2>2 DEF TypeInv, AtLine, Item, LookupTypes, AnswerTypes, BusTypes, providers, bus,
                      lookup, tailVars
<1>2. CASE Environment
  BY <1>2, OutsideTypes, ChangeOpinionTypes, TickTypes DEF Environment
<1>3. CASE TailMoves
  BY <1>3, OutsideTypes
<1>4. CASE Handle
  BY <1>4, TakeItemTypes, CacheGetTypes, ConcludeTypes, ClaimTypes, AddTypes, FetchTypes,
     FetchFailsTypes DEF Handle
<1>5. CASE Dies \/ Returns
  BY <1>5, ExitTypes
<1>6. CASE Restart
  BY <1>6, RestartTypes
<1>7. QED BY <1>1, <1>2, <1>3, <1>4, <1>5, <1>6 DEF Next

LEMMA Typed == Spec => []TypeInv
  BY TypeInit, TypeStep, PTL DEF Spec

\* Every variable of the daemon and of its tail keeps its type: the daemon is at
\* a line with an address whenever it looks one up, and what it gathers, records
\* and publishes are verdicts of the providers that are configured.
THEOREM DaemonTypes == Spec => []TypeOK
<1>1. TypeInv => TypeOK
  BY TypeInvTypes
<1>2. QED BY <1>1, Typed, PTL

-----------------------------------------------------------------------------
(* The order of the lines                                                   *)

\* A connection never goes back behind what was yielded.
LineInv == InOrderOnce /\ \A n \in DOMAIN got : got[n] <= passed

LEMMA ReadLineInOrder ==
  ASSUME TypeInv, LineInv, ReadLine
  PROVE  LineInv'
<1>1. got \in Seq(1..Len(log)) /\ passed \in Nat /\ passed + 1 \in 1..Len(log)
  BY ReadLineTypes, LenProperties DEF TypeInv, TailTypeOK
<1>2. got' = Append(got, passed + 1) /\ passed' = passed + 1
  BY DEF ReadLine
<1>3. /\ DOMAIN got = 1..Len(got) /\ DOMAIN got' = 1..(Len(got) + 1) /\ Len(got) \in Nat
      /\ \A n \in 1..Len(got) : got'[n] = got[n] /\ got[n] \in Nat
      /\ got'[Len(got) + 1] = passed + 1
  BY <1>1, <1>2, AppendProperties, LenProperties, ElementOfSeq
<1>4. \A n \in DOMAIN got' : got'[n] <= passed'
  BY <1>1, <1>2, <1>3 DEF LineInv
<1>5. InOrderOnce'
  <2> SUFFICES ASSUME NEW m \in DOMAIN got', NEW n \in DOMAIN got', m < n
               PROVE  got'[m] < got'[n]
    BY DEF InOrderOnce
  <2>1. m \in 1..Len(got)
    BY <1>3
  <2>2. CASE n \in 1..Len(got)
    <3>1. got[m] < got[n]
      BY <1>3, <2>1, <2>2 DEF LineInv, InOrderOnce
    <3>2. QED BY <1>3, <2>1, <2>2, <3>1
  <2>3. CASE n = Len(got) + 1
    <3>1. got[m] <= passed
      BY <1>3, <2>1 DEF LineInv
    <3>2. QED BY <1>1, <1>3, <2>1, <2>3, <3>1
  <2>4. QED BY <1>3, <2>2, <2>3
<1>6. QED BY <1>4, <1>5 DEF LineInv

LEMMA StartTailInOrder ==
  ASSUME TypeInv, LineInv, StartTail
  PROVE  LineInv'
<1>1. got' = got /\ passed' = Len(log)
  BY DEF StartTail, EndOfLog
<1>2. Len(log) \in Nat /\ passed \in 0..Len(log) /\ got \in Seq(1..Len(log))
  BY LenProperties DEF TypeInv, TailTypeOK
<1>3. \A n \in DOMAIN got : got[n] \in 1..Len(log)
  BY <1>2, ElementOfSeq, LenProperties
<1>4. QED BY <1>1, <1>2, <1>3 DEF LineInv, InOrderOnce

LEMMA LineStep == TypeInv /\ LineInv /\ [Next]_vars => LineInv'
<1> SUFFICES ASSUME TypeInv, LineInv, [Next]_vars PROVE LineInv'
  OBVIOUS
<1>1. CASE TailMoves /\ ReadLine
  BY <1>1, ReadLineInOrder
<1>2. CASE TailMoves /\ StartTail
  BY <1>2, StartTailInOrder
<1>3. CASE TailMoves /\ ~ReadLine /\ ~StartTail
  <2>1. UNCHANGED <<got, passed>>
    BY <1>3 DEF TailMoves, TailStep, Connect, Quiet, Resume, EndOfFile, BackoffEnds, connection
  <2>2. QED BY <2>1 DEF LineInv, InOrderOnce
<1>4. CASE ~TailMoves
  <2>1. UNCHANGED <<got, passed>>
    <3>1. CASE Environment \/ UNCHANGED vars
      BY <3>1 DEF vars, tailVars, connection, Environment, World, WriteLine, RemoteCloses, Close,
                  LinkDrops, ChangeOpinion, Tick
    <3>2. CASE Handle
      BY <3>2 DEF Handle, TakeItem, CacheGet, Conclude, Claim, Add, Fetch, FetchFails, tailVars,
                  connection
    <3>3. CASE Dies \/ Returns \/ Restart
      BY <3>3 DEF Dies, Returns, Restart, connection
    <3>4. QED BY <1>4, <3>1, <3>2, <3>3 DEF Next
  <2>2. QED BY <2>1 DEF LineInv, InOrderOnce
<1>5. QED BY <1>1, <1>2, <1>3, <1>4

\* Whatever drops, reconnects and starts again, no line is handed to the daemon
\* twice and none before one that was written earlier (tail).
THEOREM LinesInOrder == Spec => []InOrderOnce
<1>1. Init => LineInv
  BY EmptySeq DEF Init, TailInit, LineInv, InOrderOnce
<1>2. LineInv => InOrderOnce
  BY DEF LineInv
<1>3. QED BY <1>1, <1>2, LineStep, Typed, PTL DEF Spec

\* A line in the pipe of a connection that lasts is yielded sooner or later and
\* never skipped: no step of the tail or of the daemon reads past it (tail).
THEOREM PipeYieldsAll == Spec => NoneDropped
<1> DEFINE Kept == \A n \in Unread :
                     link \in {"reading", "yielded"} /\ link' \in {"reading", "yielded"} =>
                       n > passed' \/ n \in Yielded'
<1>1. TypeInv /\ [Next]_vars => [Kept]_tailVars
  <2> SUFFICES ASSUME TypeInv, [Next]_vars, NEW n \in Unread,
                      link \in {"reading", "yielded"}, link' \in {"reading", "yielded"}
               PROVE  n > passed' \/ n \in Yielded'
    OBVIOUS
  <2>1. n \in Nat /\ n > passed /\ passed \in Nat
    BY LenProperties, TailAssumption DEF TypeInv, TailTypeOK, Unread, PipeEnd
  <2>2. CASE TailMoves /\ ReadLine
    <3>1. passed' = passed + 1 /\ got' = Append(got, passed + 1) /\ got \in Seq(1..Len(log))
      BY <2>2 DEF ReadLine, TypeInv, TailTypeOK
    <3>2. Len(got') \in DOMAIN got' /\ got'[Len(got')] = passed'
      BY <3>1, ReadLineTypes, <2>2, AppendProperties, LenProperties DEF TypeInv
    <3>3. passed' \in Yielded'
      BY <3>2 DEF Yielded
    <3>4. n = passed' \/ n > passed'
      BY <2>1, <3>1
    <3>5. QED BY <3>3, <3>4
  <2>3. CASE TailMoves /\ ~ReadLine
    <3>1. passed' = passed
      BY <2>3 DEF TailMoves, TailStep, Connect, StartTail, Quiet, Resume, EndOfFile, BackoffEnds,
                  connection
    <3>2. QED BY <2>1, <3>1
  <2>4. CASE ~TailMoves
    <3>1. passed' = passed
      <4>1. CASE Environment \/ UNCHANGED vars
        BY <4>1 DEF vars, tailVars, connection, Environment, World, WriteLine, RemoteCloses, Close,
                    LinkDrops, ChangeOpinion, Tick
      <4>2. CASE Handle
        BY <4>2 DEF Handle, TakeItem, CacheGet, Conclude, Claim, Add, Fetch, FetchFails, tailVars,
                    connection
      <4>3. CASE Dies \/ Returns \/ Restart
        BY <4>3 DEF Dies, Returns, Restart, connection
      <4>4. QED BY <2>4, <4>1, <4>2, <4>3 DEF Next
    <3>2. QED BY <2>1, <3>1
  <2>5. QED BY <2>2, <2>3, <2>4
<1>2. QED BY <1>1, Typed, PTL DEF Spec, NoneDropped

-----------------------------------------------------------------------------
(* The lookup and the cache                                                 *)

InLookup == {"get", "fetch", "record", "claim", "add"}

\* The daemon stays at its line from the first look into the cache to the bus.
LEMMA StaysAtLine ==
  ASSUME TypeInv, [Next]_vars, pc \in InLookup, pc' \in InLookup
  PROVE  Item' = Item
<1>1. hand \in 1..Len(log)
  BY DEF TypeInv, AtLine, InLookup
<1>2. CASE World /\ UNCHANGED <<providers, cache, bus, lookups, pc, lookup>>
  <2>1. hand' = hand
    BY <1>2 DEF World, WriteLine, RemoteCloses, Close, LinkDrops
  <2>2. CASE WriteLine
    BY <1>1, <2>1, <2>2, LogGrows DEF TypeInv, Item
  <2>3. CASE ~WriteLine
    BY <1>2, <2>1, <2>3 DEF World, RemoteCloses, Close, LinkDrops, Item
  <2>4. QED BY <2>2, <2>3
<1>3. CASE ChangeOpinion \/ Tick \/ UNCHANGED vars
  BY <1>3 DEF ChangeOpinion, Tick, vars, tailVars, Item
<1>4. CASE Handle
  BY <1>4 DEF Handle, TakeItem, CacheGet, Conclude, Claim, Add, Fetch, FetchFails, NextItem, Goto,
              InLookup, Item, tailVars
<1>5. CASE TailMoves \/ Dies \/ Returns \/ Restart
  BY <1>5 DEF TailMoves, Dies, Returns, Restart, Exit, Goto, InLookup
<1>6. QED BY <1>2, <1>3, <1>4, <1>5 DEF Next, Environment

\* An entry of the line in hand that the decision heeds.
Heeded(p) == cache[<<p, Target>>].answer \in {Miss, NoOpinion} \cup verdicts

\* A provider is asked only when the cache has no entry; what the cache has of
\* those that have been passed is in the verdicts.
CacheInv ==
  /\ CacheIsLastAnswer
  /\ pc \notin {"get", "fetch"} => fetching = {}
  /\ pc # "get" => asking = 1
  /\ \A p \in fetching : cache[<<p, Target>>].answer = Miss
  /\ pc = "get" => \A n \in 1..(asking - 1) : Heeded(Clients[n])
  /\ pc \in {"fetch", "record"} => \A p \in Configured : Heeded(p)

LEMMA CacheInit ==
  ASSUME Init
  PROVE  CacheInv
<1>1. CacheIsLastAnswer
  BY DEF Init, CacheIsLastAnswer
<1>2. QED BY <1>1 DEF Init, CacheInv

LEMMA CacheGetHeeds ==
  ASSUME TypeInv, CacheInv, CacheGet
  PROVE  CacheInv'
<1> DEFINE p == Clients[asking]
           entry == cache[<<p, Target>>]
<1>1. /\ Target' = Target /\ cache' = cache /\ said' = said
      /\ verdicts' = verdicts \cup Cached(entry)
      /\ fetching' = (IF entry.answer = Miss THEN fetching \cup {p} ELSE fetching)
  BY DEF CacheGet, Target, Item, tailVars, providers
<1>2. CacheIsLastAnswer'
  BY <1>1 DEF CacheInv, CacheIsLastAnswer
<1>3. \A q \in fetching' : cache'[<<q, Target'>>].answer = Miss
  BY <1>1 DEF CacheInv
<1>4. \A q : Heeded(q) => Heeded(q)'
  BY <1>1 DEF Heeded
<1>5. cache'[<<p, Target'>>].answer \in {Miss, NoOpinion} \cup verdicts'
  BY <1>1 DEF Cached
<1>6. asking \in 1..Len(Clients) /\ Len(Clients) \in Nat /\ DOMAIN Clients = 1..Len(Clients)
  BY DaemonAssumption, LenProperties DEF TypeInv, LookupTypes
<1>7. \A n \in 1..asking : Heeded(Clients[n])'
  <2> TAKE n \in 1..asking
  <2>1. CASE n = asking
    BY <1>5, <2>1 DEF Heeded
  <2>2. CASE n # asking
    <3>1. n \in 1..(asking - 1)
      BY <1>6, <2>2
    <3>2. QED BY <1>4, <3>1 DEF CacheInv, CacheGet
  <2>3. QED BY <2>1, <2>2
<1>8. CASE asking < Len(Clients)
  <2>1. asking' = asking + 1 /\ pc' = "get"
    BY <1>8 DEF CacheGet
  <2>2. 1..(asking' - 1) = 1..asking
    BY <1>6, <2>1
  <2>3. QED BY <1>2, <1>3, <1>7, <2>1, <2>2 DEF CacheInv
<1>9. CASE ~(asking < Len(Clients))
  <2>1. asking' = 1 /\ pc' = (IF fetching' = {} THEN "record" ELSE "fetch")
    BY <1>9 DEF CacheGet, Goto
  <2> DEFINE last == Len(Clients)
  <2>6. asking \in 1..last /\ last \in Nat /\ ~(asking < last)
    BY <1>6, <1>9
  <2> HIDE DEF last
  <2>7. asking = last
    BY <2>6
  <2>2. asking = Len(Clients)
    BY <2>7 DEF last
  <2>3. \A q \in Configured : Heeded(q)'
    BY <1>6, <1>7, <2>2 DEF Configured
  <2>4. pc' \notin {"get", "fetch"} => fetching' = {}
    BY <2>1
  <2>5. QED BY <1>2, <1>3, <2>1, <2>3, <2>4 DEF CacheInv
<1>10. QED BY <1>8, <1>9

LEMMA FetchHeeds ==
  ASSUME TypeInv, CacheInv, NEW p \in Configured, Fetch(p)
  PROVE  CacheInv'
<1> DEFINE a == Target
           answer == Answer(p, opinion[<<p, a>>])
           entry == [answer |-> answer, left |-> TtlFor(answer)]
<1>1. /\ Target' = Target /\ asking' = asking /\ pc = "fetch"
      /\ fetching' = fetching \ {p} /\ p \in fetching
      /\ pc' = (IF fetching = {p} THEN "record" ELSE "fetch")
      /\ said' = [said EXCEPT ![<<p, a>>] = answer]
      /\ verdicts' = (IF answer = NoOpinion THEN verdicts ELSE verdicts \cup {answer})
  BY DEF Fetch, Fetched, Goto, Target, Item
<1>2. cache' = cache \/ cache' = [cache EXCEPT ![<<p, a>>] = entry]
  BY DEF Fetch, CacheSet
<1>3. <<p, a>> \in Configured \X Addresses /\ TtlFor(answer) \in Nat \ {0}
  BY <1>1, TargetIsAddress, TtlIsNat
<1>4. entry.answer = answer /\ entry.left = TtlFor(answer)
  OBVIOUS
<1>5. cache[<<p, a>>].answer = Miss
  BY <1>1 DEF CacheInv
<1>6. /\ said \in [Configured \X Addresses -> AnyAnswer \cup {None}]
      /\ cache \in [Configured \X Addresses -> [answer : AnyAnswer \cup {Miss}, left : Nat]]
  BY DEF TypeInv, AnswerTypes
<1> HIDE DEF entry, answer, a
<1>7. \A pa \in Configured \X Addresses : pa # <<p, a>> => cache'[pa] = cache[pa] /\ said'[pa] = said[pa]
  BY <1>1, <1>2, <1>6
<1>8. said'[<<p, a>>] = answer /\ (cache'[<<p, a>>] = cache[<<p, a>>] \/ cache'[<<p, a>>] = entry)
  BY <1>1, <1>2, <1>3, <1>6
<1>9. DOMAIN cache' = Configured \X Addresses /\ DOMAIN cache = Configured \X Addresses
  BY <1>2, <1>6
<1>10. CacheIsLastAnswer'
  <2> SUFFICES ASSUME NEW pa \in Configured \X Addresses, cache'[pa].answer # Miss
               PROVE  cache'[pa].answer = said'[pa] /\ cache'[pa].left \in 1..TtlFor(said'[pa])
    BY <1>9 DEF CacheIsLastAnswer
  <2>1. CASE pa = <<p, a>>
    BY <1>3, <1>4, <1>5, <1>8, <2>1
  <2>2. CASE pa # <<p, a>>
    <3>1. cache[pa].answer = said[pa] /\ cache[pa].left \in 1..TtlFor(said[pa])
      BY <1>7, <1>9, <2>2 DEF CacheInv, CacheIsLastAnswer
    <3>2. QED BY <1>7, <2>2, <3>1
  <2>3. QED BY <2>1, <2>2
<1>11. \A q \in Configured : <<q, a>> \in Configured \X Addresses /\ (q # p => <<q, a>> # <<p, a>>)
  BY <1>3
<1>12. \A q \in fetching' : cache'[<<q, Target'>>].answer = Miss
  <2> TAKE q \in fetching'
  <2>1. q \in fetching /\ q # p /\ q \in Configured
    BY <1>1 DEF TypeInv, LookupTypes
  <2>2. cache[<<q, a>>].answer = Miss
    BY <2>1 DEF CacheInv, a
  <2>3. QED BY <1>1, <1>7, <1>11, <2>1, <2>2 DEF a
<1>13. \A q \in Configured : Heeded(q)'
  <2> TAKE q \in Configured
  <2>1. CASE q = p
    <3>1. cache'[<<p, a>>].answer \in {Miss, answer}
      BY <1>4, <1>5, <1>8
    <3>2. QED BY <1>1, <2>1, <3>1 DEF Heeded, a
  <2>2. CASE q # p
    <3>1. cache[<<q, a>>].answer \in {Miss, NoOpinion} \cup verdicts
      BY <1>1 DEF CacheInv, Heeded, a
    <3>2. cache'[<<q, a>>] = cache[<<q, a>>]
      BY <1>7, <1>11, <2>2
    <3>3. QED BY <1>1, <3>1, <3>2 DEF Heeded, a
  <2>3. QED BY <2>1, <2>2
<1>14. (pc' \notin {"get", "fetch"} => fetching' = {}) /\ (pc' # "get" => asking' = 1) /\ pc' # "get"
  BY <1>1 DEF CacheInv
<1>15. QED BY <1>10, <1>12, <1>13, <1>14 DEF CacheInv

LEMMA FetchFailsHeeds ==
  ASSUME TypeInv, CacheInv, NEW p \in Configured, FetchFails(p)
  PROVE  CacheInv'
<1>1. /\ Target' = Target /\ cache' = cache /\ said' = said /\ verdicts' = verdicts
      /\ asking' = asking /\ fetching' = fetching \ {p} /\ pc = "fetch"
      /\ pc' = (IF fetching = {p} THEN "record" ELSE "fetch")
  BY DEF FetchFails, Fetched, Goto, Target, Item, providers
<1>2. CacheIsLastAnswer'
  BY <1>1 DEF CacheInv, CacheIsLastAnswer
<1>3. \A q \in fetching' : cache'[<<q, Target'>>].answer = Miss
  BY <1>1 DEF CacheInv
<1>4. \A q \in Configured : Heeded(q)'
  BY <1>1 DEF CacheInv, Heeded
<1>5. (pc' \notin {"get", "fetch"} => fetching' = {}) /\ (pc' # "get" => asking' = 1) /\ pc' # "get"
  BY <1>1 DEF CacheInv
<1>6. QED BY <1>2, <1>3, <1>4, <1>5 DEF CacheInv

\* Before a lookup and behind it nothing is gathered.
LEMMA OutOfLookup ==
  ASSUME CacheInv, cache' = cache, said' = said, fetching' = {}, asking' = 1,
         pc' \notin {"fetch", "record"}
  PROVE  CacheInv'
<1>1. CacheIsLastAnswer'
  BY DEF CacheInv, CacheIsLastAnswer
<1>2. 1..(asking' - 1) = {}
  OBVIOUS
<1>3. QED BY <1>1, <1>2 DEF CacheInv

\* What other actors do leaves a lookup as it is.
LEMMA OthersKeepLookup ==
  ASSUME TypeInv, CacheInv, [Next]_vars,
         UNCHANGED <<cache, said, verdicts, fetching, asking, pc>>
  PROVE  CacheInv'
<1>1. CacheIsLastAnswer'
  BY DEF CacheInv, CacheIsLastAnswer
<1>2. CASE pc \in InLookup
  <2>1. Target' = Target
    BY <1>2, StaysAtLine DEF Target
  <2>2. \A q : Heeded(q) => Heeded(q)'
    BY <2>1 DEF Heeded
  <2>3. QED BY <1>1, <2>1, <2>2 DEF CacheInv
<1>3. CASE pc \notin InLookup
  <2>1. fetching' = {} /\ asking' = 1 /\ pc' \notin {"fetch", "record"}
    BY <1>3 DEF CacheInv, InLookup
  <2>2. QED BY <2>1, OutOfLookup
<1>4. QED BY <1>2, <1>3

LEMMA TickHeeds ==
  ASSUME TypeInv, CacheInv, Tick
  PROVE  CacheInv'
<1> DEFINE Entry == [answer : AnyAnswer \cup {Miss}, left : Nat]
<1>1. /\ Target' = Target
      /\ UNCHANGED <<said, verdicts, fetching, asking, pc>>
      /\ cache' = [pa \in Configured \X Addresses |-> Older(cache[pa])]
      /\ \A pa \in Configured \X Addresses : cache[pa] \in Entry
      /\ DOMAIN cache = Configured \X Addresses
  BY DEF Tick, TypeInv, AnswerTypes, providers, lookup, tailVars, Target, Item
<1>2. \A entry \in Entry : \/ Older(entry).answer = Miss
                           \/ /\ Older(entry).answer = entry.answer
                              /\ Older(entry).left = entry.left - 1 /\ entry.left > 1
  BY DEF Older
<1> HIDE DEF Entry
<1>3. \A pa \in Configured \X Addresses :
        \/ cache'[pa].answer = Miss
        \/ /\ cache'[pa].answer = cache[pa].answer
           /\ cache'[pa].left = cache[pa].left - 1 /\ cache[pa].left > 1
  BY <1>1, <1>2
<1>4. CacheIsLastAnswer'
  <2> SUFFICES ASSUME NEW pa \in Configured \X Addresses, cache'[pa].answer # Miss
               PROVE  cache'[pa].answer = said[pa] /\ cache'[pa].left \in 1..TtlFor(said[pa])
    BY <1>1 DEF CacheIsLastAnswer
  <2>1. cache[pa].answer = said[pa] /\ cache[pa].left \in 1..TtlFor(said[pa])
    BY <1>1, <1>3 DEF CacheInv, CacheIsLastAnswer
  <2>2. TtlFor(said[pa]) \in Nat
    BY TtlIsNat
  <2>3. QED BY <1>3, <2>1, <2>2
<1>5. CASE pc \in {"get", "fetch", "record"}
  <2>1. Target \in Addresses
    BY <1>5, TargetIsAddress
  <2>2. \A q \in Configured : cache'[<<q, Target>>].answer \in {Miss, cache[<<q, Target>>].answer}
    BY <1>3, <2>1
  <2>3. \A q \in Configured : Heeded(q) => Heeded(q)'
    BY <1>1, <2>2 DEF Heeded
  <2>4. \A q \in fetching' : cache'[<<q, Target'>>].answer = Miss
    BY <1>1, <2>2 DEF CacheInv, TypeInv, LookupTypes
  <2>5. pc = "get" => \A n \in 1..(asking - 1) : Clients[n] \in Configured
    BY DaemonAssumption, LenProperties DEF TypeInv, LookupTypes, Configured
  <2>6. QED BY <1>1, <1>4, <2>3, <2>4, <2>5 DEF CacheInv
<1>6. CASE pc \notin {"get", "fetch", "record"}
  BY <1>1, <1>4, <1>6 DEF CacheInv
<1>7. QED BY <1>5, <1>6

LEMMA CacheStep == TypeInv /\ CacheInv /\ [Next]_vars => CacheInv'
<1> SUFFICES ASSUME TypeInv, CacheInv, [Next]_vars PROVE CacheInv'
  OBVIOUS
<1>1. CASE \/ World /\ UNCHANGED <<providers, cache, bus, lookups, pc, lookup>>
           \/ ChangeOpinion \/ TailMoves \/ UNCHANGED vars
  <2>1. UNCHANGED <<cache, said, verdicts, fetching, asking, pc>>
    BY <1>1 DEF ChangeOpinion, TailMoves, vars, providers, lookup
  <2>2. QED BY <2>1, OthersKeepLookup
<1>2. CASE Tick
  BY <1>2, TickHeeds
<1>3. CASE TakeItem
  <2>1. /\ cache' = cache /\ said' = said /\ fetching' = {} /\ asking' = 1
        /\ pc' \in {"next", "get"}
    BY <1>3 DEF TakeItem, CacheInv, providers, lookup, Goto
  <2>2. QED BY <2>1, OutOfLookup
<1>4. CASE CacheGet
  BY <1>4, CacheGetHeeds
<1>5. CASE \E p \in Configured : Fetch(p) \/ FetchFails(p)
  BY <1>5, FetchHeeds, FetchFailsHeeds
<1>6. CASE Conclude \/ Claim \/ Add
  <2>1. /\ cache' = cache /\ said' = said /\ fetching' = {} /\ asking' = 1
        /\ pc' \in {"next", "claim", "add"}
    BY <1>6 DEF Conclude, Claim, Add, CacheInv, providers, NextItem, Goto
  <2>2. QED BY <2>1, OutOfLookup
<1>7. CASE Dies \/ Returns \/ Restart
  <2>1. /\ cache' = cache /\ said' = said /\ fetching' = {} /\ asking' = 1
        /\ pc' \in {"next", "down"}
    BY <1>7 DEF Dies, Returns, Restart, Exit, CacheInv, providers, lookup, Goto
  <2>2. QED BY <2>1, OutOfLookup
<1>8. QED BY <1>1, <1>2, <1>3, <1>4, <1>5, <1>6, <1>7 DEF Next, Environment, Handle

LEMMA CacheKept == Spec => []CacheInv
  BY CacheInit, CacheStep, Typed, PTL DEF Spec

\* An entry of the cache is the last answer of its provider about the address
\* and no older than an answer of its kind may be, through every timeout, failed
\* write and crash (_fetch_and_cache, _ttl_for).
THEOREM CacheHoldsAnswers == Spec => []CacheIsLastAnswer
<1>1. CacheInv => CacheIsLastAnswer
  BY DEF CacheInv
<1>2. QED BY <1>1, CacheKept, PTL

\* When the verdicts are complete they hold every one the cache has of the
\* address, whichever providers failed and whatever expired in the meantime
\* (lookup_ip).
THEOREM DecisionHeedsCache == Spec => []HeedsCache
<1>1. CacheInv => HeedsCache
  BY DEF CacheInv, HeedsCache, Heeded
<1>2. QED BY <1>1, CacheKept, PTL

-----------------------------------------------------------------------------
(* The events                                                               *)

\* An event has a life its key has had; at the XADD that life has no event yet.
EventInv ==
  /\ OncePerKeyLife
  /\ \A n \in DOMAIN events : events[n].epoch <= epoch[events[n].key]
  /\ pc = "add" =>
       \A n \in DOMAIN events :
         events[n].key = Key(Item) => events[n].epoch < epoch[Key(Item)]

LEMMA EventTypes ==
  ASSUME TypeInv
  PROVE  /\ DOMAIN events = 1..Len(events) /\ Len(events) \in Nat
         /\ \A n \in 1..Len(events) :
              /\ events[n].key \in EventKey /\ events[n].epoch \in Nat
              /\ events[n].verdicts \subseteq Verdicts
<1> DEFINE Event == [key : EventKey, epoch : Nat, verdicts : SUBSET Verdicts]
<1>1. events \in Seq(Event)
  BY DEF TypeInv, BusTypes
<1>2. \A event \in Event :
        event.key \in EventKey /\ event.epoch \in Nat /\ event.verdicts \subseteq Verdicts
  OBVIOUS
<1> HIDE DEF Event
<1>3. QED BY <1>1, <1>2, ElementOfSeq, LenProperties

LEMMA ClaimOpensLife ==
  ASSUME TypeInv, EventInv, Claim
  PROVE  EventInv'
<1> DEFINE k == Key(Item)
<1>1. events' = events /\ k \in EventKey
  BY TargetIsAddress DEF Claim
<1>2. CASE Taken(k)
  BY <1>1, <1>2 DEF Claim, NextItem, Goto, EventInv, OncePerKeyLife
<1>3. CASE ~Taken(k)
  <2>1. ~(keys[k] > 0) /\ pc' = "add" /\ Key(Item)' = k
    BY <1>3 DEF Claim, Taken, Goto, Key, Item
  <2>2. epoch' = [epoch EXCEPT ![k] = epoch[k] + 1]
    <3>1. epoch' = [epoch EXCEPT ![k] = IF keys[k] > 0 THEN epoch[k] ELSE epoch[k] + 1]
      BY <1>3, Zenon DEF Claim
    <3>2. QED BY <2>1, <3>1
  <2>3. /\ epoch \in [EventKey -> Nat] /\ DOMAIN events = 1..Len(events)
        /\ \A n \in DOMAIN events : events[n].key \in EventKey /\ events[n].epoch \in Nat
    BY EventTypes DEF TypeInv, BusTypes
  <2> HIDE DEF k
  <2>4. \A n \in DOMAIN events : events[n].epoch <= epoch'[events[n].key]
    BY <1>1, <2>2, <2>3 DEF EventInv
  <2>5. \A n \in DOMAIN events : events[n].key = k => events[n].epoch < epoch'[k]
    BY <1>1, <2>2, <2>3 DEF EventInv
  <2>6. QED BY <1>1, <2>1, <2>4, <2>5 DEF EventInv, OncePerKeyLife
<1>4. QED BY <1>2, <1>3

LEMMA AddFillsLife ==
  ASSUME TypeInv, EventInv, Add
  PROVE  EventInv'
<1> DEFINE k    == Key(Item)
           last == Len(events) + 1
<1>1. /\ last \in Nat /\ DOMAIN events = 1..Len(events) /\ DOMAIN events' = 1..last
      /\ Len(events) \in Nat
      /\ \A n \in 1..Len(events) : events'[n] = events[n]
      /\ events'[last].key = k /\ events'[last].epoch = epoch[k]
  BY AddAppends, LenProperties DEF TypeInv, BusTypes
<1>2. /\ \A n \in 1..Len(events) : events[n].epoch \in Nat /\ events[n].key \in EventKey
      /\ k \in EventKey /\ epoch[k] \in Nat
  BY EventTypes, TargetIsAddress DEF TypeInv, BusTypes, Add
<1>3. epoch' = epoch /\ pc' = "next"
  BY DEF Add, NextItem, Goto
<1>4. \A n \in 1..Len(events) : events[n].key = k => events[n].epoch < epoch[k]
  BY <1>1 DEF EventInv, Add
<1> HIDE DEF k, last
<1>5. \A n \in 1..last : n = last \/ n \in 1..Len(events)
  BY <1>1 DEF last
<1>6. OncePerKeyLife'
  <2> SUFFICES ASSUME NEW m \in 1..last, NEW n \in 1..last,
                      events'[m].key = events'[n].key, events'[m].epoch = events'[n].epoch
               PROVE  m = n
    BY <1>1 DEF OncePerKeyLife
  <2>1. CASE m = last /\ n = last
    BY <2>1
  <2>2. CASE m = last /\ n \in 1..Len(events)
    BY <1>1, <1>2, <1>4, <2>2
  <2>3. CASE m \in 1..Len(events) /\ n = last
    BY <1>1, <1>2, <1>4, <2>3
  <2>4. CASE m \in 1..Len(events) /\ n \in 1..Len(events)
    BY <1>1, <2>4 DEF EventInv, OncePerKeyLife
  <2>5. QED BY <1>5, <2>1, <2>2, <2>3, <2>4
<1>7. \A n \in 1..last : events'[n].epoch <= epoch[events'[n].key]
  BY <1>1, <1>2, <1>5 DEF EventInv
<1>8. QED BY <1>1, <1>3, <1>6, <1>7 DEF EventInv

LEMMA EventStep == TypeInv /\ EventInv /\ [Next]_vars => EventInv'
<1> SUFFICES ASSUME TypeInv, EventInv, [Next]_vars PROVE EventInv'
  OBVIOUS
<1>1. CASE Claim
  BY <1>1, ClaimOpensLife
<1>2. CASE Add
  BY <1>2, AddFillsLife
<1>3. CASE ~Claim /\ ~Add
  <2>1. UNCHANGED <<epoch, events>> /\ (pc' = "add" => pc = "add")
    <3>1. CASE Environment \/ TailMoves \/ UNCHANGED vars
      BY <3>1 DEF vars, bus, Environment, ChangeOpinion, Tick, TailMoves
    <3>2. CASE Handle
      BY <1>3, <3>2 DEF Handle, TakeItem, CacheGet, Conclude, Fetch, FetchFails, Fetched, NextItem,
                        Goto, bus
    <3>3. CASE Dies \/ Returns \/ Restart
      BY <3>3 DEF Dies, Returns, Restart, Exit, Goto, bus
    <3>4. QED BY <3>1, <3>2, <3>3 DEF Next
  <2>2. pc' = "add" => Key(Item)' = Key(Item)
    BY <2>1, StaysAtLine DEF InLookup, Key
  <2>3. QED BY <2>1, <2>2 DEF EventInv, OncePerKeyLife
<1>4. QED BY <1>1, <1>2, <1>3

\* While the idempotency key of a flow and its address lives, they are published
\* at most once, wherever the process dies and however often the line is seen
\* (publish).
THEOREM OneEventPerKey == Spec => []OncePerKeyLife
<1>1. Init => EventInv
  BY EmptySeq DEF Init, EventInv, OncePerKeyLife
<1>2. EventInv => OncePerKeyLife
  BY DEF EventInv
<1>3. QED BY <1>1, <1>2, EventStep, Typed, PTL DEF Spec

-----------------------------------------------------------------------------
(* The record of lookups                                                    *)

Behind  == UNION {{<<events[n].key[2], v>> : v \in events[n].verdicts} : n \in DOMAIN events}
InHand  == IF pc \in {"claim", "add"} THEN Recorded ELSE {}
Lacking == (Behind \cup InHand) \ lookups

\* The rows of an event in the making count from the decision on.
RowInv == IsFiniteSet(Lacking) /\ Cardinality(Lacking) <= faults

LEMMA NoMoreLacking ==
  ASSUME TypeInv, RowInv, Lacking' \subseteq Lacking,
         faults' = faults \/ faults' = faults + 1
  PROVE  RowInv'
<1>1. IsFiniteSet(Lacking') /\ Cardinality(Lacking') <= Cardinality(Lacking)
  BY FS_Subset DEF RowInv
<1>2. Cardinality(Lacking) \in Nat /\ Cardinality(Lacking') \in Nat /\ faults \in Nat
  BY <1>1, FS_CardinalityType, TailAssumption DEF RowInv, TypeInv, TailTypeOK
<1>3. QED BY <1>1, <1>2 DEF RowInv

\* One failed insertion, one row.
LEMMA ConcludeLacks ==
  ASSUME TypeInv, RowInv, Conclude
  PROVE  RowInv'
<1>1. /\ Behind' = Behind /\ InHand = {}
  BY DEF Conclude, bus, Behind, InHand
<1>2. InHand' \subseteq Recorded
  <2>1. CASE pc' = "claim"
    <3>1. UNCHANGED <<log, hand, verdicts>>
      BY <2>1 DEF Conclude, NextItem, Goto
    <3>2. Recorded' = Recorded
      BY <3>1 DEF Recorded, Target, Item
    <3>3. QED BY <2>1, <3>2 DEF InHand
  <2>2. CASE pc' = "next"
    BY <2>2 DEF InHand
  <2>3. QED BY <2>1, <2>2 DEF Conclude, NextItem, Goto
<1>3. CASE lookups' = lookups \cup Recorded /\ UNCHANGED faults
  BY <1>1, <1>2, <1>3, NoMoreLacking DEF Lacking
<1>4. CASE \E v \in verdicts : lookups' = lookups \cup RecordedBut(v) /\ faults' = faults + 1
  <2>1. PICK v \in verdicts : lookups' = lookups \cup RecordedBut(v) /\ faults' = faults + 1
    BY <1>4
  <2> DEFINE more == Lacking \cup {<<Target, v>>}
  <2>2. Lacking' \subseteq more
    BY <1>1, <1>2, <2>1 DEF Lacking, RecordedBut
  <2>3. IsFiniteSet(more) /\ Cardinality(more) <= Cardinality(Lacking) + 1
    <3>1. IsFiniteSet(Lacking) /\ Cardinality(Lacking) \in Nat
      BY FS_CardinalityType DEF RowInv
    <3>2. /\ IsFiniteSet(more)
          /\ Cardinality(more) = Cardinality(Lacking) \/ Cardinality(more) = Cardinality(Lacking) + 1
      BY <3>1, FS_AddElement
    <3> HIDE DEF more
    <3>3. QED BY <3>1, <3>2
  <2> HIDE DEF more
  <2>4. IsFiniteSet(Lacking') /\ Cardinality(Lacking') <= Cardinality(more)
    BY <2>2, <2>3, FS_Subset
  <2>5. /\ Cardinality(Lacking) \in Nat /\ Cardinality(Lacking') \in Nat
        /\ Cardinality(more) \in Nat /\ faults \in Nat
    BY <2>3, <2>4, FS_CardinalityType, TailAssumption DEF RowInv, TypeInv, TailTypeOK
  <2>6. QED BY <2>1, <2>3, <2>4, <2>5 DEF RowInv
<1>5. QED BY <1>3, <1>4 DEF Conclude

LEMMA AddLacksNone ==
  ASSUME TypeInv, RowInv, Add
  PROVE  RowInv'
<1>1. InHand = Recorded /\ InHand' = {} /\ lookups' = lookups /\ faults' = faults
  BY DEF Add, NextItem, Goto, InHand
<1>2. Behind' \subseteq Behind \cup Recorded
  <2> SUFFICES ASSUME NEW n \in DOMAIN events', NEW v \in events'[n].verdicts
               PROVE  <<events'[n].key[2], v>> \in Behind \cup Recorded
    BY DEF Behind
  <2>1. /\ DOMAIN events = 1..Len(events) /\ DOMAIN events' = 1..(Len(events) + 1)
        /\ Len(events) \in Nat
        /\ \A m \in 1..Len(events) : events'[m] = events[m]
        /\ events'[Len(events) + 1].key = Key(Item)
        /\ events'[Len(events) + 1].verdicts = verdicts
    BY AddAppends, LenProperties DEF TypeInv, BusTypes
  <2>2. CASE n \in 1..Len(events)
    BY <2>1, <2>2 DEF Behind
  <2>3. CASE n = Len(events) + 1
    <3>1. events'[n].key[2] = Target /\ v \in verdicts
      BY <2>1, <2>3 DEF Key, Target
    <3>2. QED BY <3>1 DEF Recorded
  <2>4. QED BY <2>1, <2>2, <2>3
<1>3. Lacking' \subseteq Lacking
  BY <1>1, <1>2 DEF Lacking
<1>4. QED BY <1>1, <1>3, NoMoreLacking

LEMMA RowStep == TypeInv /\ RowInv /\ [Next]_vars => RowInv'
<1> SUFFICES ASSUME TypeInv, RowInv, [Next]_vars PROVE RowInv'
  OBVIOUS
<1>1. CASE Conclude
  BY <1>1, ConcludeLacks
<1>2. CASE Add
  BY <1>2, AddLacksNone
<1>3. CASE ~Conclude /\ ~Add
  <2>1. /\ UNCHANGED <<events, lookups>>
        /\ pc' \in {"claim", "add"} => pc \in {"claim", "add"} /\ verdicts' = verdicts
        /\ faults' = faults \/ faults' = faults + 1
    <3>1. CASE World /\ UNCHANGED <<providers, cache, bus, lookups, pc, lookup>>
      BY <3>1 DEF bus, lookup, World, WriteLine, RemoteCloses, Close, LinkDrops
    <3>2. CASE TailMoves
      BY <3>2 DEF TailMoves, TailStep, Connect, StartTail, ReadLine, Quiet, Resume, EndOfFile,
                  BackoffEnds, bus, lookup
    <3>3. CASE ChangeOpinion \/ Tick \/ UNCHANGED vars
      BY <3>3 DEF ChangeOpinion, Tick, vars, tailVars, bus, lookup
    <3>4. CASE Handle
      BY <1>3, <3>4 DEF Handle, TakeItem, CacheGet, Claim, Fetch, FetchFails, Fetched, NextItem,
                        Goto, bus, lookup, tailVars
    <3>5. CASE Dies \/ Returns \/ Restart
      BY <3>5 DEF Dies, Returns, Restart, Exit, Goto, bus, lookup
    <3>6. QED BY <3>1, <3>2, <3>3, <3>4, <3>5 DEF Next, Environment
  <2>2. InHand' \subseteq InHand
    <3>1. CASE pc' \in {"claim", "add"}
      <4>1. Target' = Target /\ verdicts' = verdicts /\ pc \in {"claim", "add"}
        BY <2>1, <3>1, StaysAtLine DEF InLookup, Target
      <4>2. Recorded' = Recorded
        BY <4>1 DEF Recorded
      <4>3. QED BY <3>1, <4>1, <4>2 DEF InHand
    <3>2. CASE pc' \notin {"claim", "add"}
      BY <3>2 DEF InHand
    <3>3. QED BY <3>1, <3>2
  <2>3. Lacking' \subseteq Lacking
    BY <2>1, <2>2 DEF Lacking, Behind
  <2>4. QED BY <2>1, <2>3, NoMoreLacking
<1>4. QED BY <1>1, <1>2, <1>3

\* The published events have their rows in threat_lookups, but for one for each
\* failure: an insertion that fails takes no other with it (_record_lookup).
THEOREM RowsBehindEvents == Spec => []RowPerFailure
<1>1. Init => RowInv
  <2> SUFFICES ASSUME Init PROVE RowInv
    OBVIOUS
  <2>1. Lacking = {} /\ faults = 0
    BY EmptySeq DEF Init, TailInit, Lacking, Behind, InHand
  <2>2. QED BY <2>1, FS_EmptySet DEF RowInv
<1>2. TypeInv /\ RowInv => RowPerFailure
  <2> SUFFICES ASSUME TypeInv, RowInv PROVE Cardinality(Behind \ lookups) <= faults
    BY DEF RowPerFailure, Behind
  <2>1. /\ IsFiniteSet(Behind \ lookups)
        /\ Cardinality(Behind \ lookups) <= Cardinality(Lacking)
    <3>1. Behind \ lookups \subseteq Lacking
      BY DEF Lacking
    <3>2. QED BY <3>1, FS_Subset DEF RowInv
  <2>2. /\ Cardinality(Behind \ lookups) \in Nat /\ Cardinality(Lacking) \in Nat
        /\ faults \in Nat
    BY <2>1, FS_CardinalityType, TailAssumption DEF RowInv, TypeInv, TailTypeOK
  <2>3. QED BY <2>1, <2>2 DEF RowInv
<1>3. QED BY <1>1, <1>2, RowStep, Typed, PTL DEF Spec
=============================================================================
