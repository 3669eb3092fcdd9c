---------------------------- MODULE ThreatDaemon ----------------------------
(***************************************************************************)
(* The threat daemon (services/threat_daemon): it tails the syslog          *)
(* (LogTail), looks up the destination of every line with the providers     *)
(* through the cache (core/threat/aggregator.py, cache.py), decides         *)
(* (ThreatVerdicts) and publishes the flow of a bad one once for the life   *)
(* of an idempotency key.                                                   *)
(*                                                                         *)
(* One daemon, as deployed, with the cache and the bus in Redis, which      *)
(* survive it.  A line is [flow, dst]: the fields of its 5-tuple as they    *)
(* are written, None when the parser finds no event, and its destination,   *)
(* None when it has no address.  Time passes in ticks of the times to live, *)
(* which are hours; a cache entry and a key know what is left of them.      *)
(***************************************************************************)
EXTENDS LogTail, ThreatVerdicts

CONSTANTS
  Addresses,  \* destinations
  Flows,      \* 5-tuples
  Clients,    \* the configured providers, in the order of the aggregator
  Responses,  \* what a provider may respond, by provider
  KeyTtl,     \* EVENT_TTL_SECONDS, in ticks
  MaxChanges, \* bound on the changes of mind of the providers
  None,       \* no event, no address
  Miss        \* _MISS

ASSUME DaemonAssumption ==
  /\ Clients \in Seq(Providers) /\ Clients # <<>>
  /\ \A m, n \in DOMAIN Clients : Clients[m] = Clients[n] => m = n
  /\ KeyTtl \in Nat \ {0} /\ MaxChanges \in Nat
  /\ Lines \subseteq [flow : Flows \cup {None}, dst : Addresses \cup {None}]
  /\ None \notin Addresses \cup Flows

Configured == {Clients[n] : n \in DOMAIN Clients}

VARIABLES
  opinion,  \* what a provider would respond now about an address
  changes,  \* how often one has changed
  said,     \* the last answer each client returned about an address
  cache,    \* scopilot:threat:<provider>:<address>: an answer and what is left
  keys,     \* scopilot:idem:threat:*: what is left of the key, 0 without one
  epoch,    \* how many lives the key has had
  events,   \* published: the key, its epoch and the verdicts in the payload
  lookups,  \* threat_lookups rows: address and verdict
  pc,       \* where run_daemon is
  asking,   \* which client's cache entry is next
  fetching, \* providers that have been asked and have not answered
  verdicts  \* what the lookup has gathered

providers == <<opinion, changes, said>>
bus       == <<keys, epoch, events>>
lookup    == <<asking, fetching, verdicts>>
vars      == <<tailVars, providers, cache, bus, lookups, pc, lookup>>

Daemon == {"next", "get", "fetch", "record", "claim", "add", "down"}

Key(line)  == <<line.flow, line.dst>>
EventKey   == Flows \X Addresses
Item       == log[hand]
Target     == Item.dst

Init ==
  /\ TailInit
  /\ opinion  \in {o \in [Configured \X Addresses -> UNION {Responses[p] : p \in Configured}] :
                     \A p \in Configured, a \in Addresses : o[<<p, a>>] \in Responses[p]}
  /\ changes  = 0
  /\ said     = [pa \in Configured \X Addresses |-> None]
  /\ cache    = [pa \in Configured \X Addresses |-> [answer |-> Miss, left |-> 0]]
  /\ keys     = [k \in EventKey |-> 0]
  /\ epoch    = [k \in EventKey |-> 0]
  /\ events   = <<>>
  /\ lookups  = {}
  /\ pc       = "next"
  /\ asking   = 1
  /\ fetching = {}
  /\ verdicts = {}

Goto(label) == pc' = label

-----------------------------------------------------------------------------
(* lookup_ip                                                                *)

\* The verdict of an entry, if it is one.
CachedIgnored(entry) == {}
Cached(entry) == IF entry.answer \in {Miss, NoOpinion} THEN {} ELSE {entry.answer}

\* The clients' entries are read one after the other.
CacheGet ==
  /\ pc = "get"
  /\ LET p     == Clients[asking]
         entry == cache[<<p, Target>>]
     IN  /\ verdicts' = verdicts \cup Cached(entry)
         /\ fetching' = IF entry.answer = Miss THEN fetching \cup {p} ELSE fetching
         /\ IF asking < Len(Clients)
            THEN asking' = asking + 1 /\ UNCHANGED pc
            ELSE asking' = 1 /\ Goto(IF fetching' = {} THEN "record" ELSE "fetch")
  /\ UNCHANGED <<tailVars, providers, cache, bus, lookups>>

CacheSet(p, answer) ==
  cache' = [cache EXCEPT ![<<p, Target>>] = [answer |-> answer, left |-> TtlFor(answer)]]

\* One of the gathered calls is over; with the last one gather() returns.
Fetched(p) ==
  /\ fetching' = fetching \ {p}
  /\ Goto(IF fetching = {p} THEN "record" ELSE "fetch")

\* The client answers in time, and the answer, None as well, is cached; a
\* failure of the cache is swallowed.
Fetch(p) ==
  /\ pc = "fetch" /\ p \in fetching
  /\ ~Raises(p, opinion[<<p, Target>>])
  /\ LET answer == Answer(p, opinion[<<p, Target>>])
     IN  /\ said'     = [said EXCEPT ![<<p, Target>>] = answer]
         /\ verdicts' = IF answer = NoOpinion THEN verdicts ELSE verdicts \cup {answer}
         /\ \/ CacheSet(p, answer) /\ UNCHANGED faults
            \/ /\ CanFail("set")
               /\ faults' = faults + 1
               /\ UNCHANGED cache
  /\ Fetched(p)
  /\ UNCHANGED <<log, link, connection, backoff, stop, hand, got, opinion, changes, bus,
                 lookups, asking>>

\* It raises, or wait_for() gives up on it: None, and nothing is cached.
FetchFailsCached(p) ==
  /\ pc = "fetch" /\ p \in fetching
  /\ \/ Raises(p, opinion[<<p, Target>>]) /\ UNCHANGED faults
     \/ CanFail("timeout") /\ faults' = faults + 1
  /\ CacheSet(p, NoOpinion)
  /\ Fetched(p)
  /\ UNCHANGED <<log, link, connection, backoff, stop, hand, got, providers, bus,
                 lookups, asking, verdicts>>

FetchFailsRetried(p) ==
  /\ pc = "fetch" /\ p \in fetching
  /\ Raises(p, opinion[<<p, Target>>])
  /\ UNCHANGED vars

FetchFails(p) ==
  /\ pc = "fetch" /\ p \in fetching
  /\ \/ Raises(p, opinion[<<p, Target>>]) /\ UNCHANGED faults
     \/ CanFail("timeout") /\ faults' = faults + 1
  /\ Fetched(p)
  /\ UNCHANGED <<log, link, connection, backoff, stop, hand, got, providers, cache, bus,
                 lookups, asking, verdicts>>

Recorded        == {<<Target, v>> : v \in verdicts}
RecordedNone(v) == {}
RecordedBut(v)  == Recorded \ {<<Target, v>>}

\* The item is done with; the tail may go on.
NextItem ==
  /\ Goto("next")
  /\ hand'     = Nothing
  /\ verdicts' = {}

\* Every verdict, fresh or cached, is inserted in a session of its own, whose
\* failure is swallowed; then _decide.
Conclude ==
  /\ pc = "record"
  /\ \/ lookups' = lookups \cup Recorded /\ UNCHANGED faults
     \/ /\ CanFail("db")
        /\ \E v \in verdicts : lookups' = lookups \cup RecordedBut(v)
        /\ faults' = faults + 1
  /\ IF IsMalicious(verdicts)
     THEN Goto("claim") /\ UNCHANGED <<hand, verdicts>>
     ELSE NextItem
  /\ UNCHANGED <<log, link, connection, backoff, stop, got, providers, cache, bus, asking,
                 fetching>>

-----------------------------------------------------------------------------
(* run_daemon                                                               *)

\* Markers, lines that do not parse and lines without a destination are skipped.
Skips(item) ==
  IF item = Heartbeat THEN TRUE ELSE log[item].flow = None \/ log[item].dst = None

TakeItem ==
  /\ pc = "next" /\ hand # Nothing
  /\ IF Skips(hand) THEN hand' = Nothing /\ UNCHANGED pc
     ELSE Goto("get") /\ UNCHANGED hand
  /\ UNCHANGED <<log, link, connection, backoff, stop, got, faults, providers, cache, bus,
                 lookups, lookup>>

TakenNever(k) == FALSE
Taken(k)      == keys[k] > 0

\* publish(), SET NX with a time to live.
Claim ==
  /\ pc = "claim"
  /\ LET k == Key(Item)
     IN  IF Taken(k)
         THEN NextItem /\ UNCHANGED <<keys, epoch>>
         ELSE /\ keys'  = [keys EXCEPT ![k] = KeyTtl]
              /\ epoch' = [epoch EXCEPT ![k] = IF keys[k] > 0 THEN @ ELSE @ + 1]
              /\ Goto("add")
              /\ UNCHANGED <<hand, verdicts>>
  /\ UNCHANGED <<log, link, connection, backoff, stop, got, faults, providers, cache,
                 events, lookups, asking, fetching>>

\* publish(), XADD.
Add ==
  /\ pc = "add"
  /\ events' = Append(events, [key |-> Key(Item), epoch |-> epoch[Key(Item)],
                               verdicts |-> verdicts])
  /\ NextItem
  /\ UNCHANGED <<log, link, connection, backoff, stop, got, faults, providers, cache,
                 keys, epoch, lookups, asking, fetching>>

\* The process is gone, and its tail with it.
Exit ==
  /\ Goto("down")
  /\ link'     = "ended"
  /\ hand'     = Nothing
  /\ asking'   = 1
  /\ fetching' = {}
  /\ verdicts' = {}

\* An exception of the cache or the bus leaves run_daemon and ends the process,
\* and so does a crash.  Between the two commands of publish() the key stays.
Dies ==
  /\ \/ pc \in {"get", "claim"} /\ CanFail("redis")
     \/ pc \in {"next", "get", "fetch", "record", "claim"} /\ CanFail("crash")
     \/ pc = "add" /\ CanFail("lost_add")
  /\ Exit
  /\ faults' = faults + 1
  /\ UNCHANGED <<log, connection, backoff, stop, got, providers, cache, bus, lookups>>

\* tail() is over and run_daemon returns.
Returns ==
  /\ pc = "next" /\ link = "ended" /\ hand = Nothing
  /\ Exit
  /\ UNCHANGED <<log, connection, backoff, stop, got, faults, providers, cache, bus,
                 lookups>>

\* The container is started again, with a tail of its own.
Restart ==
  /\ pc = "down"
  /\ Goto("next")
  /\ link'    = "loop"
  /\ backoff' = BackoffInitial
  /\ stop'    = FALSE
  /\ UNCHANGED <<log, connection, hand, got, faults, providers, cache, bus, lookups, lookup>>

-----------------------------------------------------------------------------
\* A provider learns something about an address.
ChangeOpinion ==
  /\ changes < MaxChanges
  /\ \E p \in Configured, a \in Addresses : \E r \in Responses[p] \ {opinion[<<p, a>>]} :
       opinion' = [opinion EXCEPT ![<<p, a>>] = r]
  /\ changes' = changes + 1
  /\ UNCHANGED <<tailVars, said, cache, bus, lookups, pc, lookup>>

Older(entry) ==
  IF entry.left <= 1 THEN [answer |-> Miss, left |-> 0]
  ELSE [entry EXCEPT !.left = @ - 1]

\* Time passes: what has come to the end of its time to live is gone.
Tick ==
  /\ cache' = [pa \in DOMAIN cache |-> Older(cache[pa])]
  /\ keys'  = [k \in EventKey |-> IF keys[k] = 0 THEN 0 ELSE keys[k] - 1]
  /\ <<cache', keys'>> # <<cache, keys>>
  /\ UNCHANGED <<tailVars, providers, epoch, events, lookups, pc, lookup>>

TailMoves ==
  /\ pc = "next" /\ TailStep
  /\ UNCHANGED <<providers, cache, bus, lookups, pc, lookup>>

Environment ==
  \/ World /\ UNCHANGED <<providers, cache, bus, lookups, pc, lookup>>
  \/ ChangeOpinion
  \/ Tick

Handle ==
  \/ TakeItem \/ CacheGet \/ Conclude \/ Claim \/ Add
  \/ \E p \in Configured : Fetch(p) \/ FetchFails(p)

Next == Environment \/ TailMoves \/ Handle \/ Dies \/ Returns \/ Restart

Spec == Init /\ [][Next]_vars

\* Coroutines that can go on do, calls of providers end within their timeout,
\* and a container that has ended is started again.
Fairness == WF_vars(TailMoves) /\ WF_vars(Handle) /\ WF_vars(Returns) /\ WF_vars(Restart)

FairSpec == Spec /\ Fairness

-----------------------------------------------------------------------------
(* What the daemon promises                                                 *)

Answers(p) == {Answer(p, r) : r \in {q \in Responses[p] : ~Raises(p, q)}}
Verdicts   == (UNION {Answers(p) : p \in Configured}) \ {NoOpinion}

\* Every variable has its type.
TypeOK ==
  /\ TailTypeOK
  /\ pc \in Daemon
  /\ asking \in DOMAIN Clients /\ fetching \subseteq Configured
  /\ verdicts \subseteq Verdicts
  /\ lookups \subseteq Addresses \X Verdicts
  /\ \A p \in Configured, a \in Addresses :
       /\ opinion[<<p, a>>] \in Responses[p]
       /\ said[<<p, a>>] \in Answers(p) \cup {None}
       /\ cache[<<p, a>>].answer \in Answers(p) \cup {Miss}
  /\ changes \in 0..MaxChanges
  /\ keys \in [EventKey -> 0..KeyTtl]
  /\ epoch \in [EventKey -> Nat]
  /\ events \in Seq([key : EventKey, epoch : Nat, verdicts : SUBSET Verdicts])

\* What the cache holds is the last thing its provider said of the address, for
\* no longer than its kind may live: neither a call that timed out or raised
\* nor one overtaken by another leaves an entry.
CacheIsLastAnswer ==
  \A pa \in DOMAIN cache :
    cache[pa].answer # Miss =>
      cache[pa].answer = said[pa] /\ cache[pa].left \in 1..TtlFor(said[pa])

\* When it decides, the aggregator has every verdict the cache still holds of
\* the address: a bad verdict counts until it expires, whoever fails meanwhile.
HeedsCache ==
  pc = "record" =>
    \A p \in Configured :
      cache[<<p, Target>>].answer \in {Miss, NoOpinion} \cup verdicts

\* While a key lives, its flow is published once, however often the line is seen
\* and the daemon is started again.
OncePerKeyLife ==
  \A m, n \in DOMAIN events :
    events[m].key = events[n].key /\ events[m].epoch = events[n].epoch => m = n

\* The record of lookups lacks no more of the verdicts behind the published
\* events than there were failures: a failed insertion costs its own row only.
RowPerFailure ==
  LET behind == UNION {{<<events[n].key[2], v>> : v \in events[n].verdicts} : n \in DOMAIN events}
  IN  Cardinality(behind \ lookups) <= faults

\* However the link fails, in the end the tail stays attached to a pipe that is
\* open.
Reattaches == <>[](link \in {"reading", "yielded"} /\ shut = Nothing)

\* A tail that is told to stop ends, on a quiet link as well.
StopEnds == stop ~> (link = "ended" \/ ~stop)

\* The daemon gets to the end of every line.
LinesHandled == \A n \in 1..MaxLines : hand = n ~> hand # n
==============================================================================
