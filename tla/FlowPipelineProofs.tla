------------------------- MODULE FlowPipelineProofs -------------------------
(* Theorems about FlowPipeline, for every value of its constants.           *)
EXTENDS FlowPipeline, SequenceTheorems, TLAPS

-----------------------------------------------------------------------------
(* Type correctness                                                         *)

\* The local variables a label uses are set.
LocalsOK ==
  /\ \A s \in Schedulers : spc[s] = "add" <=> current[s] # None
  /\ \A s \in Schedulers : current[s] # None => current[s] \in todo[s]
  /\ \A w \in Workers : wpc[w] \in {"handle", "announce", "ack"} <=> batch[w] # <<>>
  /\ \A w \in Workers : \A i \in DOMAIN batch[w] : batch[w][i] \in Entries
  /\ \A w \in Workers : wpc[w] \notin {"start", "down"} => delivered # None

TypeInv == TypeOK /\ LocalsOK

LEMMA TypeInit == Init => TypeInv
<1> SUFFICES ASSUME Init PROVE TypeInv
  OBVIOUS
<1> USE BoundsAssumption, FaultsAssumption, NoneAssumption
<1>1. TypeOK
  BY DEF Init, TypeOK, Time, NoCursor, Scheduler, Worker
<1>2. LocalsOK
  BY DEF Init, LocalsOK
<1>3. QED BY <1>1, <1>2 DEF TypeInv

LEMMA HeadIsEntry ==
  ASSUME TypeInv, NEW w \in Workers, batch[w] # <<>>
  PROVE  /\ Head(batch[w]) \in Entries
         /\ FlowOf(Head(batch[w])) \in Flows
         /\ Len(batch[w]) \in Nat \ {0}
<1>1. batch[w] \in Seq(Nat) /\ Len(batch[w]) \in Nat \ {0} /\ 1 \in DOMAIN batch[w]
  BY EmptySeq, LenProperties DEF TypeInv, TypeOK
<1>2. Head(batch[w]) = batch[w][1]
  BY <1>1
<1>3. Head(batch[w]) \in Entries
  BY <1>1, <1>2 DEF TypeInv, LocalsOK
<1>4. stream[Head(batch[w])] \in Flows \X Time
  BY <1>3, ElementOfSeq DEF TypeInv, TypeOK, Entries
<1>5. QED BY <1>1, <1>3, <1>4 DEF FlowOf

\* NextEvent takes the head off a batch and goes where the rest says.
LEMMA NextEventType ==
  ASSUME TypeInv, NEW w \in Workers, batch[w] # <<>>, NextEvent(w), UNCHANGED stream
  PROVE  /\ \A v \in Workers : wpc[v] \in {"start", "down"} <=> wpc'[v] \in {"start", "down"}
         /\ batch' \in [Workers -> Seq(Nat)] /\ wpc' \in [Workers -> Worker]
         /\ \A v \in Workers : wpc'[v] \in {"handle", "announce", "ack"} <=> batch'[v] # <<>>
         /\ \A v \in Workers : \A i \in DOMAIN batch'[v] : batch'[v][i] \in Entries'
<1>1. batch[w] \in Seq(Nat) /\ Len(batch[w]) \in Nat \ {0}
  BY HeadIsEntry DEF TypeInv, TypeOK
<1>2. Tail(batch[w]) \in Seq(Nat) /\ Len(Tail(batch[w])) = Len(batch[w]) - 1
      /\ \A i \in 1..Len(Tail(batch[w])) : Tail(batch[w])[i] = batch[w][i + 1]
  BY <1>1, HeadTailProperties
<1>3. Tail(batch[w]) = <<>> <=> Len(batch[w]) = 1
  <2>1. \A s \in Seq(Nat) : s = <<>> <=> Len(s) = 0
    BY EmptySeq
  <2>2. Tail(batch[w]) = <<>> <=> Len(Tail(batch[w])) = 0
    BY <1>2, <2>1
  <2>3. Len(Tail(batch[w])) = 0 <=> Len(batch[w]) = 1
    BY <1>1, <1>2
  <2>4. QED BY <2>2, <2>3
<1>4. \A i \in DOMAIN Tail(batch[w]) : Tail(batch[w])[i] \in Entries
  <2> TAKE i \in DOMAIN Tail(batch[w])
  <2>1. i \in 1..Len(Tail(batch[w])) /\ DOMAIN batch[w] = 1..Len(batch[w])
    BY <1>1, <1>2, LenProperties
  <2>2. i + 1 \in DOMAIN batch[w]
    BY <2>1, <1>1, <1>2
  <2>3. QED BY <2>1, <2>2, <1>2 DEF TypeInv, LocalsOK
<1>5. /\ batch' = [batch EXCEPT ![w] = Tail(batch[w])]
      /\ wpc' = [wpc EXCEPT ![w] = IF Len(batch[w]) = 1 THEN "consume" ELSE "handle"]
  BY DEF NextEvent, WGoto
<1>6. batch' \in [Workers -> Seq(Nat)] /\ wpc' \in [Workers -> Worker]
  BY <1>2, <1>5 DEF TypeInv, TypeOK, Worker
<1>7. ASSUME NEW v \in Workers
      PROVE  /\ wpc[v] \in {"start", "down"} <=> wpc'[v] \in {"start", "down"}
             /\ wpc'[v] \in {"handle", "announce", "ack"} <=> batch'[v] # <<>>
             /\ \A i \in DOMAIN batch'[v] : batch'[v][i] \in Entries'
  <2>1. CASE v = w
    BY <2>1, <1>3, <1>4, <1>5 DEF TypeInv, TypeOK, LocalsOK, Entries, Worker
  <2>2. CASE v # w
    BY <2>2, <1>5 DEF TypeInv, TypeOK, LocalsOK, Entries
  <2>3. QED BY <2>1, <2>2
<1>8. QED BY <1>6, <1>7

LEMMA EndScanType ==
  ASSUME TypeInv, NEW s \in Schedulers, EndScan(s)
  PROVE  /\ spc' \in [Schedulers -> Scheduler]
         /\ since' \in [Schedulers -> Time] /\ newest' \in [Schedulers -> Time]
         /\ todo' \in [Schedulers -> SUBSET Flows]
         /\ current' \in [Schedulers -> Flows \cup {None}]
         /\ \A t \in Schedulers : spc'[t] = "add" <=> current'[t] # None
         /\ \A t \in Schedulers : current'[t] # None => current'[t] \in todo'[t]
BY BoundsAssumption DEF EndScan, SGoto, TypeInv, TypeOK, LocalsOK, Scheduler, Time, NoCursor

LEMMA TypeIngestion ==
  ASSUME TypeInv, NEW g \in Ingests, BulkInsert(g) \/ CommitRows(g) \/ RollbackRows(g)
  PROVE  TypeInv'
<1> USE BoundsAssumption DEF TypeInv, TypeOK, LocalsOK, Entries, database, bus, scan, worker
<1>1. CASE BulkInsert(g)
  <2>1. PICK now \in {clock, clock + 1} \ {0}, fs \in (SUBSET Flows) \ {{}} :
          /\ now <= MaxTime /\ clock' = now
          /\ staged' = [staged EXCEPT ![g] = [flow : fs, ts : {now}]]
    BY <1>1 DEF BulkInsert
  <2>2. now \in Time
    BY <2>1 DEF Time
  <2>3. [flow : fs, ts : {now}] \subseteq Row
    BY <2>2 DEF Row
  <2>4. staged' \in [Ingests -> SUBSET Row] /\ clock' \in Time
    BY <2>1, <2>2, <2>3
  <2>5. inserts' \in 0..MaxInserts
    BY <1>1 DEF BulkInsert
  <2>6. QED BY <1>1, <2>4, <2>5 DEF BulkInsert
<1>2. CASE CommitRows(g)
  BY <1>2 DEF CommitRows
<1>3. CASE RollbackRows(g)
  BY <1>3 DEF RollbackRows, ingestion
<1>4. QED BY <1>1, <1>2, <1>3

LEMMA TypeScan ==
  ASSUME TypeInv, NEW s \in Schedulers, Scan(s) \/ ScanFails(s)
  PROVE  TypeInv'
<1> USE BoundsAssumption, NoneAssumption
<1>1. CASE ReadCursor(s)
  BY <1>1 DEF ReadCursor, SGoto, TypeInv, TypeOK, LocalsOK, Entries, Scheduler,
              ingestion, database, bus, worker
<1>2. CASE ReadRows(s)
  <2> DEFINE found == ListSince(since[s])
  <2>1. {r.flow : r \in found} \ covered \subseteq Flows
    BY DEF TypeInv, TypeOK, ListSince, Row
  <2>2. current[s] = None
    BY <1>2 DEF ReadRows, TypeInv, LocalsOK
  <2>3. QED
    BY <1>2, <2>1, <2>2 DEF ReadRows, SGoto, TypeInv, TypeOK, LocalsOK, Entries, Scheduler,
              ingestion, database, bus, worker
<1>3. CASE Claim(s)
  <2>1. PICK f \in todo[s] :
          LET k == IdemKey(f, since[s])
          IN  IF Seen(k)
              THEN todo' = [todo EXCEPT ![s] = @ \ {f}] /\ UNCHANGED <<claims, spc, current>>
              ELSE /\ claims' = claims \cup {k} /\ current' = [current EXCEPT ![s] = f]
                   /\ SGoto(s, "add") /\ UNCHANGED todo
    BY <1>3 DEF Claim
  <2>2. f \in Flows /\ f # None /\ IdemKey(f, since[s]) \in Flows \X Time
    BY DEF TypeInv, TypeOK, IdemKey
  <2>3. spc[s] = "publish" /\ current[s] = None
    BY <1>3 DEF Claim, TypeInv, LocalsOK
  <2>4. TypeOK'
    <3>1. claims' \subseteq Flows \X Time
      BY <2>1, <2>2 DEF TypeInv, TypeOK
    <3>2. todo' \in [Schedulers -> SUBSET Flows]
      BY <2>1 DEF TypeInv, TypeOK
    <3>3. /\ current' \in [Schedulers -> Flows \cup {None}]
          /\ spc' \in [Schedulers -> Scheduler]
      <4>1. CASE Seen(IdemKey(f, since[s]))
        BY <2>1, <4>1 DEF TypeInv, TypeOK
      <4>2. CASE ~Seen(IdemKey(f, since[s]))
        <5>1. current' = [current EXCEPT ![s] = f] /\ spc' = [spc EXCEPT ![s] = "add"]
          BY <2>1, <4>2 DEF SGoto
        <5>2. QED BY <2>2, <5>1 DEF TypeInv, TypeOK, Scheduler
      <4>3. QED BY <4>1, <4>2
    <3>4. QED
      BY <1>3, <3>1, <3>2, <3>3 DEF Claim, TypeInv, TypeOK, ingestion, database, worker
  <2>5. LocalsOK'
    <3>1. UNCHANGED <<wpc, batch, stream, delivered>>
      BY <1>3 DEF Claim, worker
    <3>2. \A t \in Schedulers :
            /\ spc'[t] = "add" <=> current'[t] # None
            /\ current'[t] # None => current'[t] \in todo'[t]
      <4>1. CASE Seen(IdemKey(f, since[s]))
        BY <2>1, <2>3, <4>1 DEF TypeInv, TypeOK, LocalsOK
      <4>2. CASE ~Seen(IdemKey(f, since[s]))
        <5>1. /\ current' = [current EXCEPT ![s] = f] /\ spc' = [spc EXCEPT ![s] = "add"]
              /\ UNCHANGED todo
          BY <2>1, <4>2 DEF SGoto
        <5>2. QED BY <2>2, <5>1 DEF TypeInv, TypeOK, LocalsOK
      <4>3. QED BY <4>1, <4>2
    <3>3. QED BY <3>1, <3>2 DEF TypeInv, LocalsOK, Entries
  <2>6. QED BY <2>4, <2>5 DEF TypeInv
<1>4. CASE Add(s)
  <2>1. current[s] \in Flows /\ IdemKey(current[s], since[s]) \in Flows \X Time
    BY <1>4 DEF Add, TypeInv, TypeOK, LocalsOK, IdemKey
  <2>2. stream' \in Seq(Flows \X Time) /\ Len(stream') = Len(stream) + 1 /\ Len(stream) \in Nat
    BY <1>4, <2>1 DEF Add, TypeInv, TypeOK
  <2>3. TypeOK'
    BY <1>4, <2>2 DEF Add, SGoto, TypeInv, TypeOK, Scheduler, ingestion, database, worker
  <2>4. LocalsOK'
    BY <1>4, <2>2 DEF Add, SGoto, TypeInv, TypeOK, LocalsOK, Entries, worker
  <2>5. QED BY <2>3, <2>4 DEF TypeInv
<1>5. CASE SaveCursor(s)
  BY <1>5, EndScanType DEF SaveCursor, TypeInv, TypeOK, LocalsOK, Entries,
              ingestion, database, bus, worker
<1>6. CASE ScanFails(s)
  <2>1. faults' \in 0..MaxFaults
    BY <1>6 DEF ScanFails, CanFail, TypeInv, TypeOK
  <2>2. QED
    BY <1>6, <2>1, EndScanType DEF ScanFails, TypeInv, TypeOK, LocalsOK, Entries,
              ingestion, database, bus, worker
<1>7. QED BY <1>1, <1>2, <1>3, <1>4, <1>5, <1>6 DEF Scan

\* What CountToRead returns: as many as the batch takes, and no more than there are.
LEMMA CountToReadBounds ==
  ASSUME NEW rest \in Nat \ {0}
  PROVE  CountToRead(rest) \in 1..rest
BY BoundsAssumption DEF CountToRead

LEMMA ConsumeType ==
  ASSUME TypeInv, NEW w \in Workers, Consume(w)
  PROVE  TypeInv'
<1> USE NoneAssumption
<1> DEFINE count == CountToRead(Len(stream) - delivered)
           entries == [i \in 1..count |-> delivered + i]
<1>1. Len(stream) \in Nat
  BY DEF TypeInv, TypeOK
<1>2. delivered \in Nat /\ delivered < Len(stream)
  <2>1. delivered < Len(stream) /\ delivered \in 0..Len(stream) \cup {None}
    BY DEF Consume, TypeInv, TypeOK
  <2>2. delivered # None
    BY DEF Consume, TypeInv, LocalsOK
  <2>3. QED BY <1>1, <2>1, <2>2
<1>3. count \in 1..(Len(stream) - delivered)
  BY <1>1, <1>2, CountToReadBounds
<1> HIDE DEF count
<1>4. entries \in Seq(Nat) /\ DOMAIN entries = 1..count /\ entries # <<>>
  <2>1. count \in Nat /\ 1 \in 1..count
    BY <1>1, <1>2, <1>3
  <2>2. entries \in [1..count -> Nat] /\ 1 \in DOMAIN entries
    BY <1>2, <2>1
  <2>3. entries \in Seq(Nat)
    BY <2>1, <2>2, SeqDef
  <2>4. entries # <<>>
    BY <2>2, EmptySeq
  <2>5. QED BY <2>2, <2>3, <2>4
<1>5. \A i \in DOMAIN entries : entries[i] \in Entries
  BY <1>1, <1>2, <1>3 DEF Entries
<1> HIDE DEF entries
<1>6. /\ batch' = [batch EXCEPT ![w] = entries]
      /\ pending' = pending \cup (delivered + 1)..(delivered + count)
      /\ delivered' = delivered + count
      /\ wpc' = [wpc EXCEPT ![w] = "handle"]
      /\ UNCHANGED <<ingestion, database, cursor, claims, stream, scan, announced, faults>>
  BY DEF Consume, WGoto, count, entries
<1>7. /\ delivered' \in 0..Len(stream) /\ delivered' # None
      /\ pending' \subseteq 1..Len(stream)
  BY <1>1, <1>2, <1>3, <1>6 DEF TypeInv, TypeOK
<1>8. batch' \in [Workers -> Seq(Nat)] /\ wpc' \in [Workers -> Worker]
  BY <1>4, <1>6 DEF TypeInv, TypeOK, Worker
<1>9. TypeOK'
  BY <1>6, <1>7, <1>8 DEF TypeInv, TypeOK, ingestion, database, scan
<1>10. LocalsOK'
  BY <1>4, <1>5, <1>6, <1>7 DEF TypeInv, TypeOK, LocalsOK, Entries, scan
<1>11. QED BY <1>9, <1>10 DEF TypeInv

LEMMA TypeWork ==
  ASSUME TypeInv, NEW w \in Workers, Work(w) \/ HandlerFails(w) \/ WorkerCrash(w)
  PROVE  TypeInv'
<1>1. CASE EnsureGroup(w)
  <2>1. delivered' \in 0..Len(stream) /\ delivered' # None
    BY <1>1, NoneAssumption DEF EnsureGroup, GroupStart, TypeInv, TypeOK
  <2>2. QED
    BY <1>1, <2>1 DEF EnsureGroup, WGoto, TypeInv, TypeOK, LocalsOK, Entries, Worker,
                      ingestion, database, scan
<1>2. CASE Consume(w)
  BY <1>2, ConsumeType
<1>3. CASE Propose(w)
  <2>1. batch[w] # <<>>
    BY <1>3 DEF Propose, TypeInv, LocalsOK
  <2>2. FlowOf(Head(batch[w])) \in Flows
    BY <2>1, HeadIsEntry
  <2>3. PICK label \in {"ack", "announce"} : wpc' = [wpc EXCEPT ![w] = label]
    BY <1>3 DEF Propose, WGoto
  <2>4. proposals' \subseteq Flows
    BY <1>3, <2>2 DEF Propose, TypeInv, TypeOK
  <2>5. QED
    BY <1>3, <2>1, <2>3, <2>4 DEF Propose, TypeInv, TypeOK, LocalsOK, Entries, Worker,
                                  ingestion, bus, scan
<1>4. CASE Announce(w)
  <2>1. batch[w] # <<>>
    BY <1>4 DEF Announce, TypeInv, LocalsOK
  <2>2. FlowOf(Head(batch[w])) \in Flows
    BY <2>1, HeadIsEntry
  <2>3. QED
    BY <1>4, <2>1, <2>2 DEF Announce, WGoto, TypeInv, TypeOK, LocalsOK, Entries, Worker,
                            ingestion, database, bus, scan
<1>5. CASE Ack(w)
  <2>1. batch[w] # <<>> /\ NextEvent(w) /\ UNCHANGED stream
    BY <1>5 DEF Ack, TypeInv, LocalsOK
  <2>2. pending' \subseteq pending
    BY <1>5 DEF Ack
  <2>3. QED
    BY <1>5, <2>1, <2>2, NextEventType
    DEF Ack, TypeInv, TypeOK, LocalsOK, ingestion, database, scan
<1>6. CASE HandlerFails(w)
  <2>1. batch[w] # <<>> /\ NextEvent(w) /\ UNCHANGED stream
    BY <1>6 DEF HandlerFails, TypeInv, LocalsOK, bus
  <2>2. faults' \in 0..MaxFaults
    BY <1>6, BoundsAssumption DEF HandlerFails, CanFail, TypeInv, TypeOK
  <2>3. QED
    BY <1>6, <2>1, <2>2, NextEventType
    DEF HandlerFails, TypeInv, TypeOK, LocalsOK, ingestion, database, bus, scan
<1>7. CASE WorkerCrash(w)
  <2>1. faults' \in 0..MaxFaults
    BY <1>7, BoundsAssumption DEF WorkerCrash, CanFail, TypeInv, TypeOK
  <2>2. QED
    BY <1>7, <2>1 DEF WorkerCrash, WGoto, TypeInv, TypeOK, LocalsOK, Entries, Worker,
                      ingestion, database, bus, scan
<1>8. CASE Restart(w)
  BY <1>8 DEF Restart, WGoto, TypeInv, TypeOK, LocalsOK, Entries, Worker,
              ingestion, database, bus, scan
<1>9. QED BY <1>1, <1>2, <1>3, <1>4, <1>5, <1>6, <1>7, <1>8 DEF Work

LEMMA TypeNext == TypeInv /\ [Next]_vars => TypeInv'
<1> SUFFICES ASSUME TypeInv, [Next]_vars PROVE TypeInv'
  OBVIOUS
<1>1. ASSUME NEW f \in Flows, Approve(f) PROVE TypeInv'
  BY <1>1 DEF Approve, TypeInv, TypeOK, LocalsOK, Entries, ingestion, bus, scan, worker
<1>2. CASE LoseCursor
  <2>1. cursor' \in Time /\ faults' \in 0..MaxFaults
    BY <1>2, BoundsAssumption DEF LoseCursor, CanFail, TypeInv, TypeOK, Time, NoCursor
  <2>2. QED
    BY <1>2, <2>1 DEF LoseCursor, TypeInv, TypeOK, LocalsOK, Entries, ingestion, database,
                      bus, scan, worker
<1>3. CASE UNCHANGED vars
  BY <1>3 DEF vars, TypeInv, TypeOK, LocalsOK, Entries, ingestion, database, bus, scan, worker
<1>4. QED BY <1>1, <1>2, <1>3, TypeIngestion, TypeScan, TypeWork DEF Next

LEMMA TypeInvariant == Spec => []TypeInv
BY TypeInit, TypeNext, PTL DEF Spec

\* The type invariant: clocks, cursors and scan times stay in range, the group
\* never reads past the stream and only what was handed out is pending.
THEOREM PipelineTypes == Spec => []TypeOK
<1>1. TypeInv => TypeOK
  BY DEF TypeInv
<1>2. QED BY <1>1, TypeInvariant, PTL

-----------------------------------------------------------------------------
(* One event per flow and window                                            *)

Key(s) == IdemKey(current[s], since[s])

\* A scheduler about to XADD has a claim no entry and no other scheduler has.
KeysInv ==
  /\ \A n \in Entries : stream[n] \in claims
  /\ \A s \in Schedulers : spc[s] = "add" =>
       Key(s) \in claims /\ \A n \in Entries : stream[n] # Key(s)
  /\ \A s, t \in Schedulers :
       spc[s] = "add" /\ spc[t] = "add" /\ s # t => Key(s) # Key(t)
  /\ OncePerWindow

LEMMA KeysInit == Init => KeysInv
BY DEF Init, KeysInv, OncePerWindow, Entries

\* A step that claims nothing and adds nothing disturbs no key, as long as who
\* is about to add was so before, with the same key.
LEMMA KeysKept ==
  ASSUME KeysInv, UNCHANGED <<claims, stream>>,
         \A s \in Schedulers : spc'[s] = "add" =>
           spc[s] = "add" /\ current'[s] = current[s] /\ since'[s] = since[s]
  PROVE  KeysInv'
BY DEF KeysInv, Key, IdemKey, OncePerWindow, Entries

LEMMA KeysClaim ==
  ASSUME TypeInv, KeysInv, NEW s \in Schedulers, Claim(s)
  PROVE  KeysInv'
<1> DEFINE k(f) == IdemKey(f, since[s])
<1>1. PICK f \in todo[s] :
        \/ Seen(k(f)) /\ UNCHANGED <<claims, spc, current>>
        \/ /\ ~Seen(k(f)) /\ claims' = claims \cup {k(f)}
           /\ current' = [current EXCEPT ![s] = f] /\ spc' = [spc EXCEPT ![s] = "add"]
  BY DEF Claim, SGoto
<1>2. UNCHANGED <<stream, since>>
  BY DEF Claim
<1>3. CASE UNCHANGED <<claims, spc, current>>
  BY <1>2, <1>3, KeysKept
<1>4. CASE /\ ~Seen(k(f)) /\ claims' = claims \cup {k(f)}
           /\ current' = [current EXCEPT ![s] = f] /\ spc' = [spc EXCEPT ![s] = "add"]
  <2>1. k(f) \notin claims
    BY <1>4 DEF Seen
  <2>2. Key(s)' = k(f) /\ \A t \in Schedulers : t # s => Key(t)' = Key(t) /\ spc'[t] = spc[t]
    BY <1>2, <1>4 DEF Key, TypeInv, TypeOK
  <2>3. \A n \in Entries : stream[n] \in claims /\ stream[n] # k(f)
    BY <2>1 DEF KeysInv
  <2>4. \A t \in Schedulers : spc'[t] = "add" =>
          Key(t)' \in claims' /\ \A n \in Entries' : stream'[n] # Key(t)'
    BY <1>2, <1>4, <2>2, <2>3 DEF KeysInv, Entries
  <2>5. \A t, u \in Schedulers :
          spc'[t] = "add" /\ spc'[u] = "add" /\ t # u => Key(t)' # Key(u)'
    BY <2>1, <2>2 DEF KeysInv
  <2>6. QED
    BY <1>2, <1>4, <2>3, <2>4, <2>5 DEF KeysInv, OncePerWindow, Entries
<1>5. QED BY <1>1, <1>3, <1>4

LEMMA KeysAdd ==
  ASSUME TypeInv, KeysInv, NEW s \in Schedulers, Add(s)
  PROVE  KeysInv'
<1>1. /\ spc[s] = "add" /\ stream' = Append(stream, Key(s))
      /\ spc' = [spc EXCEPT ![s] = "publish"] /\ current' = [current EXCEPT ![s] = None]
      /\ UNCHANGED <<claims, since>>
  BY DEF Add, SGoto, Key
<1>2. \A t \in Schedulers : spc'[t] = "add" =>
        t # s /\ spc[t] = "add" /\ Key(t)' = Key(t)
  BY <1>1 DEF Key, TypeInv, TypeOK
<1> DEFINE last == Len(stream) + 1
<1>3. /\ Entries' = Entries \cup {last} /\ last \notin Entries
      /\ \A n \in Entries : stream'[n] = stream[n]
      /\ stream'[last] = Key(s)
  <2>1. stream \in Seq(Flows \X Time)
    BY DEF TypeInv, TypeOK
  <2>2. Key(s) \in Flows \X Time
    BY <1>1 DEF Key, IdemKey, TypeInv, TypeOK, LocalsOK
  <2>3. QED BY <1>1, <2>1, <2>2, AppendProperties DEF Entries
<1> HIDE DEF last
<1>4. Key(s) \in claims /\ \A n \in Entries : stream[n] # Key(s)
  BY <1>1 DEF KeysInv
<1>5. \A n \in Entries' : stream'[n] \in claims'
  BY <1>1, <1>3, <1>4 DEF KeysInv
<1>6. ASSUME NEW t \in Schedulers, spc'[t] = "add"
      PROVE  Key(t)' \in claims' /\ \A n \in Entries' : stream'[n] # Key(t)'
  <2>1. t # s /\ spc[t] = "add" /\ Key(t)' = Key(t)
    BY <1>2, <1>6
  <2>2. /\ Key(t) \in claims /\ Key(t) # Key(s)
        /\ \A n \in Entries : stream[n] # Key(t)
    BY <1>1, <2>1 DEF KeysInv
  <2>3. QED BY <1>1, <1>3, <2>1, <2>2
<1>7. OncePerWindow'
  BY <1>3, <1>4 DEF KeysInv, OncePerWindow
<1>8. \A t, u \in Schedulers :
        spc'[t] = "add" /\ spc'[u] = "add" /\ t # u => Key(t)' # Key(u)'
  BY <1>2 DEF KeysInv
<1>9. QED BY <1>5, <1>6, <1>7, <1>8 DEF KeysInv

LEMMA KeysNext == TypeInv /\ KeysInv /\ [Next]_vars => KeysInv'
<1> SUFFICES ASSUME TypeInv, KeysInv, [Next]_vars PROVE KeysInv'
  OBVIOUS
<1>1. ASSUME NEW s \in Schedulers, Scan(s) \/ ScanFails(s) PROVE KeysInv'
  <2>1. CASE ReadCursor(s)
    BY <2>1, KeysKept DEF ReadCursor, SGoto, bus, TypeInv, TypeOK
  <2>2. CASE ReadRows(s)
    BY <2>2, KeysKept DEF ReadRows, SGoto, bus, TypeInv, TypeOK
  <2>3. CASE EndScan(s) /\ UNCHANGED bus
    BY <2>3, KeysKept DEF EndScan, SGoto, bus, TypeInv, TypeOK
  <2>4. QED
    BY <1>1, <2>1, <2>2, <2>3, KeysClaim, KeysAdd DEF Scan, SaveCursor, ScanFails
<1>2. CASE UNCHANGED <<claims, stream, scan>>
  BY <1>2, KeysKept DEF scan
<1>3. ASSUME NEW g \in Ingests, BulkInsert(g) \/ CommitRows(g) \/ RollbackRows(g)
      PROVE  UNCHANGED <<claims, stream, scan>>
  BY <1>3 DEF BulkInsert, CommitRows, RollbackRows, bus
<1>4. ASSUME NEW w \in Workers, Work(w) \/ HandlerFails(w) \/ WorkerCrash(w)
      PROVE  UNCHANGED <<claims, stream, scan>>
  BY <1>4 DEF Work, EnsureGroup, Consume, Propose, Announce, Ack, Restart, HandlerFails,
              WorkerCrash, bus
<1>5. ASSUME (\E f \in Flows : Approve(f)) \/ LoseCursor \/ UNCHANGED vars
      PROVE  UNCHANGED <<claims, stream, scan>>
  BY <1>5 DEF Approve, LoseCursor, vars, bus
<1>6. QED BY <1>1, <1>2, <1>3, <1>4, <1>5 DEF Next

\* Whatever fails and however many schedulers scan at once, the stream holds
\* one event for a flow and a window.
THEOREM PublishedOnce == Spec => []OncePerWindow
<1>1. KeysInv => OncePerWindow
  BY DEF KeysInv
<1>2. QED BY <1>1, KeysInit, KeysNext, TypeInvariant, PTL DEF Spec

-----------------------------------------------------------------------------
(* Acknowledged means proposed                                              *)

\* There is a group, and who has got as far as the card has a proposal.
AckInv ==
  /\ delivered # None
  /\ \A w \in Workers :
       wpc[w] \in {"announce", "ack"} => FlowOf(Head(batch[w])) \in proposals
  /\ AckedIsProposed

LEMMA AckInit == GroupFirst /\ Init => AckInv
BY NoneAssumption DEF Init, AckInv, AckedIsProposed, Entries

\* What an Append leaves alone.
LEMMA AddKeepsEntries ==
  ASSUME TypeInv, NEW s \in Schedulers, Add(s)
  PROVE  /\ Entries' = Entries \cup {Len(stream) + 1} /\ Entries \subseteq Nat
         /\ \A n \in Entries : FlowOf(n)' = FlowOf(n)
         /\ \A n \in {Len(stream) + 1} : FlowOf(n)' = current[s]
         /\ Len(stream) \in Nat /\ Len(stream) + 1 \notin Entries
<1>1. /\ spc[s] = "add" /\ current[s] \in Flows
      /\ stream' = Append(stream, <<current[s], since[s]>>)
  BY DEF Add, IdemKey, TypeInv, TypeOK, LocalsOK
<1>2. stream \in Seq(Flows \X Time) /\ <<current[s], since[s]>> \in Flows \X Time
  BY <1>1 DEF TypeInv, TypeOK
<1>3. /\ stream' \in Seq(Flows \X Time) /\ Len(stream') = Len(stream) + 1
      /\ \A n \in 1..Len(stream) : stream'[n] = stream[n]
      /\ stream'[Len(stream) + 1] = <<current[s], since[s]>>
      /\ Len(stream) \in Nat
  BY <1>1, <1>2, AppendProperties
<1>4. Entries' = Entries \cup {Len(stream) + 1} /\ Entries \subseteq Nat
  BY <1>3 DEF Entries
<1>5. \A n \in Entries : FlowOf(n)' = FlowOf(n)
  BY <1>3 DEF Entries, FlowOf
<1>6. \A n \in {Len(stream) + 1} : FlowOf(n)' = current[s]
  BY <1>3 DEF FlowOf
<1>7. QED BY <1>3, <1>4, <1>5, <1>6 DEF Entries

LEMMA ConsumeHandsOut ==
  ASSUME TypeInv, NEW w \in Workers, Consume(w)
  PROVE  /\ delivered \in Nat /\ delivered' \in Nat /\ delivered' # None
         /\ pending \subseteq pending'
         /\ \A n \in Entries : delivered < n /\ n <= delivered' => n \in pending'
<1>1. delivered \in Nat /\ delivered < Len(stream) /\ Len(stream) \in Nat
  <2>1. delivered # None /\ delivered < Len(stream)
    BY DEF Consume, TypeInv, LocalsOK
  <2>2. Len(stream) \in Nat /\ delivered \in 0..Len(stream) \cup {None}
    BY DEF TypeInv, TypeOK
  <2>3. QED BY <2>1, <2>2
<1>2. PICK count \in Nat :
        pending' = pending \cup (delivered + 1)..(delivered + count)
        /\ delivered' = delivered + count
  <2>1. CountToRead(Len(stream) - delivered) \in Nat
    BY <1>1, CountToReadBounds
  <2>2. QED BY <2>1 DEF Consume
<1>3. \A n \in Nat : delivered < n /\ n <= delivered' => n \in pending'
  BY <1>1, <1>2
<1>4. QED BY <1>1, <1>2, <1>3, NoneAssumption DEF Entries

LEMMA AckScan ==
  ASSUME TypeInv, AckInv, NEW s \in Schedulers, Scan(s) \/ ScanFails(s)
  PROVE  AckInv'
<1>1. CASE Add(s)
  <2>1. \A w \in Workers : wpc[w] \in {"announce", "ack"} => Head(batch[w]) \in Entries
    BY HeadIsEntry DEF TypeInv, LocalsOK
  <2>2. UNCHANGED <<wpc, batch, proposals, pending, delivered>>
    BY <1>1 DEF Add, worker, database
  <2>3. delivered \in 0..Len(stream)
    BY DEF AckInv, TypeInv, TypeOK
  <2>4. \A w \in Workers :
          wpc[w] \in {"announce", "ack"} => FlowOf(Head(batch[w]))' \in proposals
    BY <1>1, <2>1, <2>2, AddKeepsEntries DEF AckInv
  <2>5. \A n \in Entries' : n <= delivered => n \in Entries
    BY <1>1, <2>3, AddKeepsEntries
  <2>6. AckedIsProposed'
    BY <1>1, <2>2, <2>5, AddKeepsEntries DEF AckInv, AckedIsProposed
  <2>7. QED BY <2>2, <2>4, <2>6 DEF AckInv
<1>2. CASE UNCHANGED <<proposals, stream, delivered, pending, wpc, batch>>
  BY <1>2 DEF AckInv, AckedIsProposed, Entries, FlowOf
<1>3. CASE ~Add(s)
  BY <1>2, <1>3 DEF Scan, ReadCursor, ReadRows, Claim, SaveCursor, ScanFails, database, bus, worker
<1>4. QED BY <1>1, <1>3

LEMMA AckWork ==
  ASSUME TypeInv, AckInv, NEW w \in Workers, Work(w) \/ HandlerFails(w) \/ WorkerCrash(w)
  PROVE  AckInv'
<1>1. UNCHANGED stream /\ Entries' = Entries /\ \A n \in Entries : FlowOf(n)' = FlowOf(n)
  BY DEF Work, EnsureGroup, Consume, Propose, Announce, Ack, Restart, HandlerFails,
         WorkerCrash, bus, Entries, FlowOf
<1>2. \A v \in Workers :
        wpc[v] \in {"announce", "ack"} =>
          Head(batch[v]) \in Entries /\ FlowOf(Head(batch[v])) \in proposals
  BY HeadIsEntry DEF AckInv, TypeInv, LocalsOK
<1>3. CASE EnsureGroup(w)
  BY <1>1, <1>3 DEF EnsureGroup, GroupStart, WGoto, AckInv, AckedIsProposed, database, TypeInv,
                    TypeOK, FlowOf
<1>4. CASE Consume(w)
  <2>1. \A v \in Workers :
          wpc'[v] \in {"announce", "ack"} => v # w /\ wpc[v] = wpc'[v] /\ batch'[v] = batch[v]
    BY <1>4 DEF Consume, WGoto, TypeInv, TypeOK
  <2>2. UNCHANGED proposals
    BY <1>4 DEF Consume, database
  <2>3. \A n \in Entries : n <= delivered' /\ n \notin pending' => n <= delivered /\ n \notin pending
    BY <1>4, ConsumeHandsOut DEF Entries
  <2>4. AckedIsProposed'
    BY <1>1, <2>2, <2>3 DEF AckInv, AckedIsProposed
  <2>5. delivered' # None
    BY <1>4, ConsumeHandsOut
  <2>6. QED BY <1>1, <1>2, <2>1, <2>2, <2>4, <2>5 DEF AckInv, FlowOf
<1>5. CASE Propose(w)
  <2>1. proposals' = proposals \cup {FlowOf(Head(batch[w]))} /\ UNCHANGED <<batch, bus>>
    BY <1>5 DEF Propose
  <2>2. \A v \in Workers : v # w => wpc'[v] = wpc[v]
    BY <1>5 DEF Propose, WGoto, TypeInv, TypeOK
  <2>3. QED BY <1>1, <1>2, <2>1, <2>2 DEF AckInv, AckedIsProposed, FlowOf, bus
<1>6. CASE Announce(w)
  BY <1>1, <1>2, <1>6 DEF Announce, WGoto, AckInv, AckedIsProposed, TypeInv, TypeOK, database, bus,
                          FlowOf
<1>7. CASE NextEvent(w) /\ UNCHANGED <<proposals, delivered>> /\ pending' \subseteq pending
           /\ \A n \in pending \ pending' : FlowOf(n) \in proposals
  <2>1. \A v \in Workers :
          wpc'[v] \in {"announce", "ack"} => v # w /\ wpc[v] = wpc'[v] /\ batch'[v] = batch[v]
    BY <1>7 DEF NextEvent, WGoto, TypeInv, TypeOK
  <2>2. AckedIsProposed'
    BY <1>1, <1>7 DEF AckInv, AckedIsProposed
  <2>3. QED BY <1>1, <1>2, <1>7, <2>1, <2>2 DEF AckInv, FlowOf
<1>8. CASE Ack(w)
  <2>1. pending' = pending \ {Head(batch[w])} /\ wpc[w] = "ack"
    BY <1>8 DEF Ack, Acknowledged
  <2>2. QED BY <1>2, <1>7, <1>8, <2>1 DEF Ack, database
<1>9. CASE HandlerFails(w)
  BY <1>7, <1>9 DEF HandlerFails, database, bus
<1>10. CASE WorkerCrash(w) \/ Restart(w)
  <2>1. \A v \in Workers :
          wpc'[v] \in {"announce", "ack"} => wpc[v] = wpc'[v] /\ batch'[v] = batch[v]
    BY <1>10 DEF WorkerCrash, Restart, WGoto, TypeInv, TypeOK
  <2>2. UNCHANGED <<proposals, delivered, pending>>
    BY <1>10 DEF WorkerCrash, Restart, database, bus
  <2>3. QED BY <1>1, <1>2, <2>1, <2>2 DEF AckInv, AckedIsProposed, FlowOf
<1>11. QED BY <1>3, <1>4, <1>5, <1>6, <1>8, <1>9, <1>10 DEF Work

LEMMA AckNext == TypeInv /\ AckInv /\ [Next]_vars => AckInv'
<1> SUFFICES ASSUME TypeInv, AckInv, [Next]_vars PROVE AckInv'
  OBVIOUS
<1>1. CASE UNCHANGED <<proposals, stream, delivered, pending, wpc, batch>>
  BY <1>1 DEF AckInv, AckedIsProposed, Entries, FlowOf
<1>2. ASSUME NEW g \in Ingests, BulkInsert(g) \/ CommitRows(g) \/ RollbackRows(g)
      PROVE  AckInv'
  BY <1>1, <1>2 DEF BulkInsert, CommitRows, RollbackRows, database, bus, worker
<1>3. ASSUME (\E f \in Flows : Approve(f)) \/ LoseCursor \/ UNCHANGED vars
      PROVE  AckInv'
  BY <1>1, <1>3 DEF Approve, LoseCursor, vars, database, bus, worker
<1>4. QED BY <1>2, <1>3, AckScan, AckWork DEF Next

\* Once the group is there before the first event, an event that was handed out
\* and is no longer pending has its proposal, whatever handlers fail.
THEOREM AcknowledgedIsProposed == ASSUME GroupFirst PROVE Spec => []AckedIsProposed
<1>1. Init => AckInv
  BY AckInit
<1>2. AckInv => AckedIsProposed
  BY DEF AckInv
<1>3. QED BY <1>1, <1>2, AckNext, TypeInvariant, PTL DEF Spec

-----------------------------------------------------------------------------
(* Nothing is skipped                                                       *)

\* One ingestion at a time, a group before the first event, and no scheduler
\* lost between its claim and its XADD.
Careful ==
  /\ \A g, h \in Ingests : g = h
  /\ GroupFirst
  /\ "lost_add" \notin Faults

\* No time the scan has seen is ahead of the clock, and what is staged is not
\* behind it.
ClockInv ==
  /\ \A g \in Ingests : \A r \in staged[g] : r.ts = clock
  /\ \A r \in rows : r.ts <= clock
  /\ cursor <= clock
  /\ \A s \in Schedulers : since[s] <= clock /\ newest[s] <= clock

LEMMA ClockInit == Init => ClockInv
BY DEF Init, ClockInv, NoCursor

LEMMA ClockIngestion ==
  ASSUME Careful, TypeInv, ClockInv, NEW g \in Ingests,
         BulkInsert(g) \/ CommitRows(g) \/ RollbackRows(g)
  PROVE  ClockInv'
<1>1. UNCHANGED <<cursor, since, newest>>
  BY DEF BulkInsert, CommitRows, RollbackRows, scan
<1>2. /\ clock \in Nat /\ cursor \in Nat /\ \A r \in rows : r.ts \in Nat
      /\ \A s \in Schedulers : since[s] \in Nat /\ newest[s] \in Nat
  BY BoundsAssumption DEF TypeInv, TypeOK, Time, Row
<1>3. CASE BulkInsert(g)
  <2>1. PICK now \in {clock, clock + 1} \ {0}, fs \in (SUBSET Flows) \ {{}} :
          clock' = now /\ staged' = [staged EXCEPT ![g] = [flow : fs, ts : {now}]]
    BY <1>3 DEF BulkInsert
  <2>2. \A h \in Ingests : \A r \in staged'[h] : r.ts = clock'
    BY <2>1 DEF Careful, TypeInv, TypeOK
  <2>3. now \in Nat /\ clock <= now
    BY <1>2, <2>1
  <2>4. UNCHANGED rows
    BY <1>3 DEF BulkInsert, database
  <2>5. QED BY <1>1, <1>2, <2>1, <2>2, <2>3, <2>4 DEF ClockInv
<1>4. CASE CommitRows(g) \/ RollbackRows(g)
  <2>1. UNCHANGED clock /\ rows' \subseteq rows \cup staged[g]
    BY <1>4 DEF CommitRows, RollbackRows, database
  <2>2. \A h \in Ingests : staged'[h] \subseteq staged[h]
    BY <1>4 DEF CommitRows, RollbackRows, TypeInv, TypeOK
  <2>3. \A r \in rows' : r.ts <= clock
    BY <1>2, <2>1 DEF ClockInv
  <2>4. QED BY <1>1, <2>1, <2>2, <2>3 DEF ClockInv
<1>5. QED BY <1>3, <1>4

LEMMA ClockScan ==
  ASSUME TypeInv, ClockInv, NEW s \in Schedulers, Scan(s) \/ ScanFails(s)
  PROVE  ClockInv'
<1>1. UNCHANGED <<clock, staged, rows>>
  BY DEF Scan, ReadCursor, ReadRows, Claim, Add, SaveCursor, ScanFails, ingestion, database
<1>2. clock \in Nat
  BY BoundsAssumption DEF TypeInv, TypeOK, Time
<1>3. CASE ReadCursor(s)
  BY <1>1, <1>3 DEF ReadCursor, ClockInv, TypeInv, TypeOK
<1>4. CASE ReadRows(s)
  <2>1. PICK t \in Time :
          IsNewest(t, ListSince(since[s]), since[s]) /\ newest' = [newest EXCEPT ![s] = t]
    BY <1>4 DEF ReadRows
  <2>2. t <= clock
    BY <2>1 DEF IsNewest, ListSince, ClockInv
  <2>3. QED BY <1>1, <1>4, <2>1, <2>2 DEF ReadRows, ClockInv, TypeInv, TypeOK
<1>5. CASE Claim(s) \/ Add(s)
  BY <1>1, <1>5 DEF Claim, Add, ClockInv
<1>6. CASE EndScan(s) /\ cursor' \in {cursor, newest[s]}
  <2>1. cursor' <= clock
    BY <1>6 DEF ClockInv
  <2>2. \A t \in Schedulers : since'[t] <= clock /\ newest'[t] <= clock
    BY <1>2, <1>6 DEF EndScan, ClockInv, NoCursor, TypeInv, TypeOK
  <2>3. QED BY <1>1, <2>1, <2>2 DEF ClockInv
<1>7. QED BY <1>3, <1>4, <1>5, <1>6 DEF Scan, SaveCursor, ScanFails

LEMMA ClockNext == Careful /\ TypeInv /\ ClockInv /\ [Next]_vars => ClockInv'
<1> SUFFICES ASSUME Careful, TypeInv, ClockInv, [Next]_vars PROVE ClockInv'
  OBVIOUS
<1>1. CASE UNCHANGED <<ingestion, rows, cursor, scan>>
  BY <1>1 DEF ClockInv, ingestion, scan
<1>2. CASE LoseCursor
  <2>1. clock \in Nat /\ UNCHANGED <<ingestion, rows, scan>> /\ cursor' = 0
    BY <1>2, BoundsAssumption DEF LoseCursor, NoCursor, database, TypeInv, TypeOK, Time
  <2>2. QED BY <2>1 DEF ClockInv, ingestion, scan
<1>3. ASSUME NEW w \in Workers, Work(w) \/ HandlerFails(w) \/ WorkerCrash(w)
      PROVE  UNCHANGED <<ingestion, rows, cursor, scan>>
  BY <1>3 DEF Work, EnsureGroup, Consume, Propose, Announce, Ack, Restart, HandlerFails,
              WorkerCrash, database
<1>4. ASSUME (\E f \in Flows : Approve(f)) \/ UNCHANGED vars
      PROVE  UNCHANGED <<ingestion, rows, cursor, scan>>
  BY <1>4 DEF Approve, vars, database
<1>5. QED BY <1>1, <1>2, <1>3, <1>4, ClockIngestion, ClockScan DEF Next

\* Nothing more has to be done about a flow by a scan.
Safe(f) == f \in covered \cup proposals \/ OnItsWay(f)

\* A flow that is safe stays so, whoever takes a step.
LEMMA SafeScan ==
  ASSUME Careful, TypeInv, AckInv, NEW s \in Schedulers, Scan(s) \/ ScanFails(s),
         NEW f \in Flows, Safe(f)
  PROVE  Safe(f)'
<1>1. UNCHANGED <<covered, proposals, delivered, pending>>
  BY DEF Scan, ReadCursor, ReadRows, Claim, Add, SaveCursor, ScanFails, database, bus
<1>2. CASE Add(s)
  <2>1. delivered \in 0..Len(stream)
    BY DEF AckInv, TypeInv, TypeOK
  <2>2. CASE f \in covered \cup proposals
    BY <1>1, <2>2 DEF Safe
  <2>3. CASE current[s] = f
    <3>1. Len(stream) + 1 \in Entries' /\ delivered < Len(stream) + 1
      BY <1>2, <2>1, AddKeepsEntries
    <3>2. \A n \in {Len(stream) + 1} : FlowOf(n)' = f
      BY <1>2, <2>3, AddKeepsEntries
    <3>3. OnItsWay(f)'
      BY <1>1, <3>1, <3>2 DEF OnItsWay
    <3>4. QED BY <3>3 DEF Safe
  <2>4. CASE \E t \in Schedulers : t # s /\ current[t] = f
    BY <1>2, <2>4 DEF Add, Safe, OnItsWay, TypeInv, TypeOK
  <2>5. CASE \E n \in Entries : FlowOf(n) = f /\ (n \in pending \/ delivered < n)
    <3>1. PICK n \in Entries : FlowOf(n) = f /\ (n \in pending \/ delivered < n)
      BY <2>5
    <3>2. n \in Entries' /\ FlowOf(n)' = f
      BY <1>2, <3>1, AddKeepsEntries
    <3>3. QED BY <1>1, <3>1, <3>2 DEF Safe, OnItsWay
  <2>6. QED BY <2>2, <2>3, <2>4, <2>5 DEF Safe, OnItsWay, AckInv
<1>3. CASE /\ UNCHANGED stream
           /\ \A t \in Schedulers : current[t] # None => current'[t] = current[t]
  BY <1>1, <1>3, NoneAssumption DEF Safe, OnItsWay, Entries, FlowOf
<1>4. CASE ReadCursor(s) \/ ReadRows(s)
  BY <1>3, <1>4 DEF ReadCursor, ReadRows, bus
<1>5. CASE Claim(s)
  <2>1. current[s] = None /\ UNCHANGED stream
    BY <1>5 DEF Claim, TypeInv, LocalsOK
  <2>2. \A t \in Schedulers : t # s => current'[t] = current[t]
    BY <1>5 DEF Claim, TypeInv, TypeOK
  <2>3. QED BY <1>3, <2>1, <2>2
<1>6. CASE SaveCursor(s) \/ ScanFails(s)
  <2>1. current[s] = None
    BY <1>6 DEF SaveCursor, ScanFails, CanFail, Careful, TypeInv, LocalsOK
  <2>2. UNCHANGED stream /\ current' = [current EXCEPT ![s] = None]
    BY <1>6 DEF SaveCursor, ScanFails, EndScan, bus
  <2>3. QED BY <1>3, <2>1, <2>2 DEF TypeInv, TypeOK
<1>7. QED BY <1>2, <1>4, <1>5, <1>6 DEF Scan

LEMMA SafeWork ==
  ASSUME TypeInv, AckInv, NEW w \in Workers, Work(w) \/ HandlerFails(w) \/ WorkerCrash(w),
         NEW f \in Flows, Safe(f)
  PROVE  Safe(f)'
<1>1. UNCHANGED <<stream, current>> /\ proposals \subseteq proposals' /\ covered \subseteq covered'
  BY DEF Work, EnsureGroup, Consume, Propose, Announce, Ack, Restart, HandlerFails,
         WorkerCrash, database, bus, scan
<1>2. Entries' = Entries /\ \A n \in Entries : FlowOf(n)' = FlowOf(n)
  BY <1>1 DEF Entries, FlowOf
<1>3. CASE \A n \in Entries : FlowOf(n) = f /\ (n \in pending \/ delivered < n) =>
             n \in pending' \/ delivered' < n \/ f \in proposals'
  BY <1>1, <1>2, <1>3 DEF Safe, OnItsWay, AckInv
<1>4. CASE Consume(w)
  <2>1. /\ delivered \in Nat /\ delivered' \in Nat /\ pending \subseteq pending'
        /\ \A n \in Entries : delivered < n /\ n <= delivered' => n \in pending'
    BY <1>4, ConsumeHandsOut
  <2>2. \A n \in Entries : n \in Nat
    BY DEF Entries
  <2>3. QED BY <1>3, <2>1, <2>2
<1>5. CASE Ack(w)
  <2>1. FlowOf(Head(batch[w])) \in proposals
    BY <1>5 DEF Ack, AckInv
  <2>2. UNCHANGED <<proposals, delivered>> /\ pending' = pending \ {Head(batch[w])}
    BY <1>5 DEF Ack, Acknowledged, database
  <2>3. QED BY <1>3, <2>1, <2>2
<1>6. CASE UNCHANGED <<delivered, pending>>
  BY <1>3, <1>6
<1>7. CASE EnsureGroup(w) \/ Propose(w) \/ Announce(w) \/ Restart(w) \/ HandlerFails(w)
           \/ WorkerCrash(w)
  BY <1>6, <1>7 DEF EnsureGroup, GroupStart, AckInv, Propose, Announce, Restart, HandlerFails,
                    WorkerCrash, bus
<1>8. QED BY <1>4, <1>5, <1>7 DEF Work

LEMMA SafeStays ==
  ASSUME Careful, TypeInv, AckInv, [Next]_vars
  PROVE  \A f \in Flows : Safe(f) => Safe(f)'
<1> SUFFICES ASSUME NEW f \in Flows, Safe(f) PROVE Safe(f)'
  OBVIOUS
<1>1. CASE UNCHANGED <<proposals, bus, current>> /\ covered \subseteq covered'
  BY <1>1 DEF Safe, OnItsWay, Entries, FlowOf, bus
<1>2. ASSUME NEW g \in Ingests, BulkInsert(g) \/ CommitRows(g) \/ RollbackRows(g)
      PROVE  Safe(f)'
  BY <1>1, <1>2 DEF BulkInsert, CommitRows, RollbackRows, database, scan
<1>3. ASSUME (\E h \in Flows : Approve(h)) \/ LoseCursor \/ UNCHANGED vars
      PROVE  Safe(f)'
  BY <1>1, <1>3 DEF Approve, LoseCursor, vars, database, scan
<1>4. QED BY <1>2, <1>3, SafeScan, SafeWork DEF Next

\* What a scan leaves behind its times is safe: behind the cursor, behind the
\* cursor it started from, and, but for what it has yet to publish, behind the
\* newest row it read.  So is the flow of every claim.
SkipInv ==
  /\ NothingSkipped
  /\ \A s \in Schedulers : \A r \in rows : r.ts < since[s] => Safe(r.flow)
  /\ \A s \in Schedulers : \A r \in rows :
       r.ts < newest[s] => Safe(r.flow) \/ r.flow \in todo[s]
  /\ \A k \in claims : Safe(k[1])

LEMMA SkipInit == Init => SkipInv
BY DEF Init, SkipInv, NothingSkipped

LEMMA RowAndClaimTypes ==
  ASSUME TypeInv
  PROVE  /\ \A r \in rows : r.flow \in Flows /\ r.ts \in Nat
         /\ \A k \in claims : k[1] \in Flows
         /\ \A s \in Schedulers : since[s] \in Nat /\ newest[s] \in Nat /\ todo[s] \subseteq Flows
BY BoundsAssumption DEF TypeInv, TypeOK, Row, Time

\* A step that leaves the scans and the rows alone.
LEMMA SkipKept ==
  ASSUME TypeInv, SkipInv, \A f \in Flows : Safe(f) => Safe(f)',
         UNCHANGED <<rows, claims, scan>>, cursor' \in {cursor, NoCursor}
  PROVE  SkipInv'
<1>1. NothingSkipped'
  <2>1. \A r \in rows : r.ts < cursor' => r.ts < cursor
    BY RowAndClaimTypes DEF NoCursor
  <2>2. QED BY <2>1, RowAndClaimTypes DEF SkipInv, NothingSkipped, Safe
<1>2. QED BY <1>1, RowAndClaimTypes DEF SkipInv, scan

\* A row is committed with the time of the clock, which no scan is ahead of.
LEMMA SkipIngestion ==
  ASSUME TypeInv, ClockInv, SkipInv, \A f \in Flows : Safe(f) => Safe(f)',
         NEW g \in Ingests, BulkInsert(g) \/ CommitRows(g) \/ RollbackRows(g)
  PROVE  SkipInv'
<1>1. CASE CommitRows(g)
  <2>1. rows' = rows \cup staged[g] /\ UNCHANGED <<claims, cursor, scan>>
    BY <1>1 DEF CommitRows, bus
  <2>2. clock \in Nat /\ cursor \in Nat
    BY BoundsAssumption DEF TypeInv, TypeOK, Time
  <2>3. \A r \in rows' : r \in rows \/ (~(r.ts < cursor)
          /\ \A s \in Schedulers : ~(r.ts < since[s]) /\ ~(r.ts < newest[s]))
    BY <2>1, <2>2, RowAndClaimTypes DEF ClockInv
  <2>4. NothingSkipped'
    BY <2>1, <2>3, RowAndClaimTypes DEF SkipInv, NothingSkipped, Safe
  <2>5. QED BY <2>1, <2>3, <2>4, RowAndClaimTypes DEF SkipInv, scan
<1>2. CASE BulkInsert(g) \/ RollbackRows(g)
  BY <1>2, SkipKept DEF BulkInsert, RollbackRows, database, bus
<1>3. QED BY <1>1, <1>2

LEMMA SkipClaim ==
  ASSUME TypeInv, SkipInv, \A f \in Flows : Safe(f) => Safe(f)',
         NEW s \in Schedulers, Claim(s)
  PROVE  SkipInv'
<1>1. UNCHANGED <<rows, cursor, since, newest>>
  BY DEF Claim, database
<1>2. PICK f \in todo[s] :
        \/ /\ IdemKey(f, since[s]) \in claims
           /\ todo' = [todo EXCEPT ![s] = @ \ {f}] /\ UNCHANGED claims
        \/ /\ claims' = claims \cup {IdemKey(f, since[s])}
           /\ current' = [current EXCEPT ![s] = f] /\ UNCHANGED todo
  BY DEF Claim, Seen
<1>3. f \in Flows /\ IdemKey(f, since[s])[1] = f
  BY RowAndClaimTypes DEF IdemKey
<1>4. (\A k \in claims' : Safe(k[1])')
      /\ \A t \in Schedulers : \A h \in Flows : h \in todo[t] => h \in todo'[t] \/ Safe(h)'
  <2>1. CASE /\ IdemKey(f, since[s]) \in claims
             /\ todo' = [todo EXCEPT ![s] = @ \ {f}] /\ UNCHANGED claims
    <3>1. Safe(f)'
      BY <1>3, <2>1 DEF SkipInv
    <3>2. QED BY <2>1, <3>1, RowAndClaimTypes DEF SkipInv, TypeInv, TypeOK
  <2>2. CASE /\ claims' = claims \cup {IdemKey(f, since[s])}
             /\ current' = [current EXCEPT ![s] = f] /\ UNCHANGED todo
    <3>1. Safe(f)'
      BY <2>2 DEF Safe, OnItsWay, TypeInv, TypeOK
    <3>2. QED BY <1>3, <2>2, <3>1, RowAndClaimTypes DEF SkipInv
  <2>3. QED BY <1>2, <2>1, <2>2
<1>5. NothingSkipped'
  BY <1>1, RowAndClaimTypes DEF SkipInv, NothingSkipped, Safe
<1>6. QED BY <1>1, <1>4, <1>5, RowAndClaimTypes DEF SkipInv

\* A scan that saves the cursor has published all it had to.
LEMMA SkipScan ==
  ASSUME TypeInv, SkipInv, \A f \in Flows : Safe(f) => Safe(f)',
         NEW s \in Schedulers, Scan(s) \/ ScanFails(s)
  PROVE  SkipInv'
<1>1. UNCHANGED rows /\ \A r \in rows : Safe(r.flow) => Safe(r.flow)'
  BY RowAndClaimTypes
  DEF Scan, ReadCursor, ReadRows, Claim, Add, SaveCursor, ScanFails, database
<1>2. CASE ReadCursor(s)
  <2>1. /\ since' = [since EXCEPT ![s] = cursor]
        /\ UNCHANGED <<cursor, claims, newest, todo>>
    BY <1>2 DEF ReadCursor, bus
  <2>2. NothingSkipped'
    BY <1>1, <2>1 DEF SkipInv, NothingSkipped, Safe
  <2>3. \A t \in Schedulers : \A r \in rows : r.ts < since'[t] => Safe(r.flow)'
    BY <1>1, <2>1 DEF SkipInv, NothingSkipped, Safe, TypeInv, TypeOK
  <2>4. QED BY <1>1, <2>1, <2>2, <2>3, RowAndClaimTypes DEF SkipInv
<1>3. CASE ReadRows(s)
  <2>1. /\ todo' = [todo EXCEPT ![s] = {r.flow : r \in ListSince(since[s])} \ covered]
        /\ \A t \in Schedulers : t # s => newest'[t] = newest[t]
        /\ UNCHANGED <<cursor, claims, since>>
    BY <1>3 DEF ReadRows, bus, TypeInv, TypeOK
  <2>2. NothingSkipped'
    BY <1>1, <2>1 DEF SkipInv, NothingSkipped, Safe
  <2>3. ASSUME NEW r \in rows PROVE Safe(r.flow)' \/ r.flow \in todo'[s]
    <3>1. CASE r.ts >= since[s]
      <4>1. r \in ListSince(since[s])
        BY <3>1 DEF ListSince
      <4>2. CASE r.flow \in covered
        BY <1>1, <4>2 DEF Safe
      <4>3. CASE r.flow \notin covered
        BY <2>1, <4>1, <4>3 DEF TypeInv, TypeOK
      <4>4. QED BY <4>2, <4>3
    <3>2. CASE r.ts < since[s]
      BY <1>1, <3>2 DEF SkipInv
    <3>3. QED BY <3>1, <3>2, RowAndClaimTypes
  <2>4. \A t \in Schedulers : \A r \in rows :
          r.ts < newest'[t] => Safe(r.flow)' \/ r.flow \in todo'[t]
    BY <1>1, <2>1, <2>3 DEF SkipInv, TypeInv, TypeOK
  <2>5. QED BY <1>1, <2>1, <2>2, <2>4, RowAndClaimTypes DEF SkipInv
<1>4. CASE Claim(s)
  BY <1>4, SkipClaim
<1>5. CASE Add(s)
  <2>1. /\ todo' = [todo EXCEPT ![s] = @ \ {current[s]}]
        /\ UNCHANGED <<cursor, claims, since, newest>>
    BY <1>5 DEF Add
  <2>2. Safe(current[s]) /\ current[s] \in Flows
    BY <1>5 DEF Add, Safe, OnItsWay, TypeInv, TypeOK, LocalsOK
  <2>3. \A f \in {current[s]} : Safe(f)'
    BY <2>2
  <2>4. NothingSkipped'
    BY <1>1, <2>1 DEF SkipInv, NothingSkipped, Safe
  <2>5. \A t \in Schedulers : \A r \in rows :
          r.flow \in todo[t] => r.flow \in todo'[t] \/ Safe(r.flow)'
    BY <2>1, <2>3 DEF TypeInv, TypeOK
  <2>6. QED BY <1>1, <2>1, <2>4, <2>5, RowAndClaimTypes DEF SkipInv
<1>6. CASE EndScan(s) /\ UNCHANGED claims /\ \/ UNCHANGED cursor
                                             \/ cursor' = newest[s] /\ todo[s] = {}
  <2>1. NothingSkipped'
    BY <1>1, <1>6 DEF SkipInv, NothingSkipped, Safe
  <2>2. \A t \in Schedulers :
          /\ since'[t] \in {since[t], 0} /\ newest'[t] \in {newest[t], 0}
          /\ newest'[t] = 0 \/ todo'[t] = todo[t]
    BY <1>6 DEF EndScan, NoCursor, TypeInv, TypeOK
  <2>3. \A r \in rows : ~(r.ts < 0)
    BY RowAndClaimTypes
  <2>4. QED BY <1>1, <1>6, <2>1, <2>2, <2>3, RowAndClaimTypes DEF SkipInv
<1>7. QED BY <1>2, <1>3, <1>4, <1>5, <1>6 DEF Scan, SaveCursor, ScanFails, bus

LEMMA SkipNext == Careful /\ TypeInv /\ AckInv /\ ClockInv /\ SkipInv /\ [Next]_vars => SkipInv'
<1> SUFFICES ASSUME Careful, TypeInv, AckInv, ClockInv, SkipInv, [Next]_vars PROVE SkipInv'
  OBVIOUS
<1>1. \A f \in Flows : Safe(f) => Safe(f)'
  BY SafeStays
<1>2. ASSUME NEW w \in Workers, Work(w) \/ HandlerFails(w) \/ WorkerCrash(w)
      PROVE  UNCHANGED <<rows, claims, cursor, scan>>
  BY <1>2 DEF Work, EnsureGroup, Consume, Propose, Announce, Ack, Restart, HandlerFails,
              WorkerCrash, database, bus
<1>3. ASSUME (\E f \in Flows : Approve(f)) \/ LoseCursor \/ UNCHANGED vars
      PROVE  UNCHANGED <<rows, claims, scan>> /\ cursor' \in {cursor, NoCursor}
  BY <1>3 DEF Approve, LoseCursor, vars, database, bus
<1>4. QED BY <1>1, <1>2, <1>3, SkipKept, SkipIngestion, SkipScan DEF Next

\* Whatever scans fail, cursors are lost, handlers fail and workers crash, and
\* however many schedulers scan at once, the cursor passes no row whose flow is
\* neither covered, proposed nor on its way.
THEOREM CursorSkipsNothing == ASSUME Careful PROVE Spec => []NothingSkipped
<1>1. Careful
  OBVIOUS
<1>2. Init => AckInv
  BY <1>1, AckInit DEF Careful
<1>3. ClockInv /\ TypeInv /\ [Next]_vars => ClockInv'
  BY <1>1, ClockNext
<1>4. TypeInv /\ AckInv /\ ClockInv /\ SkipInv /\ [Next]_vars => SkipInv'
  BY <1>1, SkipNext
<1>5. SkipInv => NothingSkipped
  BY DEF SkipInv
<1>6. QED BY <1>2, <1>3, <1>4, <1>5, AckNext, ClockInit, SkipInit, TypeInvariant, PTL DEF Spec
=============================================================================
