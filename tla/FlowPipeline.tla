---------------------------- MODULE FlowPipeline ----------------------------
(***************************************************************************)
(* From ingested flow events to proposals: ingestion sessions that commit   *)
(* rows (core/services/ingestion.py), schedulers that scan the rows since   *)
(* the cursor and publish the flows the baseline does not cover             *)
(* (services/worker/scan.py, cursor.py), the Redis stream and its consumer  *)
(* group (core/events/redis_bus.py) and the workers that turn each event    *)
(* into a proposal (services/worker/worker.py).                             *)
(*                                                                         *)
(* A flow stands for its aggregated key; hits, samples, the verdict of the  *)
(* classifier and the storm collapse are left to other modules, so a flow   *)
(* has at most one proposal here.  A row is [flow, ts] with the             *)
(* ingestion_ts it got when it was inserted, which may be before it is      *)
(* committed.  One tenant: rows, cursor and keys are all scoped by it.      *)
(***************************************************************************)
EXTENDS Integers, Sequences, FiniteSets

CONSTANTS
  Flows,       \* aggregated flow keys
  Ingests,     \* concurrent ingestion sessions
  Schedulers,  \* schedulers that hold the leader flag
  Workers,     \* members of the consumer group
  BatchSize,   \* count=10 of consume()
  MaxInserts,  \* bound on the ingestions
  MaxTime,     \* bound on the clock
  Faults,      \* what can go wrong: "scan", "lost_add", "cursor", "handler", "crash"
  MaxFaults,   \* bound on how often
  GroupFirst,  \* TRUE: a worker created the group before the first publish
  None         \* no group, no flow

ASSUME BoundsAssumption ==
  /\ BatchSize \in Nat \ {0} /\ MaxInserts \in Nat
  /\ MaxTime \in Nat /\ MaxFaults \in Nat
ASSUME FaultsAssumption ==
  /\ Faults \subseteq {"scan", "lost_add", "cursor", "handler", "crash"}
  /\ GroupFirst \in BOOLEAN
ASSUME NoneAssumption == None \notin Nat /\ None \notin Flows

Time == 0..MaxTime
Row  == [flow : Flows, ts : Time]

\* cursor.get() of a cursor that is not there: None sorts before every time.
NoCursor == 0

VARIABLES
  clock,      \* wall clock of the ingesting processes
  inserts,    \* how many ingestions there have been
  staged,     \* the rows an ingestion session has flushed and not committed
  rows,       \* committed flow_events
  covered,    \* flows the latest matrix version permits
  proposals,  \* flows with a proposal, whatever its status
  cursor,     \* the scan cursor in Redis
  claims,     \* scopilot:idem:* keys: the flow and the start of the window
  stream,     \* entries of the events.flow.unknown stream
  delivered,  \* how many of them the group has handed out; None: no group
  pending,    \* entries (by index) handed out and not acknowledged
  spc,        \* where a scheduler is in scan_tenant
  since,      \* its local variables: the cursor it read,
  newest,     \*   the ingestion_ts of the last row it read,
  todo,       \*   the uncovered flows it has yet to publish,
  current,    \*   the flow it is publishing
  wpc,        \* where a worker is in run_worker
  batch,      \* the entries it has consumed and not got to the end of
  announced,  \* proposals whose created event and card are out
  faults      \* how many faults there have been

database  == <<rows, covered, proposals>>
bus       == <<claims, stream, delivered, pending>>
ingestion == <<clock, inserts, staged>>
scan      == <<spc, since, newest, todo, current>>
worker    == <<wpc, batch, announced>>

vars == <<ingestion, database, cursor, bus, scan, worker, faults>>

Scheduler == {"idle", "read", "publish", "add", "save"}
Worker    == {"start", "consume", "handle", "announce", "ack", "down"}

CanFail(fault) == fault \in Faults /\ faults < MaxFaults

-----------------------------------------------------------------------------
(* Ingestion                                                                *)

\* bulk_insert: ingestion_ts is datetime.utcnow(), which need not have moved
\* since the ingestion before.
BulkInsert(g) ==
  /\ staged[g] = {} /\ inserts < MaxInserts
  /\ \E now \in {clock, clock + 1} \ {0}, fs \in (SUBSET Flows) \ {{}} :
       /\ now <= MaxTime
       /\ clock'  = now
       /\ staged' = [staged EXCEPT ![g] = [flow : fs, ts : {now}]]
  /\ inserts' = inserts + 1
  /\ UNCHANGED <<database, cursor, bus, scan, worker, faults>>

CommitRows(g) ==
  /\ staged[g] # {}
  /\ rows'   = rows \cup staged[g]
  /\ staged' = [staged EXCEPT ![g] = {}]
  /\ UNCHANGED <<clock, inserts, covered, proposals, cursor, bus, scan, worker, faults>>

\* The request fails after the flush: session_scope rolls it back.
RollbackRows(g) ==
  /\ staged[g] # {}
  /\ staged' = [staged EXCEPT ![g] = {}]
  /\ UNCHANGED <<clock, inserts, database, cursor, bus, scan, worker, faults>>

-----------------------------------------------------------------------------
(* scan_tenant                                                              *)

SGoto(s, label) == spc' = [spc EXCEPT ![s] = label]

ReadCursor(s) ==
  /\ spc[s] = "idle"
  /\ since' = [since EXCEPT ![s] = cursor]
  /\ SGoto(s, "read")
  /\ UNCHANGED <<ingestion, database, cursor, bus, newest, todo, current, worker, faults>>

\* list_since: ingestion_ts >= since, so that a row committed later with the
\* same ingestion_ts as the cursor is still found.
ListAfter(t) == {r \in rows : r.ts > t}
ListSince(t) == {r \in rows : r.ts >= t}

\* Where the cursor goes: records[-1].ingestion_ts (or since when there is no
\* record), not the time of the scan.
IsNow(t, rs, default)    == t = clock + 1
IsNewest(t, rs, default) ==
  IF rs = {} THEN t = default
  ELSE (\E r \in rs : r.ts = t) /\ (\A r \in rs : r.ts <= t)

ReadRows(s) ==
  /\ spc[s] = "read"
  /\ LET found == ListSince(since[s])
     IN  /\ \E t \in Time :
              IsNewest(t, found, since[s]) /\ newest' = [newest EXCEPT ![s] = t]
         /\ todo'   = [todo EXCEPT ![s] = {r.flow : r \in found} \ covered]
  /\ SGoto(s, "publish")
  /\ UNCHANGED <<ingestion, database, cursor, bus, since, current, worker, faults>>

\* The idempotency key of an event: the flow and the start of the window.
IdemKey(f, t) == <<f, t>>

SeenNever(k) == FALSE
Seen(k)      == k \in claims

\* publish(), SET NX: a key that is there already means a duplicate.
Claim(s) ==
  /\ spc[s] = "publish"
  /\ \E f \in todo[s] :
       LET k == IdemKey(f, since[s])
       IN  IF Seen(k)
           THEN /\ todo' = [todo EXCEPT ![s] = @ \ {f}]
                /\ UNCHANGED <<claims, spc, current>>
           ELSE /\ claims'  = claims \cup {k}
                /\ current' = [current EXCEPT ![s] = f]
                /\ SGoto(s, "add")
                /\ UNCHANGED todo
  /\ UNCHANGED <<ingestion, database, cursor, stream, delivered, pending, since, newest,
                 worker, faults>>

\* publish(), XADD: a command of its own.
Add(s) ==
  /\ spc[s] = "add"
  /\ stream'  = Append(stream, IdemKey(current[s], since[s]))
  /\ todo'    = [todo EXCEPT ![s] = @ \ {current[s]}]
  /\ current' = [current EXCEPT ![s] = None]
  /\ SGoto(s, "publish")
  /\ UNCHANGED <<ingestion, database, cursor, claims, delivered, pending, since, newest,
                 worker, faults>>

\* The scan is over; the cursor moves only forward of the one it read.
EndScan(s) ==
  /\ SGoto(s, "idle")
  /\ since'   = [since EXCEPT ![s] = NoCursor]
  /\ newest'  = [newest EXCEPT ![s] = NoCursor]
  /\ todo'    = [todo EXCEPT ![s] = {}]
  /\ current' = [current EXCEPT ![s] = None]

SaveCursor(s) ==
  /\ spc[s] = "publish" /\ todo[s] = {}
  /\ cursor' = IF newest[s] > since[s] THEN newest[s] ELSE cursor
  /\ EndScan(s)
  /\ UNCHANGED <<ingestion, database, bus, worker, faults>>

\* The database or Redis fails, or the process dies; the next tick starts over
\* from the cursor.  Between the claim and the XADD the key stays behind.
ScanFails(s) ==
  /\ \/ spc[s] \in {"read", "publish"} /\ CanFail("scan")
     \/ spc[s] = "add" /\ CanFail("lost_add")
  /\ EndScan(s)
  /\ faults' = faults + 1
  /\ UNCHANGED <<ingestion, database, cursor, bus, worker>>

\* The cursor key expires, or Redis comes back without it.
LoseCursor ==
  /\ CanFail("cursor")
  /\ cursor # NoCursor
  /\ cursor' = NoCursor
  /\ faults' = faults + 1
  /\ UNCHANGED <<ingestion, database, bus, scan, worker>>

-----------------------------------------------------------------------------
(* run_worker                                                               *)

WGoto(w, label) == wpc' = [wpc EXCEPT ![w] = label]

\* XGROUP CREATE id=$: what is in the stream by then is not for the group;
\* BUSYGROUP when it exists.
GroupStart == IF delivered = None THEN Len(stream) ELSE delivered

EnsureGroup(w) ==
  /\ wpc[w] = "start"
  /\ delivered' = GroupStart
  /\ WGoto(w, "consume")
  /\ UNCHANGED <<ingestion, database, cursor, claims, stream, pending, scan, batch,
                 announced, faults>>

CountAlways(rest) == BatchSize
CountToRead(rest) == IF rest < BatchSize THEN rest ELSE BatchSize

\* XREADGROUP ">": entries no member of the group has been given, and only
\* those; nothing in the code reads or claims the pending ones.
Consume(w) ==
  /\ wpc[w] = "consume"
  /\ delivered < Len(stream)
  /\ LET count == CountToRead(Len(stream) - delivered)
     IN  /\ batch'     = [batch EXCEPT ![w] = [i \in 1..count |-> delivered + i]]
         /\ pending'   = pending \cup (delivered + 1)..(delivered + count)
         /\ delivered' = delivered + count
  /\ WGoto(w, "handle")
  /\ UNCHANGED <<ingestion, database, cursor, claims, stream, scan, announced, faults>>

FlowOf(n) == stream[n][1]

\* Classified and proposed, in one committed session; `created` decides
\* whether the rest of the handler runs.
Propose(w) ==
  /\ wpc[w] = "handle"
  /\ LET f == FlowOf(Head(batch[w]))
     IN  /\ proposals' = proposals \cup {f}
         /\ WGoto(w, IF f \in proposals THEN "ack" ELSE "announce")
  /\ UNCHANGED <<ingestion, rows, covered, cursor, bus, scan, batch, announced, faults>>

\* The proposal.created event and the card.  A fresh proposal has a fresh key.
Announce(w) ==
  /\ wpc[w] = "announce"
  /\ announced' = announced \cup {FlowOf(Head(batch[w]))}
  /\ WGoto(w, "ack")
  /\ UNCHANGED <<ingestion, database, cursor, bus, scan, batch, faults>>

NextEvent(w) ==
  /\ batch' = [batch EXCEPT ![w] = Tail(@)]
  /\ WGoto(w, IF Len(batch[w]) = 1 THEN "consume" ELSE "handle")

AcknowledgedBatch(w) == {batch[w][i] : i \in DOMAIN batch[w]}
Acknowledged(w)      == {Head(batch[w])}

Ack(w) ==
  /\ wpc[w] = "ack"
  /\ pending' = pending \ Acknowledged(w)
  /\ NextEvent(w)
  /\ UNCHANGED <<ingestion, database, cursor, claims, stream, delivered, scan,
                 announced, faults>>

\* except Exception: no ack, on to the next event.
HandlerFails(w) ==
  /\ CanFail("handler")
  /\ wpc[w] \in {"handle", "announce", "ack"}
  /\ NextEvent(w)
  /\ faults' = faults + 1
  /\ UNCHANGED <<ingestion, database, cursor, bus, scan, announced>>

WorkerCrash(w) ==
  /\ CanFail("crash")
  /\ wpc[w] # "down"
  /\ WGoto(w, "down")
  /\ batch'  = [batch EXCEPT ![w] = <<>>]
  /\ faults' = faults + 1
  /\ UNCHANGED <<ingestion, database, cursor, bus, scan, announced>>

Restart(w) ==
  /\ wpc[w] = "down"
  /\ WGoto(w, "start")
  /\ UNCHANGED <<ingestion, database, cursor, bus, scan, batch, announced, faults>>

-----------------------------------------------------------------------------
\* A proposal that permits its flow is approved; a rejected one, or a deny,
\* covers nothing.
Approve(f) ==
  /\ f \in proposals \ covered
  /\ covered' = covered \cup {f}
  /\ UNCHANGED <<ingestion, rows, proposals, cursor, bus, scan, worker, faults>>

Init ==
  /\ clock     = 0
  /\ inserts   = 0
  /\ staged    = [g \in Ingests |-> {}]
  /\ rows      = {}
  /\ covered   = {}
  /\ proposals = {}
  /\ cursor    = NoCursor
  /\ claims    = {}
  /\ stream    = <<>>
  /\ delivered = IF GroupFirst THEN 0 ELSE None
  /\ pending   = {}
  /\ spc       = [s \in Schedulers |-> "idle"]
  /\ since     = [s \in Schedulers |-> NoCursor]
  /\ newest    = [s \in Schedulers |-> NoCursor]
  /\ todo      = [s \in Schedulers |-> {}]
  /\ current   = [s \in Schedulers |-> None]
  /\ wpc       = [w \in Workers |-> "start"]
  /\ batch     = [w \in Workers |-> <<>>]
  /\ announced = {}
  /\ faults    = 0

Scan(s) == ReadCursor(s) \/ ReadRows(s) \/ Claim(s) \/ Add(s) \/ SaveCursor(s)

Work(w) == EnsureGroup(w) \/ Consume(w) \/ Propose(w) \/ Announce(w) \/ Ack(w)
           \/ Restart(w)

Next ==
  \/ \E g \in Ingests : BulkInsert(g) \/ CommitRows(g) \/ RollbackRows(g)
  \/ \E s \in Schedulers : Scan(s) \/ ScanFails(s)
  \/ \E w \in Workers : Work(w) \/ HandlerFails(w) \/ WorkerCrash(w)
  \/ \E f \in Flows : Approve(f)
  \/ LoseCursor

Spec == Init /\ [][Next]_vars

\* The scheduler ticks for ever, Kubernetes restarts its pods, and a coroutine
\* that can go on does.
Fairness == /\ \A s \in Schedulers : WF_vars(Scan(s))
            /\ \A w \in Workers : WF_vars(Work(w))

FairSpec == Spec /\ Fairness

-----------------------------------------------------------------------------
(* What the pipeline promises                                               *)

\* Every variable has its type.
TypeOK ==
  /\ clock \in Time /\ cursor \in Time
  /\ inserts \in 0..MaxInserts /\ faults \in 0..MaxFaults
  /\ staged \in [Ingests -> SUBSET Row]
  /\ rows \subseteq Row
  /\ covered \subseteq Flows /\ proposals \subseteq Flows /\ announced \subseteq Flows
  /\ claims \subseteq Flows \X Time
  /\ stream \in Seq(Flows \X Time)
  /\ delivered \in 0..Len(stream) \cup {None}
  /\ pending \subseteq 1..Len(stream)
  /\ spc \in [Schedulers -> Scheduler]
  /\ since \in [Schedulers -> Time] /\ newest \in [Schedulers -> Time]
  /\ todo \in [Schedulers -> SUBSET Flows]
  /\ current \in [Schedulers -> Flows \cup {None}]
  /\ wpc \in [Workers -> Worker]
  /\ batch \in [Workers -> Seq(Nat)]

Entries == 1..Len(stream)

\* On its way: claimed by a scan that is about to add it, in the stream and not
\* handed out, or handed out and pending.
OnItsWay(f) ==
  \/ \E s \in Schedulers : current[s] = f
  \/ \E n \in Entries :
       FlowOf(n) = f /\ (n \in pending \/ delivered = None \/ delivered < n)

\* The cursor never passes a row that nothing will be done about: its flow is
\* covered, proposed or on its way.
NothingSkipped ==
  \A r \in rows :
    r.ts < cursor => r.flow \in covered \cup proposals \/ OnItsWay(r.flow)

\* A scan that is repeated, from the same cursor, publishes nothing twice.
OncePerWindow == \A m, n \in Entries : stream[m] = stream[n] => m = n

Held(n) == \E w \in Workers : \E i \in DOMAIN batch[w] : batch[w][i] = n

\* An event that is acknowledged has a proposal.
AckedIsProposed ==
  \A n \in Entries :
    delivered # None /\ n <= delivered /\ n \notin pending =>
      FlowOf(n) \in proposals

LeftBehind(f) == \E n \in pending : FlowOf(n) = f /\ ~Held(n)

\* Whatever scans fail and cursors are lost, the flow of a committed row is in
\* the end covered or proposed, or an event of it was left behind by a worker
\* that failed.
FlowsSettle ==
  \A f \in Flows :
    (\E r \in rows : r.flow = f) ~> (f \in covered \cup proposals \/ LeftBehind(f))

\* Every event handed out is acknowledged in the end: what one worker fails
\* on is delivered again.
Redelivered ==
  \A n \in 1..(Cardinality(Flows) * (MaxTime + 1)) : n \in pending ~> n \notin pending
=============================================================================
