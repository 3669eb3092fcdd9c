---------------------- MODULE ProposalsDecisionProofs ----------------------
(* Theorems about decisions: an approval and its effect are one, one decision *)
(* for a proposal, on either database and with every fault.                  *)
EXTENDS ProposalsProofs

-----------------------------------------------------------------------------
(* The inductive invariant                                                  *)

\* expire_overdue updates what it selected "whatever it is now": it runs when
\* no other session does.
SweepAlone == "expire_overdue" \in Ops => \A s, t \in Sessions : s = t

Reading == {"idle", "pending", "get", "replace", "insert", "sweep", "card"}

\* What a staged row may say, given the committed one: the same status (a
\* collapse), a new proposal, or a decision about an open one.
StagedAs(s, i) ==
  \/ Exists(i) /\ dirty[s][i].status = proposals[i].status
  \/ ~Exists(i) /\ dirty[s][i].status = "pending"
  \/ IsOpen(i) /\ dirty[s][i].status \in {"rejected", "expired", "failed"}
  \/ /\ IsOpen(i) /\ dirty[s][i].status = "approved"
     /\ pc[s] \in {"latest", "create"} /\ target[s] = i
  \/ /\ IsOpen(i) /\ dirty[s][i].status = "applied"
     /\ newver[s] # None /\ newver[s].proposal = i

Audited(row) == row.audit = Trail[row.status]

SessionOK(s) ==
  /\ pc[s] \in Reading => dirty[s] = NoWrites /\ newver[s] = None
  /\ \A i \in Ids : dirty[s][i] # None => StagedAs(s, i) /\ Audited(dirty[s][i])
  /\ pc[s] \in {"latest", "create"} =>
       /\ IsOpen(target[s]) /\ dirty[s][target[s]].status = "approved"
       /\ newver[s] = None
  /\ newver[s] # None =>
       LET i == newver[s].proposal
       IN  /\ IsOpen(i) /\ dirty[s][i] # None /\ dirty[s][i].status = "applied"
           /\ req[s] = None
  /\ pc[s] = "sweep" =>
       "expire_overdue" \in Ops /\ \A i \in selected[s] : IsOpen(i)

RowLocks ==
  \A s, t \in Sessions, i \in Ids : dirty[s][i] # None /\ dirty[t][i] # None => s = t

VersionsFolded == \A v \in versions : Exists(v.proposal)

Committed == AuditExplainsStatus /\ ApplyAtomic /\ VersionsFolded

DecideInv == /\ TypeInv
             /\ RowLocks
             /\ \A s \in Sessions : SessionOK(s)
             /\ Committed

-----------------------------------------------------------------------------
(* Steps of one session that commit nothing                                 *)

StepOf(s) ==
  /\ UNCHANGED <<proposals, versions>>
  /\ \A t \in Sessions \ {s} :
       /\ pc'[t] = pc[t] /\ target'[t] = target[t] /\ selected'[t] = selected[t]
       /\ dirty'[t] = dirty[t] /\ newver'[t] = newver[t] /\ req'[t] = req[t]
       /\ chan'[t] = chan[t] /\ aces'[t] = aces[t] /\ base'[t] = base[t]

\* Every step of a session but its commit is one.
Uncommitted(s) ==
  \/ LookupIdem(s) \/ Decide(s) \/ SelectOverdue(s) \/ Crash(s)
  \/ ListPending(s) \/ GetTarget(s) \/ FlushAces(s) \/ Insert(s) \/ PostCard(s)
  \/ ReadLatest(s) \/ CreateVersion(s) \/ ApplyFails(s) \/ Ack(s) \/ FlushExpired(s)

LEMMA SessionSteps ==
  ASSUME TypeInv, NEW s \in Sessions, Uncommitted(s)
  PROVE  StepOf(s)
<1> USE DEF TypeInv, TypeOK, StepOf, db, locals, staged, Goto, Stage
<1>1. ASSUME EndSession(s), UNCHANGED <<proposals, versions>>
      PROVE  StepOf(s)
  BY <1>1 DEF EndSession, ResetLocals
<1>2. CASE LookupIdem(s) \/ SelectOverdue(s) \/ Crash(s)
  BY <1>1, <1>2 DEF LookupIdem, SelectOverdue, Crash
<1>3. CASE Decide(s)
  BY <1>3 DEF Decide, DecideUpdate, DecideConflict
<1>4. CASE ListPending(s) \/ GetTarget(s) \/ FlushAces(s)
  BY <1>1, <1>4 DEF ListPending, GetTarget, FlushAces
<1>5. CASE Insert(s) \/ PostCard(s) \/ ReadLatest(s)
  BY <1>1, <1>5 DEF Insert, PostCard, ReadLatest
<1>6. CASE CreateVersion(s) \/ ApplyFails(s)
  BY <1>1, <1>6 DEF CreateVersion, ApplyFails, Advance
<1>7. CASE Ack(s) \/ FlushExpired(s)
  BY <1>1, <1>7 DEF Ack, FlushExpired
<1>8. QED BY <1>2, <1>3, <1>4, <1>5, <1>6, <1>7 DEF Uncommitted

LEMMA DecideInit == Init => DecideInv
<1> SUFFICES ASSUME Init PROVE DecideInv
  OBVIOUS
<1>1. RowLocks
  BY DEF Init, RowLocks, NoWrites
<1>2. ASSUME NEW s \in Sessions PROVE SessionOK(s)
  BY DEF Init, SessionOK, NoWrites
<1>3. Committed
  BY DEF Init, Committed, AuditExplainsStatus, ApplyAtomic, VersionsFolded, Exists
<1>4. QED BY <1>1, <1>2, <1>3, TypeInit DEF DecideInv

LEMMA OthersKeep ==
  ASSUME NEW s \in Sessions, NEW t \in Sessions \ {s}, StepOf(s), SessionOK(t)
  PROVE  SessionOK(t)'
BY DEF StepOf, SessionOK, StagedAs, Audited, IsOpen, Exists

\* What is left to show of a step of s that commits nothing.
LEMMA DecideStep ==
  ASSUME DecideInv, TypeInv', NEW s \in Sessions, StepOf(s), SessionOK(s)', RowLocks'
  PROVE  DecideInv'
<1>1. \A t \in Sessions : SessionOK(t)'
  BY OthersKeep DEF DecideInv
<1>2. Committed'
  BY DEF DecideInv, StepOf, Committed, AuditExplainsStatus, ApplyAtomic,
         VersionsFolded, VersionsOf, Exists
<1>3. QED BY <1>1, <1>2 DEF DecideInv

\* A step that drops staged rows or none.
LEMMA LocksKept ==
  ASSUME RowLocks,
         \A t \in Sessions, i \in Ids :
           dirty'[t][i] = dirty[t][i] \/ dirty'[t][i] = None
  PROVE  RowLocks'
BY DEF RowLocks

LEMMA EndSessionDecide ==
  ASSUME DecideInv, TypeInv', NEW s \in Sessions, EndSession(s),
         UNCHANGED <<proposals, versions>>
  PROVE  DecideInv'
<1> USE DEF DecideInv, TypeInv, TypeOK
<1>1. StepOf(s) /\ pc'[s] = "idle" /\ dirty'[s] = NoWrites /\ newver'[s] = None
  BY DEF EndSession, ResetLocals, Goto, StepOf
<1>2. SessionOK(s)'
  BY <1>1 DEF SessionOK, NoWrites
<1>3. RowLocks'
  <2>1. \A t \in Sessions, i \in Ids :
          dirty'[t][i] = dirty[t][i] \/ dirty'[t][i] = None
    <3>1. \A i \in Ids : NoWrites[i] = None
      BY DEF NoWrites
    <3>2. QED BY <1>1, <3>1 DEF StepOf
  <2>2. QED BY <2>1, LocksKept
<1>4. QED BY <1>1, <1>2, <1>3, DecideStep

\* A step between two reads.
LEMMA ReadDecide ==
  ASSUME DecideInv, TypeInv', NEW s \in Sessions, NEW l \in Reading \ {"sweep"},
         pc[s] \in Reading, Goto(s, l),
         StepOf(s), UNCHANGED <<dirty, newver>>
  PROVE  DecideInv'
<1> USE DEF DecideInv, TypeInv, TypeOK
<1>1. pc'[s] = l
  BY DEF Goto
<1>2. SessionOK(s)'
  BY <1>1 DEF SessionOK, NoWrites, Reading
<1>3. RowLocks'
  BY LocksKept
<1>4. QED BY <1>1, <1>2, <1>3, DecideStep

\* s stages one row that nobody else holds, as its first write or on top of
\* the one it holds.
LEMMA StageDecide ==
  ASSUME DecideInv, TypeInv', NEW s \in Sessions, NEW i \in Ids, NEW r \in Row,
         Stage(s, i, r), \A t \in Sessions \ {s} : dirty[t][i] = None
  PROVE  /\ RowLocks'
         /\ dirty'[s][i] = r
         /\ \A t \in Sessions, j \in Ids : t # s \/ j # i => dirty'[t][j] = dirty[t][j]
         /\ \A t \in Sessions \ {s} : dirty'[t] = dirty[t]
<1>1. /\ dirty'[s][i] = r
      /\ \A t \in Sessions, j \in Ids : t # s \/ j # i => dirty'[t][j] = dirty[t][j]
      /\ \A t \in Sessions \ {s} : dirty'[t] = dirty[t]
  BY DEF DecideInv, TypeInv, TypeOK, Stage
<1>2. RowLocks'
  BY <1>1 DEF DecideInv, RowLocks
<1>3. QED BY <1>1, <1>2

-----------------------------------------------------------------------------
(* Each action                                                              *)

\* What mark_status and the decisions append.
LEMMA Appends ==
  ASSUME NEW d \in Event, NEW e \in Event
  PROVE  Append(<<>>, e) = <<e>> /\ Append(<<d>>, e) = <<d, e>>
<1> DEFINE a == Append(<<d>>, e)
           b == <<d, e>>
<1>1. <<>> \in Seq(Event) /\ <<d>> \in Seq(Event) /\ Len(<<d>>) = 1
  OBVIOUS
<1>2. Append(<<>>, e) = <<e>>
  BY <1>1
<1>3. a \in Seq(Event) /\ Len(a) = 2 /\ a[1] = d /\ a[2] = e
  BY <1>1
<1>4. b \in Seq(Event) /\ Len(b) = 2 /\ b[1] = d /\ b[2] = e
  OBVIOUS
<1> HIDE DEF a, b
<1>5. \A i \in 1..2 : a[i] = b[i]
  BY <1>3, <1>4
<1>6. a = b
  BY <1>3, <1>4, <1>5
<1>7. QED BY <1>2, <1>6 DEF a, b

\* A row written for a decision: an open row, its trail and the event.
LEMMA OpenTrail ==
  ASSUME DecideInv, NEW i \in Ids, IsOpen(i)
  PROVE  proposals[i] \in Row /\ proposals[i].audit = <<>>
<1>1. proposals[i] \in Row
  BY DEF DecideInv, TypeInv, TypeOK, IsOpen, Exists
<1>2. proposals[i].audit = Trail[proposals[i].status]
  BY DEF DecideInv, Committed, AuditExplainsStatus, IsOpen
<1>3. Trail["pending"] = <<>> /\ Trail["notified"] = <<>>
  BY DEF Trail
<1>4. QED BY <1>1, <1>2, <1>3 DEF IsOpen, Open

LEMMA DecideUpdateDecide ==
  ASSUME DecideInv, TypeInv', NEW s \in Sessions, NEW i \in Ids,
         NEW d \in {"approved", "rejected"}, NEW c \in DecideChannels,
         DecideUpdate(s, i, d, c)
  PROVE  DecideInv'
<1> DEFINE r == [proposals[i] EXCEPT !.status = d, !.audit = Append(@, d)]
<1>1. IsOpen(i) /\ proposals[i] \in Row /\ proposals[i].audit = <<>>
  BY OpenTrail DEF DecideUpdate
<1>2. r.status = d /\ r.audit = <<d>>
  BY <1>1, Appends DEF Row
<1>3. r \in Row
  <2>1. <<d>> \in Seq(Event)
    BY DEF Event
  <2>2. QED BY <1>1, <1>2, <2>1 DEF Row, Status
<1>4. Stage(s, i, r)
  BY DEF DecideUpdate
<1>5. Trail[d] = <<d>>
  BY DEF Trail
<1> HIDE DEF r
<1>6. /\ RowLocks' /\ dirty'[s][i] = r
      /\ \A t \in Sessions, j \in Ids : t # s \/ j # i => dirty'[t][j] = dirty[t][j]
      /\ \A t \in Sessions \ {s} : dirty'[t] = dirty[t]
  BY <1>3, <1>4, StageDecide DEF DecideUpdate, MayWrite
<1>7. dirty[s] = NoWrites /\ newver[s] = None
  BY DEF DecideUpdate, DecideInv, SessionOK, Reading
<1>8. /\ pc'[s] = IF d = "approved" THEN "latest" ELSE AfterDecision(c)
      /\ target'[s] = i /\ newver' = newver /\ proposals' = proposals /\ req' = req
  BY DEF DecideUpdate, Goto, db, DecideInv, TypeInv, TypeOK
<1>9. StepOf(s)
  BY SessionSteps DEF Uncommitted, Decide, DecideInv
<1>10. \A j \in Ids \ {i} : dirty'[s][j] = None
  BY <1>6, <1>7 DEF NoWrites
<1>11. SessionOK(s)'
  BY <1>1, <1>2, <1>5, <1>6, <1>7, <1>8, <1>10
     DEF SessionOK, StagedAs, Audited, IsOpen, Exists, AfterDecision, Reading
<1>12. QED BY <1>6, <1>9, <1>11, DecideStep

LEMMA FlushAcesDecide ==
  ASSUME DecideInv, TypeInv', NEW s \in Sessions, FlushAces(s)
  PROVE  DecideInv'
<1> DEFINE i == target[s]
           r == [proposals[i] EXCEPT !.aces = IF aces[s] = None THEN @ ELSE aces[s]]
<1>1. i \in Ids /\ Exists(i) /\ proposals[i] \in Row
  BY DEF FlushAces, Exists, DecideInv, TypeInv, TypeOK, LocalsOK
<1>2. r.status = proposals[i].status /\ r.audit = proposals[i].audit
  BY <1>1 DEF Row
<1>3. r \in Row
  <2>1. (IF aces[s] = None THEN proposals[i].aces ELSE aces[s]) \in Aces
    BY <1>1 DEF Row, DecideInv, TypeInv, TypeOK
  <2>2. QED BY <1>1, <2>1 DEF Row
<1>4. Stage(s, i, r)
  BY DEF FlushAces
<1>5. proposals[i].audit = Trail[proposals[i].status]
  BY <1>1 DEF DecideInv, Committed, AuditExplainsStatus
<1> HIDE DEF r
<1>6. /\ RowLocks' /\ dirty'[s][i] = r
      /\ \A t \in Sessions, j \in Ids : t # s \/ j # i => dirty'[t][j] = dirty[t][j]
      /\ \A t \in Sessions \ {s} : dirty'[t] = dirty[t]
  BY <1>1, <1>3, <1>4, StageDecide DEF FlushAces, MayWrite
<1>7. dirty[s] = NoWrites /\ newver[s] = None
  BY DEF FlushAces, DecideInv, SessionOK, Reading
<1>8. /\ pc'[s] = "commit"
      /\ target' = target /\ newver' = newver /\ proposals' = proposals /\ req' = req
  BY DEF FlushAces, Goto, db, locals, DecideInv, TypeInv, TypeOK
<1>9. StepOf(s)
  BY SessionSteps DEF Uncommitted, DecideInv
<1>10. \A j \in Ids \ {i} : dirty'[s][j] = None
  BY <1>6, <1>7 DEF NoWrites
<1>11. SessionOK(s)'
  BY <1>1, <1>2, <1>5, <1>6, <1>7, <1>8, <1>10
     DEF SessionOK, StagedAs, Audited, Exists, Reading
<1>12. QED BY <1>6, <1>9, <1>11, DecideStep

LEMMA InsertDecide ==
  ASSUME DecideInv, TypeInv', NEW s \in Sessions, Insert(s)
  PROVE  DecideInv'
<1> DEFINE r == [pair |-> req[s].pair, aces |-> req[s].aces, idem |-> req[s],
                 status |-> "pending", audit |-> <<>>]
<1>1. CASE EndSession(s)
  BY <1>1, EndSessionDecide DEF Insert, db
<1>2. ASSUME NEW i \in Ids, ~Exists(i), MayWrite(s, i), Stage(s, i, r),
             target' = [target EXCEPT ![s] = i], Goto(s, "commit"),
             UNCHANGED <<proposals, versions, req, selected, newver>>
      PROVE  DecideInv'
  <2>1. req[s] \in Requests /\ req[s].pair \in Pairs /\ req[s].aces \in Aces
    BY RequestsAssumption DEF DecideInv, TypeInv, TypeOK, LocalsOK, Insert, Shape
  <2>2. r \in Row /\ r.status = "pending" /\ r.audit = <<>>
    BY <2>1 DEF Row, Status
  <2>3. Trail["pending"] = <<>>
    BY DEF Trail
  <2> HIDE DEF r
  <2>4. /\ RowLocks' /\ dirty'[s][i] = r
        /\ \A t \in Sessions, j \in Ids : t # s \/ j # i => dirty'[t][j] = dirty[t][j]
        /\ \A t \in Sessions \ {s} : dirty'[t] = dirty[t]
    BY <1>2, <2>2, StageDecide DEF MayWrite
  <2>5. dirty[s] = NoWrites /\ newver[s] = None
    BY DEF Insert, DecideInv, SessionOK, Reading
  <2>6. pc'[s] = "commit" /\ StepOf(s)
    BY <1>2, SessionSteps DEF Uncommitted, Goto, DecideInv, TypeInv, TypeOK
  <2>7. \A j \in Ids \ {i} : dirty'[s][j] = None
    BY <2>4, <2>5 DEF NoWrites
  <2>8. SessionOK(s)'
    BY <1>2, <2>2, <2>3, <2>4, <2>5, <2>6, <2>7
       DEF SessionOK, StagedAs, Audited, Exists, Reading
  <2>9. QED BY <2>4, <2>6, <2>8, DecideStep
<1>3. QED BY <1>1, <1>2 DEF Insert, db

\* mark_status on the row that is being approved.
LEMMA AdvanceDecide ==
  ASSUME DecideInv, NEW s \in Sessions, pc[s] \in {"latest", "create"},
         NEW st \in {"applied", "failed"}, NEW e \in {"applied", "apply_failed"},
         Trail[st] = <<"approved", e>>, Advance(s, st, e)
  PROVE  /\ RowLocks'
         /\ IsOpen(target[s]) /\ target[s] \in Ids
         /\ dirty'[s][target[s]] # None
         /\ dirty'[s][target[s]].status = st
         /\ dirty'[s][target[s]].audit = Trail[st]
         /\ dirty'[s][target[s]].pair = dirty[s][target[s]].pair
         /\ dirty'[s][target[s]].aces = dirty[s][target[s]].aces
         /\ \A j \in Ids \ {target[s]} : dirty'[s][j] = dirty[s][j]
         /\ \A t \in Sessions \ {s} : dirty'[t] = dirty[t]
<1> DEFINE i   == target[s]
           old == dirty[s][i]
           r   == [old EXCEPT !.status = st, !.audit = Append(@, e)]
<1>1. /\ i \in Ids /\ old # None /\ old \in Row
      /\ IsOpen(i) /\ old.status = "approved"
  BY DEF DecideInv, TypeInv, TypeOK, LocalsOK, SessionOK
<1>2. old.audit = <<"approved">>
  BY <1>1 DEF DecideInv, SessionOK, Audited, Trail
<1>3. r.status = st /\ r.audit = Trail[st] /\ r.pair = old.pair /\ r.aces = old.aces
  <2>1. Append(<<"approved">>, e) = <<"approved", e>>
    BY Appends DEF Event
  <2>2. QED BY <1>1, <1>2, <2>1 DEF Row
<1>4. r \in Row
  <2>1. <<"approved", e>> \in Seq(Event)
    BY DEF Event
  <2>2. QED BY <1>1, <1>3, <2>1 DEF Row, Status
<1>5. dirty' = [dirty EXCEPT ![s][i] = r]
  BY DEF Advance, Stage
<1>6. r # None
  BY <1>4, NoneAssumption
<1> HIDE DEF r
<1>7. /\ dirty'[s][i] = r
      /\ \A j \in Ids \ {i} : dirty'[s][j] = dirty[s][j]
      /\ \A t \in Sessions \ {s} : dirty'[t] = dirty[t]
  BY <1>1, <1>5 DEF DecideInv, TypeInv, TypeOK
<1>8. RowLocks'
  BY <1>1, <1>7 DEF DecideInv, RowLocks
<1>9. QED BY <1>1, <1>3, <1>6, <1>7, <1>8

LEMMA CreateVersionDecide ==
  ASSUME DecideInv, TypeInv', NEW s \in Sessions, CreateVersion(s)
  PROVE  DecideInv'
<1> DEFINE i == target[s]
<1>1. Advance(s, "applied", "applied") /\ pc[s] = "create"
  BY DEF CreateVersion
<1>2. Trail["applied"] = <<"approved", "applied">>
  BY DEF Trail
<1>3. /\ RowLocks' /\ IsOpen(i) /\ i \in Ids
      /\ dirty'[s][i] # None /\ dirty'[s][i].status = "applied"
      /\ dirty'[s][i].audit = Trail["applied"]
      /\ \A j \in Ids \ {i} : dirty'[s][j] = dirty[s][j]
      /\ \A t \in Sessions \ {s} : dirty'[t] = dirty[t]
  BY <1>1, <1>2, AdvanceDecide
<1>4. newver[s] = None /\ req[s] = None
  BY <1>1 DEF DecideInv, SessionOK, TypeInv, LocalsOK
<1>5. /\ newver'[s].proposal = i /\ newver'[s] # None
      /\ \A t \in Sessions \ {s} : newver'[t] = newver[t]
  <2>1. VersionMade(s).proposal = i /\ VersionMade(s) # None
    BY NewVersionType, NoneAssumption DEF VersionMade, DecideInv
  <2>2. QED BY <2>1, NewVersionType DEF DecideInv, TypeInv, TypeOK
<1>6. /\ pc'[s] = AfterDecision(chan[s])
      /\ target' = target /\ proposals' = proposals /\ selected' = selected /\ req' = req
  BY DEF CreateVersion, Goto, locals, DecideInv, TypeInv, TypeOK
<1>7. StepOf(s)
  BY SessionSteps DEF Uncommitted, DecideInv
<1>8. \A j \in Ids \ {i} : dirty'[s][j] # None => StagedAs(s, j)' /\ Audited(dirty'[s][j])
  <2>1. ASSUME NEW j \in Ids \ {i}, dirty[s][j] # None
        PROVE  StagedAs(s, j) /\ Audited(dirty[s][j]) /\ dirty[s][j].status # "approved"
    BY <2>1, <1>1 DEF DecideInv, SessionOK, StagedAs, Committed, ApplyAtomic
  <2>2. QED BY <1>3, <1>4, <1>6, <2>1 DEF StagedAs, Audited, IsOpen, Exists
<1>9. SessionOK(s)'
  <2>1. pc'[s] \in {"ack", "commit"}
    BY <1>6 DEF AfterDecision
  <2>2. \A j \in Ids : dirty'[s][j] # None => (StagedAs(s, j) /\ Audited(dirty[s][j]))'
    BY <1>3, <1>5, <1>6, <1>8 DEF StagedAs, Audited, IsOpen, Exists
  <2>3. QED
    BY <1>3, <1>4, <1>5, <1>6, <2>1, <2>2 DEF SessionOK, Reading, IsOpen, Exists
<1>10. QED BY <1>3, <1>7, <1>9, DecideStep

LEMMA ApplyFailsDecide ==
  ASSUME DecideInv, TypeInv', NEW s \in Sessions, ApplyFails(s)
  PROVE  DecideInv'
<1> DEFINE i == target[s]
<1>1. CASE EndSession(s)
  BY <1>1, EndSessionDecide DEF ApplyFails, db
<1>2. CASE /\ Advance(s, "failed", "apply_failed") /\ UNCHANGED <<locals, newver>>
           /\ Goto(s, IF chan[s] = "command" THEN "ack" ELSE "commit")
  <2>1. Trail["failed"] = <<"approved", "apply_failed">> /\ pc[s] \in {"latest", "create"}
    BY DEF Trail, ApplyFails
  <2>2. /\ RowLocks' /\ IsOpen(i) /\ i \in Ids
        /\ dirty'[s][i] # None /\ dirty'[s][i].status = "failed"
        /\ dirty'[s][i].audit = Trail["failed"]
        /\ \A j \in Ids \ {i} : dirty'[s][j] = dirty[s][j]
        /\ \A t \in Sessions \ {s} : dirty'[t] = dirty[t]
    BY <1>2, <2>1, AdvanceDecide
  <2>3. newver[s] = None
    BY <2>1 DEF DecideInv, SessionOK
  <2>4. /\ pc'[s] \in {"ack", "commit"} /\ newver' = newver
        /\ target' = target /\ proposals' = proposals /\ selected' = selected /\ req' = req
    BY <1>2 DEF ApplyFails, Goto, db, locals, DecideInv, TypeInv, TypeOK
  <2>5. StepOf(s)
    BY SessionSteps DEF Uncommitted, DecideInv
  <2>6. ASSUME NEW j \in Ids \ {i}, dirty[s][j] # None
        PROVE  StagedAs(s, j) /\ Audited(dirty[s][j]) /\ dirty[s][j].status # "approved"
    BY <2>1, <2>6 DEF DecideInv, SessionOK, StagedAs, Committed, ApplyAtomic
  <2>7. \A j \in Ids : dirty'[s][j] # None => (StagedAs(s, j) /\ Audited(dirty[s][j]))'
    BY <2>2, <2>4, <2>6 DEF StagedAs, Audited, IsOpen, Exists
  <2>8. SessionOK(s)'
    BY <2>2, <2>3, <2>4, <2>7 DEF SessionOK, Reading
  <2>9. QED BY <2>2, <2>5, <2>8, DecideStep
<1>3. QED BY <1>1, <1>2 DEF ApplyFails

LEMMA AckDecide ==
  ASSUME DecideInv, TypeInv', NEW s \in Sessions, Ack(s)
  PROVE  DecideInv'
<1>1. CASE EndSession(s)
  BY <1>1, EndSessionDecide DEF Ack, db
<1>2. CASE Goto(s, "commit") /\ UNCHANGED <<locals, staged>>
  <2>1. /\ StepOf(s) /\ pc[s] = "ack" /\ pc'[s] = "commit"
        /\ UNCHANGED <<proposals, req, target, selected, dirty, newver>>
    BY <1>2, SessionSteps DEF Uncommitted, Ack, Goto, db, locals, staged, DecideInv, TypeInv, TypeOK
  <2>2. SessionOK(s)'
    BY <2>1 DEF DecideInv, SessionOK, StagedAs, Audited, IsOpen, Exists, Reading
  <2>3. QED BY <2>1, <2>2, LocksKept, DecideStep DEF DecideInv
<1>3. QED BY <1>1, <1>2 DEF Ack

LEMMA ReadLatestDecide ==
  ASSUME DecideInv, TypeInv', NEW s \in Sessions, ReadLatest(s)
  PROVE  DecideInv'
<1>1. /\ StepOf(s) /\ pc[s] = "latest" /\ pc'[s] = "create"
      /\ UNCHANGED <<proposals, req, target, selected, dirty, newver>>
  BY SessionSteps DEF Uncommitted, ReadLatest, Goto, db, staged, DecideInv, TypeInv, TypeOK
<1>2. SessionOK(s)'
  BY <1>1 DEF DecideInv, SessionOK, StagedAs, Audited, IsOpen, Exists, Reading
<1>3. QED BY <1>1, <1>2, LocksKept, DecideStep DEF DecideInv

LEMMA SelectOverdueDecide ==
  ASSUME DecideInv, TypeInv', NEW s \in Sessions, SelectOverdue(s)
  PROVE  DecideInv'
<1> DEFINE found == {i \in overdue : IsOpen(i)}
<1>1. /\ StepOf(s) /\ pc[s] = "idle" /\ pc'[s] = "sweep"
      /\ selected'[s] = found /\ "expire_overdue" \in Ops
      /\ UNCHANGED <<proposals, req, target, dirty, newver>>
  BY SessionSteps DEF Uncommitted, SelectOverdue, Goto, db, staged, DecideInv, TypeInv, TypeOK
<1>2. \A i \in found : IsOpen(i)'
  BY <1>1 DEF IsOpen, Exists
<1>3. SessionOK(s)'
  BY <1>1, <1>2 DEF DecideInv, SessionOK, Reading, NoWrites
<1>4. QED BY <1>1, <1>3, LocksKept, DecideStep DEF DecideInv

LEMMA FlushExpiredDecide ==
  ASSUME DecideInv, TypeInv', NEW s \in Sessions, FlushExpired(s)
  PROVE  DecideInv'
<1> DEFINE r(i) == [proposals[i] EXCEPT !.status = "expired",
                                        !.audit = Append(@, "expired")]
<1>1. ASSUME NEW i \in selected[s]
      PROVE  /\ i \in Ids /\ IsOpen(i)
             /\ r(i).status = "expired" /\ r(i).audit = Trail["expired"]
  <2>1. i \in Ids /\ IsOpen(i)
    BY DEF FlushExpired, DecideInv, SessionOK, TypeInv, TypeOK
  <2>2. proposals[i] \in Row /\ proposals[i].audit = <<>>
    BY <2>1, OpenTrail
  <2>3. Append(<<>>, "expired") = <<"expired">>
    BY Appends DEF Event
  <2>4. Trail["expired"] = <<"expired">>
    BY DEF Trail
  <2>5. QED BY <2>1, <2>2, <2>3, <2>4 DEF Row
<1>2. dirty' = [dirty EXCEPT ![s] = [i \in Ids |-> IF i \in selected[s] THEN r(i) ELSE None]]
  BY DEF FlushExpired
<1> HIDE DEF r
<1>3. /\ \A t \in Sessions \ {s} : dirty'[t] = dirty[t]
      /\ \A i \in Ids : dirty'[s][i] = IF i \in selected[s] THEN r(i) ELSE None
  BY <1>2 DEF DecideInv, TypeInv, TypeOK
<1>4. /\ StepOf(s) /\ pc[s] = "sweep" /\ pc'[s] = "commit"
      /\ UNCHANGED <<proposals, req, target, selected, newver>>
  BY <1>3, SessionSteps DEF Uncommitted, FlushExpired, Goto, db, locals, DecideInv, TypeInv, TypeOK
<1>5. newver[s] = None
  BY <1>4 DEF DecideInv, SessionOK, Reading
<1>6. \A i \in Ids : dirty'[s][i] # None => (StagedAs(s, i) /\ Audited(dirty[s][i]))'
  BY <1>1, <1>3, <1>4 DEF StagedAs, Audited, IsOpen, Exists
<1>7. SessionOK(s)'
  BY <1>4, <1>5, <1>6 DEF SessionOK, Reading
<1>8. RowLocks'
  <2>1. \A i \in selected[s], t \in Sessions \ {s} : dirty[t][i] = None
    BY DEF FlushExpired, MayWrite
  <2>2. QED BY <1>3, <2>1 DEF DecideInv, RowLocks
<1>9. QED BY <1>4, <1>7, <1>8, DecideStep

\* Commits and mark_notified change what other sessions see: nothing they hold.
LEMMA OthersHold ==
  ASSUME NEW t \in Sessions, SessionOK(t), pc[t] # "sweep",
         pc'[t] = pc[t], target'[t] = target[t],
         dirty'[t] = dirty[t], newver'[t] = newver[t], req'[t] = req[t],
         \A i \in Ids : dirty[t][i] # None => proposals'[i] = proposals[i],
         newver[t] # None => newver[t].proposal \in Ids,
         pc[t] \in {"latest", "create"} =>
           target[t] \in Ids /\ dirty[t][target[t]] # None
  PROVE  SessionOK(t)'
BY DEF SessionOK, StagedAs, Audited, IsOpen, Exists

LEMMA MarkNotifiedDecide ==
  ASSUME DecideInv, TypeInv', NEW i \in Ids, MarkNotified(i)
  PROVE  DecideInv'
<1> DEFINE r == [proposals[i] EXCEPT !.status = "notified"]
<1>1. /\ IsOpen(i) /\ proposals[i] \in Row /\ proposals[i].status = "pending"
      /\ \A s \in Sessions : dirty[s][i] = None
      /\ UNCHANGED <<versions, pc, req, target, selected, dirty, newver>>
  BY DEF MarkNotified, IsOpen, Open, Exists, locals, staged, DecideInv, TypeInv, TypeOK
<1>2. r.status = "notified" /\ r.audit = <<>> /\ r \in Row
  BY <1>1, OpenTrail DEF Row, Status
<1>3. proposals' = [proposals EXCEPT ![i] = r]
  BY DEF MarkNotified
<1>4. r # None
  BY <1>2, NoneAssumption
<1> HIDE DEF r
<1>5. proposals'[i] = r /\ \A j \in Ids \ {i} : proposals'[j] = proposals[j]
  BY <1>3 DEF DecideInv, TypeInv, TypeOK
<1>6. \A j \in Ids : IsOpen(j) => IsOpen(j)'
  BY <1>2, <1>4, <1>5 DEF IsOpen, Exists, Open
<1>7. ASSUME NEW t \in Sessions
      PROVE  SessionOK(t)'
  <2>1. CASE pc[t] = "sweep"
    <3>1. selected[t] \subseteq Ids
      BY DEF DecideInv, TypeInv, TypeOK
    <3>2. QED
      BY <1>1, <1>6, <2>1, <3>1 DEF DecideInv, SessionOK, Reading, NoWrites
  <2>2. CASE pc[t] # "sweep"
    <3>1. newver[t] # None => newver[t].proposal \in Ids
      BY DEF DecideInv, TypeInv, TypeOK, Version
    <3>2. pc[t] \in {"latest", "create"} => target[t] \in Ids /\ dirty[t][target[t]] # None
      BY DEF DecideInv, TypeInv, TypeOK, LocalsOK
    <3>3. QED BY <1>1, <1>5, <2>2, <3>1, <3>2, OthersHold DEF DecideInv
  <2>3. QED BY <2>1, <2>2
<1>8. RowLocks'
  BY <1>1, LocksKept DEF DecideInv
<1>9. Committed'
  <2>1. \A j \in Ids : Exists(j)' <=> Exists(j)
    BY <1>1, <1>4, <1>5 DEF Exists, IsOpen
  <2>2. Trail["notified"] = <<>>
    BY DEF Trail
  <2>3. AuditExplainsStatus'
    BY <1>2, <1>5, <2>1, <2>2 DEF DecideInv, Committed, AuditExplainsStatus
  <2>4. ApplyAtomic'
    BY <1>1, <1>2, <1>5, <2>1 DEF DecideInv, Committed, ApplyAtomic, VersionsOf
  <2>5. VersionsFolded'
    BY <1>1, <2>1 DEF DecideInv, Committed, VersionsFolded, TypeInv, TypeOK, Version
  <2>6. QED BY <2>3, <2>4, <2>5 DEF Committed
<1>10. QED BY <1>7, <1>8, <1>9 DEF DecideInv

\* What a commit does to a row, and to the versions.
LEMMA CommitEffect ==
  ASSUME DecideInv, NEW s \in Sessions, Commit(s)
  PROVE  /\ \A i \in Ids : proposals'[i] = IF dirty[s][i] # None THEN dirty[s][i]
                                                                ELSE proposals[i]
         /\ versions' = IF newver[s] = None THEN versions ELSE versions \cup {newver[s]}
         /\ pc'[s] \in {"idle", "card"} /\ dirty'[s] = NoWrites /\ newver'[s] = None
         /\ \A t \in Sessions \ {s} :
              /\ pc'[t] = pc[t] /\ target'[t] = target[t] /\ selected'[t] = selected[t]
              /\ dirty'[t] = dirty[t] /\ newver'[t] = newver[t] /\ req'[t] = req[t]
<1> USE DEF DecideInv, TypeInv, TypeOK
<1>1. /\ \A i \in Ids : proposals'[i] = IF dirty[s][i] # None THEN dirty[s][i]
                                                             ELSE proposals[i]
      /\ versions' = IF newver[s] = None THEN versions ELSE versions \cup {newver[s]}
  BY DEF Commit
<1>2. CASE EndSession(s)
  BY <1>1, <1>2 DEF EndSession, ResetLocals, Goto
<1>3. CASE /\ req[s] # None /\ Goto(s, "card") /\ UNCHANGED <<locals, newver>>
           /\ dirty' = [dirty EXCEPT ![s] = NoWrites]
  <2>1. newver[s] = None
    BY <1>3 DEF SessionOK
  <2>2. QED BY <1>1, <1>3, <2>1 DEF Goto, locals
<1>4. QED BY <1>2, <1>3 DEF Commit

\* A committed row keeps its status, or was open and is decided now, applied
\* exactly if the session inserted a version for it.
LEMMA CommittedRow ==
  ASSUME DecideInv, NEW s \in Sessions, Commit(s), NEW i \in Ids, Exists(i)'
  PROVE  /\ \/ Exists(i) /\ proposals'[i].status = proposals[i].status
            \/ ~Exists(i) /\ proposals'[i].status = "pending"
            \/ IsOpen(i) /\ proposals'[i].status \in {"rejected", "expired", "failed"}
            \/ /\ IsOpen(i) /\ proposals'[i].status = "applied"
               /\ newver[s] # None /\ newver[s].proposal = i
         /\ Audited(proposals'[i])
         /\ newver[s] # None /\ newver[s].proposal = i => proposals'[i].status = "applied"
<1>1. proposals'[i] = IF dirty[s][i] # None THEN dirty[s][i] ELSE proposals[i]
  BY CommitEffect
<1>2. pc[s] = "commit"
  BY DEF Commit
<1>3. CASE dirty[s][i] = None
  <2>1. Exists(i) /\ proposals'[i] = proposals[i]
    BY <1>1, <1>3 DEF Exists
  <2>2. newver[s] # None => newver[s].proposal # i
    BY <1>3 DEF DecideInv, SessionOK
  <2>3. QED
    BY <2>1, <2>2 DEF DecideInv, Committed, AuditExplainsStatus, Audited
<1>4. CASE dirty[s][i] # None
  <2>1. StagedAs(s, i) /\ Audited(dirty[s][i]) /\ proposals'[i] = dirty[s][i]
    BY <1>1, <1>4 DEF DecideInv, SessionOK
  <2>2. newver[s] # None /\ newver[s].proposal = i => dirty[s][i].status = "applied"
    BY DEF DecideInv, SessionOK
  <2>3. QED BY <1>2, <2>1, <2>2 DEF StagedAs
<1>5. QED BY <1>3, <1>4

LEMMA CommitCommitted ==
  ASSUME DecideInv, TypeInv', NEW s \in Sessions, Commit(s)
  PROVE  Committed'
<1>1. \A i \in Ids : Exists(i) => Exists(i)'
  BY CommitEffect DEF Exists
<1>2. AuditExplainsStatus'
  BY CommittedRow DEF AuditExplainsStatus, Audited
<1>3. ASSUME NEW v \in versions' PROVE Exists(v.proposal)' /\ v.proposal \in Ids
  <2>1. v.proposal \in Ids
    BY DEF TypeInv, TypeOK, Version
  <2>2. v \in versions \/ (newver[s] # None /\ v = newver[s])
    BY CommitEffect
  <2>3. Exists(v.proposal)
    BY <2>2 DEF DecideInv, Committed, VersionsFolded, SessionOK, IsOpen
  <2>4. QED BY <1>1, <2>1, <2>3
<1>4. ASSUME NEW i \in Ids, Exists(i)'
      PROVE  /\ proposals'[i].status # "approved"
             /\ proposals'[i].status = "applied" <=> VersionsOf(i)' # {}
             /\ \A v, w \in VersionsOf(i)' : v = w
  <2>1. VersionsOf(i)' = IF newver[s] # None /\ newver[s].proposal = i
                         THEN VersionsOf(i) \cup {newver[s]} ELSE VersionsOf(i)
    BY CommitEffect DEF VersionsOf
  <2>2. Exists(i) => /\ proposals[i].status # "approved"
                     /\ proposals[i].status = "applied" <=> VersionsOf(i) # {}
                     /\ \A v, w \in VersionsOf(i) : v = w
    BY DEF DecideInv, Committed, ApplyAtomic
  <2>3. ~Exists(i) => VersionsOf(i) = {}
    BY DEF DecideInv, Committed, VersionsFolded, VersionsOf
  <2>4. IsOpen(i) => Exists(i) /\ proposals[i].status # "applied"
    BY DEF IsOpen, Open
  <2>5. newver[s] # None /\ newver[s].proposal = i => IsOpen(i)
    BY DEF DecideInv, SessionOK
  <2>6. QED
    BY <1>4, <2>1, <2>2, <2>3, <2>4, <2>5, CommittedRow
<1>5. ApplyAtomic'
  BY <1>4 DEF ApplyAtomic
<1>6. QED BY <1>2, <1>3, <1>5 DEF Committed, VersionsFolded

LEMMA CommitDecide ==
  ASSUME SweepAlone, DecideInv, TypeInv', NEW s \in Sessions, Commit(s)
  PROVE  DecideInv'
<1>1. SessionOK(s)'
  BY CommitEffect DEF SessionOK, NoWrites
<1>2. ASSUME NEW t \in Sessions \ {s}
      PROVE  SessionOK(t)'
  <2>1. pc[t] # "sweep"
    BY DEF DecideInv, SessionOK, SweepAlone
  <2>2. \A i \in Ids : dirty[t][i] # None => proposals'[i] = proposals[i]
    BY CommitEffect DEF DecideInv, RowLocks
  <2>3. newver[t] # None => newver[t].proposal \in Ids
    BY DEF DecideInv, TypeInv, TypeOK, Version
  <2>4. pc[t] \in {"latest", "create"} => target[t] \in Ids /\ dirty[t][target[t]] # None
    BY DEF DecideInv, TypeInv, TypeOK, LocalsOK
  <2>5. QED BY <2>1, <2>2, <2>3, <2>4, CommitEffect, OthersHold DEF DecideInv
<1>3. RowLocks'
  <2>1. \A i \in Ids : NoWrites[i] = None
    BY DEF NoWrites
  <2>2. \A t \in Sessions, i \in Ids :
          dirty'[t][i] = dirty[t][i] \/ dirty'[t][i] = None
    BY <2>1, CommitEffect
  <2>3. QED BY <2>2, LocksKept DEF DecideInv
<1>4. QED BY <1>1, <1>2, <1>3, CommitCommitted DEF DecideInv

-----------------------------------------------------------------------------

LEMMA DecideNext == SweepAlone /\ DecideInv /\ [Next]_vars => DecideInv'
<1> SUFFICES ASSUME SweepAlone, DecideInv, [Next]_vars PROVE DecideInv'
  OBVIOUS
<1>0. TypeInv'
  BY TypeNext DEF DecideInv
<1> USE <1>0 DEF Reading
<1>1. ASSUME NEW s \in Sessions, LookupIdem(s) PROVE DecideInv'
  BY <1>1, SessionSteps, ReadDecide DEF Uncommitted, LookupIdem, staged, DecideInv
<1>2. ASSUME NEW s \in Sessions, NEW i \in Ids, DecideConflict(s, i) PROVE DecideInv'
  <2>1. StepOf(s) /\ UNCHANGED <<proposals, pc, req, target, selected, dirty, newver>>
    BY <1>2 DEF DecideConflict, StepOf, db, locals, staged
  <2>2. SessionOK(s)'
    BY <2>1 DEF DecideInv, SessionOK, StagedAs, Audited, IsOpen, Exists
  <2>3. QED BY <2>1, <2>2, LocksKept, DecideStep DEF DecideInv
<1>3. ASSUME NEW s \in Sessions, Decide(s) PROVE DecideInv'
  BY <1>2, <1>3, DecideUpdateDecide DEF Decide
<1>4. ASSUME NEW s \in Sessions, Crash(s) PROVE DecideInv'
  BY <1>4, EndSessionDecide DEF Crash, db
<1>5. ASSUME NEW s \in Sessions, ListPending(s) PROVE DecideInv'
  BY <1>5, SessionSteps, ReadDecide DEF Uncommitted, ListPending, staged, DecideInv
<1>6. ASSUME NEW s \in Sessions, GetTarget(s) PROVE DecideInv'
  BY <1>6, SessionSteps, ReadDecide, EndSessionDecide
     DEF Uncommitted, GetTarget, db, staged, DecideInv
<1>7. ASSUME NEW s \in Sessions, PostCard(s) PROVE DecideInv'
  BY <1>7, EndSessionDecide DEF PostCard, db
<1>8. ASSUME NEW s \in Sessions, Continue(s) PROVE DecideInv'
  BY <1>5, <1>6, <1>7, <1>8, FlushAcesDecide, InsertDecide, ReadLatestDecide,
     CreateVersionDecide, ApplyFailsDecide, AckDecide, FlushExpiredDecide,
     CommitDecide DEF Continue
<1>9. ASSUME NEW i \in Ids, ExpiryPasses(i) PROVE DecideInv'
  BY <1>9 DEF ExpiryPasses, locals, staged, DecideInv, RowLocks, SessionOK,
              StagedAs, Audited, IsOpen, Exists, Committed, AuditExplainsStatus,
              ApplyAtomic, VersionsOf, VersionsFolded
<1>10. CASE UNCHANGED vars
  BY <1>10 DEF vars, db, locals, staged, DecideInv, RowLocks, SessionOK,
              StagedAs, Audited, IsOpen, Exists, Committed, AuditExplainsStatus,
              ApplyAtomic, VersionsOf, VersionsFolded
<1>11. QED
  BY <1>1, <1>3, <1>4, <1>8, <1>9, <1>10, SelectOverdueDecide,
     MarkNotifiedDecide DEF Next

LEMMA DecideCorrect == ASSUME SweepAlone PROVE Spec => []DecideInv
<1>1. SweepAlone
  OBVIOUS
<1>2. DecideInv /\ [Next]_vars => DecideInv'
  BY <1>1, DecideNext
<1>3. QED BY <1>2, DecideInit, PTL DEF Spec

\* An approval and its version are committed together or not at all: with any
\* number of sessions, on either database, whatever crashes or fails between
\* the three writes of decide(), an applied proposal has exactly one matrix
\* version, no other has one, and none rests in "approved".
THEOREM DecisionIsAtomic == ASSUME SweepAlone PROVE Spec => []ApplyAtomic
<1>1. Spec => []DecideInv
  BY DecideCorrect
<1>2. DecideInv => ApplyAtomic
  BY DEF DecideInv, Committed
<1>3. QED BY <1>1, <1>2, PTL

\* One decision per proposal, however many operators press the button at once,
\* and its audit trail tells it: WHERE status IN (pending, notified) is enough.
THEOREM TrailTellsStatus == ASSUME SweepAlone PROVE Spec => []AuditExplainsStatus
<1>1. Spec => []DecideInv
  BY DecideCorrect
<1>2. DecideInv => AuditExplainsStatus
  BY DEF DecideInv, Committed
<1>3. QED BY <1>1, <1>2, PTL

\* The committed rows change only by a commit and by mark_notified.
LEMMA RowsChange ==
  ASSUME Next
  PROVE  \/ UNCHANGED <<proposals, versions>>
         \/ \E s \in Sessions : Commit(s)
         \/ \E i \in Ids : MarkNotified(i)
<1> USE DEF db
<1>1. ASSUME NEW s \in Sessions, Decide(s) PROVE UNCHANGED <<proposals, versions>>
  BY <1>1 DEF Decide, DecideUpdate, DecideConflict
<1>2. ASSUME NEW s \in Sessions,
             LookupIdem(s) \/ SelectOverdue(s) \/ Crash(s)
      PROVE  UNCHANGED <<proposals, versions>>
  BY <1>2 DEF LookupIdem, SelectOverdue, Crash
<1>3. ASSUME NEW s \in Sessions, Continue(s), ~Commit(s)
      PROVE  UNCHANGED <<proposals, versions>>
  <2>1. CASE ListPending(s) \/ GetTarget(s) \/ FlushAces(s) \/ Insert(s) \/ PostCard(s)
    BY <2>1 DEF ListPending, GetTarget, FlushAces, Insert, PostCard
  <2>2. CASE ReadLatest(s) \/ CreateVersion(s) \/ ApplyFails(s) \/ Ack(s) \/ FlushExpired(s)
    BY <2>2 DEF ReadLatest, CreateVersion, ApplyFails, Ack, FlushExpired
  <2>3. QED BY <1>3, <2>1, <2>2 DEF Continue
<1>4. ASSUME NEW i \in Ids, ExpiryPasses(i) PROVE UNCHANGED <<proposals, versions>>
  BY <1>4 DEF ExpiryPasses
<1>5. QED BY <1>1, <1>2, <1>3, <1>4 DEF Next

LEMMA FinalStays ==
  ASSUME DecideInv, Next, NEW i \in Ids, Exists(i), proposals[i].status \in Final
  PROVE  proposals'[i] # None /\ proposals'[i].status = proposals[i].status
<1>1. ~IsOpen(i)
  BY DEF IsOpen, Open, Final
<1>2. ASSUME NEW s \in Sessions, Commit(s)
      PROVE  proposals'[i] # None /\ proposals'[i].status = proposals[i].status
  <2>1. Exists(i)'
    BY <1>2, CommitEffect DEF Exists
  <2>2. QED BY <1>1, <1>2, <2>1, CommittedRow DEF Exists
<1>3. ASSUME NEW j \in Ids, MarkNotified(j)
      PROVE  proposals'[i] # None /\ proposals'[i].status = proposals[i].status
  <2>1. j # i
    BY <1>3 DEF MarkNotified, Final
  <2>2. QED BY <1>3, <2>1 DEF MarkNotified, Exists, DecideInv, TypeInv, TypeOK
<1>4. QED BY <1>2, <1>3, RowsChange DEF Exists

\* A final status never changes again, whoever writes the row afterwards: a
\* collapse that is under way rewrites the ACEs of the row, never its status.
THEOREM FinalForGood == ASSUME SweepAlone PROVE Spec => DecidedForGood
<1>1. Spec => []DecideInv
  BY DecideCorrect
<1>2. DecideInv /\ [Next]_vars =>
        [\A i \in Ids : Exists(i) /\ proposals[i].status \in Final =>
           proposals'[i] # None /\ proposals'[i].status = proposals[i].status]_vars
  BY FinalStays
<1>3. QED BY <1>1, <1>2, PTL DEF Spec, DecidedForGood

-----------------------------------------------------------------------------
(* What operators are told                                                  *)
(*                                                                         *)
(* The bot speaks before its session commits.  What it said comes true if   *)
(* the session does commit: nothing crashes, and no apply fails on the      *)
(* channel that rolls back.                                                 *)

KeepsItsWord ==
  /\ SweepAlone
  /\ "crash" \notin Faults
  /\ "apply" \in Faults => \A c \in DecideChannels : ~RollsBackApplyErrors(c)

\* An announced outcome is final, and committed or about to be.
Comes(m) ==
  /\ m[2] \in Final
  /\ \/ Exists(m[1]) /\ proposals[m[1]].status = m[2]
     \/ \E s \in Sessions : /\ pc[s] = "commit" /\ target[s] = m[1]
                            /\ dirty[s][m[1]] # None /\ dirty[s][m[1]].status = m[2]

Deciding ==
  \A s \in Sessions :
    /\ pc[s] \in {"latest", "create", "ack"} => chan[s] \in DecideChannels
    /\ pc[s] = "ack" => dirty[s][target[s]].status \in Final

SaidInv == DecideInv /\ Deciding /\ \A m \in told : Comes(m)

LEMMA SaidInit == Init => SaidInv
BY DecideInit DEF Init, SaidInv, Deciding

\* What was announced stays so while a session that is not to commit goes on.
LEMMA ComesStill ==
  ASSUME SaidInv, NEW s \in Sessions, StepOf(s), pc[s] # "commit", NEW m \in told
  PROVE  Comes(m)'
BY DEF SaidInv, Comes, StepOf, Exists

LEMMA DecidingOthers ==
  ASSUME SaidInv, NEW s \in Sessions, StepOf(s), NEW t \in Sessions \ {s}
  PROVE  /\ pc'[t] \in {"latest", "create", "ack"} => chan'[t] \in DecideChannels
         /\ pc'[t] = "ack" => dirty'[t][target'[t]].status \in Final
BY DEF SaidInv, Deciding, StepOf

\* What is left to show of a step of s that announces nothing.
LEMMA SaidStep ==
  ASSUME SaidInv, DecideInv', NEW s \in Sessions, StepOf(s), pc[s] # "commit",
         \A m \in told' \ told : Comes(m)',
         pc'[s] \in {"latest", "create", "ack"} => chan'[s] \in DecideChannels,
         pc'[s] = "ack" => dirty'[s][target'[s]].status \in Final
  PROVE  SaidInv'
<1>1. \A m \in told' : Comes(m)'
  BY ComesStill
<1>2. Deciding'
  BY DecidingOthers DEF Deciding
<1>3. QED BY <1>1, <1>2 DEF SaidInv

LEMMA SaidQuiet ==
  ASSUME SaidInv, DecideInv', NEW s \in Sessions, StepOf(s), pc[s] # "commit",
         UNCHANGED told, pc'[s] \notin {"latest", "create", "ack"}
  PROVE  SaidInv'
BY SaidStep

LEMMA EndSessionQuiet ==
  ASSUME TypeInv, NEW s \in Sessions, EndSession(s)
  PROVE  pc'[s] = "idle"
BY DEF EndSession, Goto, TypeInv, TypeOK

LEMMA SaidDecide ==
  ASSUME SaidInv, DecideInv', NEW s \in Sessions, Decide(s)
  PROVE  SaidInv'
<1> USE DEF SaidInv, DecideInv, TypeInv, TypeOK
<1>1. StepOf(s)
  BY SessionSteps DEF Uncommitted
<1>2. ASSUME NEW i \in Ids, NEW d \in {"approved", "rejected"},
             NEW c \in DecideChannels, DecideUpdate(s, i, d, c)
      PROVE  SaidInv'
  <2>1. /\ pc'[s] = IF d = "approved" THEN "latest" ELSE AfterDecision(c)
        /\ pc[s] = "idle" /\ chan'[s] = c /\ target'[s] = i /\ UNCHANGED told
    BY <1>2 DEF DecideUpdate, Goto, outside
  <2>2. pc'[s] = "ack" => dirty'[s][target'[s]].status \in Final
    <3> DEFINE r == [proposals[i] EXCEPT !.status = d, !.audit = Append(@, d)]
    <3>1. dirty'[s][i] = r
      BY <1>2 DEF DecideUpdate, Stage
    <3>2. r.status = d
      BY <1>2 DEF DecideUpdate, IsOpen, Exists, Row
    <3>3. QED BY <2>1, <3>1, <3>2 DEF Final
  <2>3. QED BY <1>1, <2>1, <2>2, SaidStep
<1>3. ASSUME NEW i \in Ids, DecideConflict(s, i)
      PROVE  SaidInv'
  <2>1. /\ pc[s] = "idle" /\ pc' = pc
        /\ UNCHANGED proposals /\ told' = told \cup {<<i, proposals[i].status>>}
    BY <1>3 DEF DecideConflict, db
  <2>2. Exists(i) /\ proposals[i].status \in Final
    <3>1. proposals[i].status \in Status \ {"approved", "pending", "notified"}
      BY <1>3 DEF DecideConflict, IsOpen, Open, Exists, Row, Committed, ApplyAtomic
    <3>2. QED BY <1>3, <3>1 DEF DecideConflict, Status, Final
  <2>3. \A m \in told' \ told : Comes(m)'
    BY <2>1, <2>2 DEF Comes, Exists
  <2>4. QED BY <1>1, <2>1, <2>3, SaidStep
<1>4. QED BY <1>2, <1>3 DEF Decide

LEMMA SaidCreateVersion ==
  ASSUME SaidInv, DecideInv', NEW s \in Sessions, CreateVersion(s)
  PROVE  SaidInv'
<1>1. StepOf(s) /\ pc[s] = "create" /\ UNCHANGED <<chan, target, told>>
  BY SessionSteps DEF Uncommitted, CreateVersion, locals, outside, SaidInv, DecideInv
<1>2. dirty'[s][target[s]].status = "applied"
  <2>1. Trail["applied"] = <<"approved", "applied">>
    BY DEF Trail
  <2>2. Advance(s, "applied", "applied")
    BY DEF CreateVersion
  <2>3. QED BY <1>1, <2>1, <2>2, AdvanceDecide DEF SaidInv
<1>3. chan[s] \in DecideChannels
  BY <1>1 DEF SaidInv, Deciding
<1>4. QED BY <1>1, <1>2, <1>3, SaidStep DEF Final

LEMMA SaidApplyFails ==
  ASSUME KeepsItsWord, SaidInv, DecideInv', NEW s \in Sessions, ApplyFails(s)
  PROVE  SaidInv'
<1>1. /\ StepOf(s) /\ pc[s] \in {"latest", "create"}
      /\ chan[s] \in DecideChannels /\ ~RollsBackApplyErrors(chan[s])
  BY SessionSteps DEF Uncommitted, ApplyFails, SaidInv, Deciding, DecideInv, KeepsItsWord
<1>2. /\ Advance(s, "failed", "apply_failed") /\ UNCHANGED <<chan, target>>
      /\ pc'[s] = IF chan[s] = "command" THEN "ack" ELSE "commit"
  BY <1>1 DEF ApplyFails, Goto, locals, SaidInv, DecideInv, TypeInv, TypeOK
<1>3. dirty'[s][target[s]] # None /\ dirty'[s][target[s]].status = "failed"
  <2>1. Trail["failed"] = <<"approved", "apply_failed">>
    BY DEF Trail
  <2>2. QED BY <1>1, <1>2, <2>1, AdvanceDecide DEF SaidInv
<1>4. ASSUME NEW m \in told' \ told PROVE Comes(m)'
  <2>1. m = <<target[s], "failed">> /\ chan[s] # "command"
    BY <1>1 DEF ApplyFails
  <2>2. m[1] = target[s] /\ m[2] = "failed"
    BY <2>1
  <2>3. QED BY <1>2, <1>3, <2>1, <2>2 DEF Comes, Final
<1>5. QED BY <1>1, <1>2, <1>3, <1>4, SaidStep DEF Final

LEMMA SaidAck ==
  ASSUME SaidInv, DecideInv', NEW s \in Sessions, Ack(s)
  PROVE  SaidInv'
<1> DEFINE st == dirty[s][target[s]].status
<1>1. /\ StepOf(s) /\ pc[s] = "ack" /\ st \in Final
      /\ dirty[s][target[s]] # None
  BY SessionSteps DEF Uncommitted, Ack, SaidInv, Deciding, DecideInv, TypeInv, LocalsOK
<1>2. CASE EndSession(s) /\ UNCHANGED told
  BY <1>1, <1>2, EndSessionQuiet, SaidQuiet DEF SaidInv, DecideInv
<1>3. CASE /\ told' = IF st = "failed" THEN told ELSE told \cup {<<target[s], st>>}
           /\ Goto(s, "commit") /\ UNCHANGED <<locals, staged>>
  <2>1. pc'[s] = "commit" /\ UNCHANGED <<target, dirty>>
    BY <1>3 DEF Goto, locals, staged, SaidInv, DecideInv, TypeInv, TypeOK
  <2>2. ASSUME NEW m \in told' \ told PROVE Comes(m)'
    <3>1. m = <<target[s], st>>
      BY <1>3, <2>2
    <3>2. m[1] = target[s] /\ m[2] = st
      BY <3>1
    <3>3. QED BY <1>1, <2>1, <3>2 DEF Comes
  <2>3. QED BY <1>1, <2>1, <2>2, SaidStep
<1>4. QED BY <1>2, <1>3 DEF Ack

LEMMA SaidCommit ==
  ASSUME SaidInv, DecideInv', NEW s \in Sessions, Commit(s)
  PROVE  SaidInv'
<1>1. UNCHANGED told
  BY DEF Commit
<1>2. ASSUME NEW m \in told PROVE Comes(m)'
  <2>1. m[1] \in Ids /\ m[2] \in Final
    BY DEF SaidInv, DecideInv, TypeInv, TypeOK, Comes
  <2>2. CASE Exists(m[1]) /\ proposals[m[1]].status = m[2]
    <3>1. Next
      BY DEF Next, Continue
    <3>2. QED BY <2>1, <2>2, <3>1, FinalStays DEF SaidInv, Comes, Exists
  <2>3. ASSUME NEW t \in Sessions, pc[t] = "commit", target[t] = m[1],
               dirty[t][m[1]] # None, dirty[t][m[1]].status = m[2]
        PROVE  Comes(m)'
    <3>1. CASE t = s
      BY <2>1, <2>3, <3>1, CommitEffect DEF SaidInv, Comes, Exists
    <3>2. CASE t # s
      BY <2>1, <2>3, <3>2, CommitEffect DEF SaidInv, Comes
    <3>3. QED BY <3>1, <3>2
  <2>4. QED BY <2>2, <2>3 DEF SaidInv, Comes
<1>3. Deciding'
  <2>1. \A t \in Sessions \ {s} : chan'[t] = chan[t]
    BY DEF Commit, EndSession, ResetLocals, locals, SaidInv, DecideInv, TypeInv, TypeOK
  <2>2. QED BY <2>1, CommitEffect DEF SaidInv, Deciding
<1>4. QED BY <1>1, <1>2, <1>3 DEF SaidInv

LEMMA SaidNext == KeepsItsWord /\ SaidInv /\ [Next]_vars => SaidInv'
<1> SUFFICES ASSUME KeepsItsWord, SaidInv, [Next]_vars PROVE SaidInv'
  OBVIOUS
<1>1. DecideInv'
  BY DecideNext DEF SaidInv, KeepsItsWord
<1>2. ASSUME NEW s \in Sessions, LookupIdem(s) \/ SelectOverdue(s) PROVE SaidInv'
  <2>1. StepOf(s) /\ pc[s] = "idle" /\ pc'[s] \in {"pending", "sweep"} /\ UNCHANGED told
    BY <1>2, SessionSteps DEF Uncommitted, LookupIdem, SelectOverdue, Goto, outside,
       SaidInv, DecideInv, TypeInv, TypeOK
  <2>2. QED BY <1>1, <2>1, SaidQuiet
<1>3. ASSUME NEW s \in Sessions, Crash(s) PROVE SaidInv'
  BY <1>3 DEF Crash, KeepsItsWord
<1>4. ASSUME NEW s \in Sessions,
             ListPending(s) \/ GetTarget(s) \/ FlushAces(s) \/ Insert(s)
      PROVE  SaidInv'
  <2>1. /\ StepOf(s) /\ pc[s] \in {"pending", "get", "replace", "insert"}
        /\ UNCHANGED told
    BY <1>4, SessionSteps DEF Uncommitted, ListPending, GetTarget, FlushAces, Insert,
       outside, SaidInv, DecideInv
  <2>2. pc'[s] \in {"insert", "get", "replace", "idle", "commit"}
    BY <1>4 DEF ListPending, GetTarget, FlushAces, Insert, EndSession, Goto,
       SaidInv, DecideInv, TypeInv, TypeOK
  <2>3. QED BY <1>1, <2>1, <2>2, SaidQuiet
<1>5. ASSUME NEW s \in Sessions, PostCard(s) \/ FlushExpired(s) PROVE SaidInv'
  <2>1. StepOf(s) /\ pc[s] \in {"card", "sweep"} /\ UNCHANGED told
    BY <1>5, SessionSteps DEF Uncommitted, PostCard, FlushExpired, outside, SaidInv, DecideInv
  <2>2. pc'[s] \in {"idle", "commit"}
    BY <1>5 DEF PostCard, FlushExpired, EndSession, Goto, SaidInv, DecideInv, TypeInv, TypeOK
  <2>3. QED BY <1>1, <2>1, <2>2, SaidQuiet
<1>6. ASSUME NEW s \in Sessions, ReadLatest(s) PROVE SaidInv'
  <2>1. /\ StepOf(s) /\ pc[s] = "latest" /\ pc'[s] = "create" /\ UNCHANGED <<chan, told>>
    BY <1>6, SessionSteps DEF Uncommitted, ReadLatest, Goto, outside, SaidInv, DecideInv, TypeInv, TypeOK
  <2>2. chan'[s] \in DecideChannels
    BY <2>1 DEF SaidInv, Deciding
  <2>3. QED BY <1>1, <2>1, <2>2, SaidStep
<1>7. ASSUME NEW s \in Sessions, Continue(s) PROVE SaidInv'
  BY <1>1, <1>4, <1>5, <1>6, <1>7, SaidCreateVersion, SaidApplyFails, SaidAck,
     SaidCommit DEF Continue
<1>8. ASSUME NEW i \in Ids, MarkNotified(i) PROVE SaidInv'
  <2>1. /\ Next /\ UNCHANGED <<pc, chan, target, dirty, told>>
    BY <1>8 DEF MarkNotified, Next, locals, staged, outside
  <2>2. ASSUME NEW m \in told PROVE Comes(m)'
    <3>1. m[1] \in Ids /\ m[2] \in Final
      BY DEF SaidInv, DecideInv, TypeInv, TypeOK, Comes
    <3>2. QED BY <2>1, <3>1, FinalStays DEF SaidInv, Comes, Exists
  <2>3. Deciding'
    BY <2>1 DEF SaidInv, Deciding
  <2>4. QED BY <1>1, <2>1, <2>2, <2>3 DEF SaidInv
<1>9. ASSUME UNCHANGED <<proposals, pc, chan, target, dirty, told>> PROVE SaidInv'
  BY <1>1, <1>9 DEF SaidInv, Deciding, Comes, Exists
<1>10. ASSUME NEW i \in Ids, ExpiryPasses(i) PROVE SaidInv'
  BY <1>9, <1>10 DEF ExpiryPasses, locals, staged, outside
<1>11. CASE UNCHANGED vars
  BY <1>9, <1>11 DEF vars, db, locals, staged, outside
<1>12. QED
  BY <1>1, <1>2, <1>3, <1>7, <1>8, <1>10, <1>11, SaidDecide DEF Next

\* What an operator is told comes true: an announced outcome is the committed
\* one, or the session that announced it is still to commit, for any number of
\* sessions, with failing posts everywhere and failing applies wherever the
\* channel does not roll them back.
THEOREM SaidIsDone == ASSUME KeepsItsWord PROVE Spec => []AnnouncedIsCommitted
<1>1. KeepsItsWord
  OBVIOUS
<1>2. SaidInv /\ [Next]_vars => SaidInv'
  BY <1>1, SaidNext
<1>3. SaidInv => AnnouncedIsCommitted
  BY DEF SaidInv, Comes, AnnouncedIsCommitted
<1>4. QED BY <1>2, <1>3, SaidInit, PTL DEF Spec

-----------------------------------------------------------------------------
(* Cards                                                                    *)

\* Nothing dies, posts get through, and no caller inserts without notifying
\* (the MCP tool does).
PostsCards ==
  /\ {"crash", "post"} \cap Faults = {}
  /\ \A c \in ProposeChannels : Notifies(c)

\* A row that is new is staged by the session that submits it.
Submitting ==
  \A s \in Sessions :
    /\ req[s] # None => chan[s] \in ProposeChannels
    /\ \A i \in Ids : dirty[s][i] # None /\ ~Exists(i) =>
         pc[s] = "commit" /\ req[s] # None /\ target[s] = i

CardInv == TypeInv /\ InsertFirst /\ Submitting /\ EveryProposalHasCard

LEMMA CardInit == Init => CardInv
BY TypeInit DEF Init, CardInv, InsertFirst, Submitting, EveryProposalHasCard, Exists, NoWrites

\* What is left to show of a step of s that commits nothing.
LEMMA CardStep ==
  ASSUME CardInv, TypeInv', InsertFirst', NEW s \in Sessions, StepOf(s),
         \A i \in Ids : card[i] # None => card'[i] # None,
         pc[s] = "card" => card'[target[s]] # None,
         req'[s] # None => chan'[s] \in ProposeChannels,
         \A i \in Ids : dirty'[s][i] # None /\ ~Exists(i) =>
           pc'[s] = "commit" /\ req'[s] # None /\ target'[s] = i
  PROVE  CardInv'
<1>1. Submitting'
  BY DEF CardInv, Submitting, StepOf, Exists
<1>2. EveryProposalHasCard'
  BY DEF CardInv, EveryProposalHasCard, StepOf, Exists
<1>3. QED BY <1>1, <1>2 DEF CardInv

LEMMA CardEnd ==
  ASSUME CardInv, TypeInv', InsertFirst', NEW s \in Sessions, StepOf(s), EndSession(s),
         \A i \in Ids : card[i] # None => card'[i] # None,
         pc[s] = "card" => card'[target[s]] # None
  PROVE  CardInv'
<1>1. req'[s] = None /\ dirty'[s] = NoWrites
  BY DEF EndSession, ResetLocals, CardInv, TypeInv, TypeOK
<1>2. \A i \in Ids : dirty'[s][i] = None
  BY <1>1 DEF NoWrites
<1>3. QED BY <1>1, <1>2, CardStep

\* A step that stages nothing new.
LEMMA CardQuiet ==
  ASSUME CardInv, TypeInv', InsertFirst', NEW s \in Sessions, StepOf(s),
         UNCHANGED card, pc[s] \notin {"card", "commit"},
         req'[s] # None => chan'[s] \in ProposeChannels,
         \A i \in Ids : dirty'[s][i] # None => Exists(i)
  PROVE  CardInv'
BY CardStep

LEMMA CardCommit ==
  ASSUME PostsCards, CardInv, TypeInv', InsertFirst', NEW s \in Sessions, Commit(s)
  PROVE  CardInv'
<1> USE DEF CardInv, TypeInv, TypeOK
<1>1. /\ UNCHANGED card /\ pc[s] = "commit"
      /\ \A i \in Ids : Exists(i)' <=> Exists(i) \/ dirty[s][i] # None
  BY DEF Commit, Exists
<1>2. /\ \A t \in Sessions \ {s} :
           /\ pc'[t] = pc[t] /\ target'[t] = target[t] /\ dirty'[t] = dirty[t]
           /\ req'[t] = req[t] /\ chan'[t] = chan[t]
      /\ dirty'[s] = NoWrites
      /\ req'[s] # None => req'[s] = req[s] /\ chan'[s] = chan[s]
  BY DEF Commit, EndSession, ResetLocals, Goto, locals
<1>3. Submitting'
  <2>1. \A i \in Ids : dirty'[s][i] = None
    BY <1>2 DEF NoWrites
  <2>2. \A i \in Ids : ~Exists(i)' => ~Exists(i)
    BY <1>1
  <2>3. \A t \in Sessions : req'[t] # None => chan'[t] \in ProposeChannels
    BY <1>2 DEF Submitting
  <2>4. ASSUME NEW t \in Sessions, NEW i \in Ids, dirty'[t][i] # None, ~Exists(i)'
        PROVE  pc'[t] = "commit" /\ req'[t] # None /\ target'[t] = i
    <3>1. t \in Sessions \ {s}
      BY <2>1, <2>4
    <3>2. dirty[t][i] # None /\ ~Exists(i)
      BY <1>2, <2>2, <2>4, <3>1
    <3>3. QED BY <1>2, <3>1, <3>2 DEF Submitting
  <2>5. QED BY <2>3, <2>4 DEF Submitting
<1>4. ASSUME NEW i \in Ids, Exists(i)'
      PROVE  card[i] # None \/ \E t \in Sessions : pc'[t] = "card" /\ target'[t] = i
  <2>1. CASE Exists(i)
    <3>1. card[i] # None \/ \E t \in Sessions \ {s} : pc[t] = "card" /\ target[t] = i
      BY <1>1, <2>1 DEF EveryProposalHasCard
    <3>2. QED BY <1>2, <3>1
  <2>2. CASE ~Exists(i)
    <3>1. req[s] # None /\ target[s] = i /\ Notifies(chan[s])
      BY <1>1, <1>4, <2>2 DEF Submitting, PostsCards
    <3>2. Goto(s, "card") /\ UNCHANGED locals
      BY <2>2, <3>1 DEF Commit, Created
    <3>3. QED BY <3>1, <3>2 DEF Goto, locals
  <2>3. QED BY <2>1, <2>2
<1>5. EveryProposalHasCard'
  BY <1>1, <1>4 DEF EveryProposalHasCard
<1>6. QED BY <1>3, <1>5

LEMMA CardNext ==
  ASSUME PostsCards, CardInv, TypeInv', InsertFirst', Next
  PROVE  CardInv'
<1> USE DEF CardInv, TypeInv, TypeOK
<1>1. ASSUME NEW s \in Sessions, LookupIdem(s) \/ SelectOverdue(s) PROVE CardInv'
  <2>1. /\ StepOf(s) /\ pc[s] = "idle" /\ dirty' = dirty /\ UNCHANGED card
        /\ req'[s] # None => chan'[s] \in ProposeChannels
    BY <1>1, SessionSteps DEF Uncommitted, LookupIdem, SelectOverdue, staged, outside, Submitting
  <2>2. \A i \in Ids : dirty'[s][i] = None
    BY <2>1 DEF InsertFirst, NoWrites
  <2>3. QED BY <2>1, <2>2, CardQuiet
<1>2. ASSUME NEW s \in Sessions, Decide(s) PROVE CardInv'
  <2>1. /\ StepOf(s) /\ pc[s] = "idle" /\ UNCHANGED <<req, card>>
    BY <1>2, SessionSteps DEF Uncommitted, Decide, DecideUpdate, DecideConflict, locals, outside
  <2>2. req[s] = None /\ \A i \in Ids : dirty[s][i] = None
    BY <2>1 DEF LocalsOK, InsertFirst, NoWrites
  <2>3. \A i \in Ids : dirty'[s][i] # None => Exists(i)
    BY <1>2, <2>2 DEF Decide, DecideUpdate, DecideConflict, Stage, IsOpen, staged
  <2>4. QED BY <2>1, <2>2, <2>3, CardQuiet
<1>3. ASSUME NEW s \in Sessions, ListPending(s) \/ ReadLatest(s) PROVE CardInv'
  <2>1. /\ StepOf(s) /\ pc[s] \in {"pending", "latest"}
        /\ UNCHANGED <<chan, req, dirty, card>>
    BY <1>3, SessionSteps DEF Uncommitted, ListPending, ReadLatest, staged, outside
  <2>2. \A i \in Ids : dirty[s][i] # None => Exists(i)
    BY <2>1 DEF Submitting
  <2>3. QED BY <2>1, <2>2, CardQuiet DEF Submitting
<1>4. ASSUME NEW s \in Sessions, EndSession(s), pc[s] # "card", StepOf(s), UNCHANGED card
      PROVE  CardInv'
  BY <1>4, CardEnd
<1>5. ASSUME NEW s \in Sessions, GetTarget(s) PROVE CardInv'
  <2>1. StepOf(s) /\ pc[s] = "get" /\ UNCHANGED card
    BY <1>5, SessionSteps DEF Uncommitted, GetTarget, outside
  <2>2. CASE UNCHANGED <<chan, req, staged>>
    BY <2>1, <2>2, CardQuiet DEF Submitting, staged
  <2>3. QED BY <1>4, <1>5, <2>1, <2>2 DEF GetTarget
<1>6. ASSUME NEW s \in Sessions, FlushAces(s) PROVE CardInv'
  <2>1. /\ StepOf(s) /\ pc[s] = "replace" /\ UNCHANGED <<chan, req, card>>
        /\ target[s] \in Ids /\ Exists(target[s])
    BY <1>6, SessionSteps DEF Uncommitted, FlushAces, locals, outside, LocalsOK
  <2>2. \A i \in Ids : dirty'[s][i] # None => Exists(i)
    BY <1>6, <2>1 DEF FlushAces, Stage, Submitting
  <2>3. QED BY <2>1, <2>2, CardQuiet DEF Submitting
<1>7. ASSUME NEW s \in Sessions, Insert(s) PROVE CardInv'
  <2>1. StepOf(s) /\ pc[s] = "insert" /\ UNCHANGED card /\ req[s] # None
    BY <1>7, SessionSteps DEF Uncommitted, Insert, outside, LocalsOK
  <2>2. ASSUME NEW i \in Ids, NEW r, Stage(s, i, r), target' = [target EXCEPT ![s] = i],
               Goto(s, "commit"), UNCHANGED <<chan, req>>
        PROVE  CardInv'
    <3>1. /\ pc'[s] = "commit" /\ target'[s] = i
          /\ \A j \in Ids \ {i} : dirty'[s][j] = None
      BY <2>1, <2>2 DEF Stage, Goto, InsertFirst, NoWrites
    <3>2. QED BY <2>1, <2>2, <3>1, CardStep DEF Submitting
  <2>3. QED BY <1>4, <1>7, <2>1, <2>2 DEF Insert
<1>8. ASSUME NEW s \in Sessions, PostCard(s) PROVE CardInv'
  <2>1. /\ StepOf(s) /\ EndSession(s) /\ target[s] \in Ids
        /\ card' = [card EXCEPT ![target[s]] = aces[s]] /\ aces[s] # None
    BY <1>8, SessionSteps DEF Uncommitted, PostCard, PostsCards, LocalsOK
  <2>2. QED BY <2>1, CardEnd
<1>9. ASSUME NEW s \in Sessions, CreateVersion(s) \/ ApplyFails(s) PROVE CardInv'
  <2>1. /\ StepOf(s) /\ pc[s] \in {"latest", "create"} /\ UNCHANGED card
        /\ target[s] \in Ids /\ dirty[s][target[s]] # None
        /\ \A i \in Ids : dirty[s][i] # None => Exists(i)
    BY <1>9, SessionSteps DEF Uncommitted, CreateVersion, ApplyFails, outside, LocalsOK, Submitting
  <2>2. ASSUME NEW st, NEW e, Advance(s, st, e), UNCHANGED <<chan, req>>
        PROVE  CardInv'
    <3>1. \A i \in Ids : dirty'[s][i] # None => Exists(i)
      BY <2>1, <2>2 DEF Advance, Stage
    <3>2. QED BY <2>1, <2>2, <3>1, CardQuiet DEF Submitting
  <2>3. QED BY <1>4, <1>9, <2>1, <2>2 DEF CreateVersion, ApplyFails, locals
<1>10. ASSUME NEW s \in Sessions, Ack(s) PROVE CardInv'
  <2>1. StepOf(s) /\ pc[s] = "ack" /\ UNCHANGED card
    BY <1>10, SessionSteps DEF Uncommitted, Ack
  <2>2. CASE UNCHANGED <<locals, staged>>
    BY <2>1, <2>2, CardQuiet DEF Submitting, locals, staged
  <2>3. QED BY <1>4, <1>10, <2>1, <2>2 DEF Ack
<1>11. ASSUME NEW s \in Sessions, FlushExpired(s) PROVE CardInv'
  <2>1. /\ StepOf(s) /\ pc[s] = "sweep" /\ UNCHANGED <<chan, req, card>>
        /\ \A i \in selected[s] : Exists(i)
    BY <1>11, SessionSteps DEF Uncommitted, FlushExpired, locals, outside, LocalsOK
  <2>2. \A i \in Ids : dirty'[s][i] # None => i \in selected[s]
    BY <1>11 DEF FlushExpired
  <2>3. QED BY <2>1, <2>2, CardQuiet DEF Submitting
<1>12. ASSUME NEW s \in Sessions, Continue(s) PROVE CardInv'
  BY <1>3, <1>5, <1>6, <1>7, <1>8, <1>9, <1>10, <1>11, <1>12, CardCommit DEF Continue
<1>13. ASSUME NEW i \in Ids, MarkNotified(i) \/ ExpiryPasses(i) PROVE CardInv'
  <2>1. \A j \in Ids : Exists(j)' <=> Exists(j)
    <3>1. CASE ExpiryPasses(i)
      BY <3>1 DEF ExpiryPasses, Exists
    <3>2. CASE MarkNotified(i)
      <4> DEFINE r == [proposals[i] EXCEPT !.status = "notified"]
      <4>1. proposals[i] \in Row
        BY <3>2 DEF MarkNotified, Exists
      <4>2. r \in Row
        BY <4>1 DEF Row, Status
      <4>3. proposals' = [proposals EXCEPT ![i] = r] /\ r # None
        BY <3>2, <4>2, NoneAssumption DEF MarkNotified
      <4> HIDE DEF r
      <4>4. QED BY <3>2, <4>3 DEF MarkNotified, Exists
    <3>3. QED BY <1>13, <3>1, <3>2
  <2>2. UNCHANGED <<pc, chan, req, target, dirty, card>>
    BY <1>13 DEF MarkNotified, ExpiryPasses, locals, staged, outside
  <2>3. QED BY <2>1, <2>2 DEF Submitting, EveryProposalHasCard
<1>14. QED
  BY <1>1, <1>2, <1>12, <1>13 DEF Next, Crash, PostsCards

\* Every proposal an operator is to decide reaches the room: as long as nothing
\* dies and posts get through, each has a card or a session about to post it.
THEOREM CardForEach == ASSUME PostsCards PROVE Spec => []EveryProposalHasCard
<1>1. Spec => []IdemInv
  BY IdemInit, IdemNext, PTL DEF Spec
<1>2. CardInv /\ IdemInv' /\ Next => CardInv'
  BY CardNext DEF IdemInv
<1>3. CardInv /\ UNCHANGED vars => CardInv'
  <2> SUFFICES ASSUME CardInv, UNCHANGED vars PROVE CardInv'
    OBVIOUS
  <2>1. TypeInv'
    BY TypeStutter DEF CardInv
  <2>2. QED
    BY <2>1 DEF vars, db, locals, staged, outside, CardInv, InsertFirst, Submitting,
       EveryProposalHasCard, Exists
<1>4. CardInv => EveryProposalHasCard
  BY DEF CardInv
<1>5. QED BY <1>1, <1>2, <1>3, <1>4, CardInit, PTL DEF Spec

=============================================================================
