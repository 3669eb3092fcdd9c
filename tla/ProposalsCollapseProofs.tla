---------------------- MODULE ProposalsCollapseProofs ----------------------
(* Theorems about collapses, one session at a time: a submission that meets  *)
(* an open proposal of its pair is merged into it, and nothing is lost.      *)
EXTENDS ProposalsSerialProofs

-----------------------------------------------------------------------------
(* The inductive invariant                                                  *)

\* One session at a time: several of them lose submissions on either database,
\* because propose() reads what it merges before it writes.
Alone == \A s, t \in Sessions : s = t

\* No open proposal is about this pair.
StillNew(p) == \A j \in Ids : IsOpen(j) => proposals[j].pair # p

\* The ACEs replace_aces is about to leave in the row.
NextAces(s) == IF aces[s] = None THEN proposals[target[s]].aces ELSE aces[s]

CollapseOK(s) ==
  /\ pc[s] \in {"get", "replace"} =>
       IsOpen(target[s]) /\ proposals[target[s]].pair = req[s].pair
  /\ pc[s] = "get" => aces[s] = proposals[target[s]].aces
  /\ pc[s] = "replace" => /\ Covers(NextAces(s), proposals[target[s]].aces)
                          /\ Covers(NextAces(s), req[s].aces)
  /\ pc[s] = "insert" => StillNew(req[s].pair)
  /\ pc[s] = "commit" /\ req[s] # None =>
       /\ dirty[s][target[s]] # None
       /\ dirty[s][target[s]].pair = req[s].pair
       /\ Covers(dirty[s][target[s]].aces, req[s].aces)
  /\ \A i \in Ids : dirty[s][i] # None =>
       IF Exists(i) THEN IsOpen(i) /\ Covers(dirty[s][i].aces, proposals[i].aces)
                    ELSE StillNew(dirty[s][i].pair)
  /\ pc[s] \in {"latest", "create"} => aces[s] = dirty[s][target[s]].aces
  /\ newver[s] # None => newver[s].aces = dirty[s][newver[s].proposal].aces

Kept == OneOpenPerPair /\ SubmissionsKept /\ AppliedRecordExact

CollapseInv == /\ TurnInv
               /\ \A s \in Sessions : CollapseOK(s)
               /\ Kept

LEMMA AloneIsEnough == Alone => TakeTurns /\ SweepAlone
BY DEF Alone, TakeTurns, SweepAlone

LEMMA CoversSame == \A a : Covers(a, a)
BY DEF Covers

-----------------------------------------------------------------------------
(* Steps that commit nothing                                                *)

LEMMA CollapseInit == Init => CollapseInv
<1> SUFFICES ASSUME Init PROVE CollapseInv
  OBVIOUS
<1>1. ASSUME NEW s \in Sessions PROVE CollapseOK(s)
  BY DEF Init, CollapseOK, NoWrites
<1>2. Kept
  BY DEF Init, Kept, OneOpenPerPair, SubmissionsKept, AppliedRecordExact, IsOpen, Exists
<1>3. QED BY <1>1, <1>2, TurnInit DEF CollapseInv

\* What is left to show of a step that commits nothing.
LEMMA CollapseStep ==
  ASSUME Alone, CollapseInv, TurnInv', NEW s \in Sessions,
         UNCHANGED <<proposals, versions, accepted>>, CollapseOK(s)'
  PROVE  CollapseInv'
<1>1. \A t \in Sessions : CollapseOK(t)'
  BY DEF Alone
<1>2. Kept'
  BY DEF CollapseInv, Kept, OneOpenPerPair, SubmissionsKept, AppliedRecordExact,
         IsOpen, Exists
<1>3. QED BY <1>1, <1>2 DEF CollapseInv

\* A session that ends, or has staged nothing and is still to list the pair's
\* proposals, has nothing to keep.
LEMMA CollapseIdle ==
  ASSUME Alone, CollapseInv, TurnInv', NEW s \in Sessions,
         UNCHANGED <<proposals, versions, accepted>>,
         pc'[s] \in {"idle", "pending", "sweep"}
  PROVE  CollapseInv'
<1>1. newver'[s] = None /\ \A i \in Ids : dirty'[s][i] = None
  BY DEF TurnInv, DecideInv, SessionOK, Reading, NoWrites
<1>2. CollapseOK(s)'
  BY <1>1 DEF CollapseOK
<1>3. QED BY <1>2, CollapseStep

LEMMA CollapseEnd ==
  ASSUME Alone, CollapseInv, TurnInv', NEW s \in Sessions, EndSession(s),
         UNCHANGED <<proposals, versions, accepted>>
  PROVE  CollapseInv'
<1>1. pc'[s] = "idle"
  BY DEF EndSession, Goto, CollapseInv, TurnInv, DecideInv, TypeInv, TypeOK
<1>2. QED BY <1>1, CollapseIdle

\* A session that is still reading has staged nothing.
LEMMA CollapseReads ==
  ASSUME CollapseInv, NEW s \in Sessions, pc[s] \in Reading
  PROVE  newver[s] = None /\ \A i \in Ids : dirty[s][i] = None
BY ReadingClean DEF CollapseInv

LEMMA CollapseListPending ==
  ASSUME Alone, CollapseInv, TurnInv', NEW s \in Sessions, ListPending(s)
  PROVE  CollapseInv'
<1> USE DEF CollapseInv, TurnInv, DecideInv, TypeInv, TypeOK
<1>1. /\ UNCHANGED <<proposals, versions, accepted, dirty, newver, req>>
      /\ pc[s] = "pending" /\ pc'[s] \in {"get", "insert"}
  BY DEF ListPending, Goto, db, staged, outside
<1>2. newver'[s] = None /\ \A i \in Ids : dirty'[s][i] = None
  BY <1>1, CollapseReads DEF Reading
<1>3. CASE /\ PendingForPair(req[s].pair) = {} /\ Goto(s, "insert")
  <2>1. StillNew(req[s].pair)' /\ pc'[s] = "insert"
    BY <1>1, <1>3 DEF StillNew, PendingForPair, Goto, IsOpen, Exists
  <2>2. CollapseOK(s)'
    BY <1>2, <2>1 DEF CollapseOK
  <2>3. QED BY <1>1, <2>2, CollapseStep
<1>4. ASSUME NEW i \in PendingForPair(req[s].pair), target' = [target EXCEPT ![s] = i],
             aces' = [aces EXCEPT ![s] = proposals[i].aces], Goto(s, "get")
      PROVE  CollapseInv'
  <2>1. target'[s] = i /\ aces'[s] = proposals[i].aces /\ pc'[s] = "get"
    BY <1>4 DEF Goto
  <2>2. i \in Ids /\ IsOpen(i)' /\ proposals'[i].pair = req'[s].pair
    BY <1>1, <1>4 DEF PendingForPair, IsOpen, Exists
  <2>3. CollapseOK(s)'
    BY <1>1, <1>2, <2>1, <2>2 DEF CollapseOK
  <2>4. QED BY <1>1, <2>3, CollapseStep
<1>5. QED BY <1>3, <1>4 DEF ListPending

LEMMA CollapseGetTarget ==
  ASSUME Alone, CollapseInv, TurnInv', NEW s \in Sessions, GetTarget(s)
  PROVE  CollapseInv'
<1> DEFINE i      == target[s]
           merged == MergeAces(aces[s], req[s].aces)
<1> USE DEF CollapseInv, TurnInv, DecideInv, TypeInv, TypeOK
<1>1. UNCHANGED <<proposals, versions, accepted>> /\ pc[s] = "get"
  BY DEF GetTarget, db, outside
<1>2. CASE EndSession(s)
  BY <1>1, <1>2, CollapseEnd
<1>3. CASE /\ aces' = [aces EXCEPT ![s] = IF merged = proposals[i].aces THEN None ELSE merged]
           /\ Goto(s, "replace")
           /\ UNCHANGED <<chan, req, target, base, selected, staged>>
  <2>1. /\ i \in Ids /\ IsOpen(i) /\ proposals[i] \in Row
        /\ proposals[i].pair = req[s].pair /\ aces[s] = proposals[i].aces
    BY <1>1 DEF CollapseOK, LocalsOK, IsOpen, Exists
  <2>2. aces[s] \in Aces /\ req[s].aces \in Aces
    BY <1>1, <2>1, RequestsAssumption DEF Row, LocalsOK, Shape
  <2>3. Covers(merged, aces[s]) /\ Covers(merged, req[s].aces) /\ merged \in Aces
    BY <2>2, MergeCovers, MergeType
  <2>4. /\ pc'[s] = "replace" /\ req'[s] = req[s] /\ target'[s] = i
        /\ aces'[s] = IF merged = proposals[i].aces THEN None ELSE merged
    BY <1>3 DEF Goto
  <2>5. NextAces(s)' = merged
    BY <1>1, <2>3, <2>4, NoneAssumption DEF NextAces
  <2>6. newver'[s] = None /\ \A j \in Ids : dirty'[s][j] = None
    BY <1>1, <1>3, CollapseReads DEF Reading, staged
  <2>7. IsOpen(target[s])' /\ proposals'[target'[s]] = proposals[i]
    BY <1>1, <2>1, <2>4 DEF IsOpen, Exists
  <2> HIDE DEF merged, i
  <2>8. CollapseOK(s)'
    BY <1>1, <2>1, <2>3, <2>4, <2>5, <2>6, <2>7 DEF CollapseOK
  <2>9. QED BY <1>1, <2>8, CollapseStep
<1>4. QED BY <1>2, <1>3 DEF GetTarget

LEMMA CollapseFlushAces ==
  ASSUME Alone, CollapseInv, TurnInv', NEW s \in Sessions, FlushAces(s)
  PROVE  CollapseInv'
<1> USE DEF CollapseInv, TurnInv, DecideInv, TypeInv, TypeOK
<1>1. /\ UNCHANGED <<proposals, versions, accepted, newver, req, target>>
      /\ pc[s] = "replace" /\ pc'[s] = "commit"
  BY DEF FlushAces, Goto, db, locals, outside
<1>2. newver[s] = None /\ \A j \in Ids : dirty[s][j] = None
  BY <1>1, CollapseReads DEF Reading
<1>3. PICK i \in Ids : i = target[s]
  BY <1>1 DEF LocalsOK
<1>4. /\ IsOpen(i) /\ proposals[i] \in Row /\ proposals[i].pair = req[s].pair
      /\ Covers(NextAces(s), proposals[i].aces) /\ Covers(NextAces(s), req[s].aces)
  BY <1>1, <1>3 DEF CollapseOK, LocalsOK, IsOpen, Exists
<1> DEFINE r == [proposals[i] EXCEPT !.aces = IF aces[s] = None THEN @ ELSE aces[s]]
<1>5. NextAces(s) \in Aces
  BY <1>3, <1>4 DEF NextAces, Row
<1>6. r \in Row /\ r.pair = req[s].pair /\ r.aces = NextAces(s)
  BY <1>3, <1>4, <1>5 DEF Row, NextAces
<1>7. dirty' = [dirty EXCEPT ![s][i] = r]
  BY <1>3 DEF FlushAces, Stage
<1>8. IsOpen(i)'
  BY <1>1, <1>4 DEF IsOpen, Exists
<1> HIDE DEF r
<1>9. r # None /\ dirty'[s][i] = r /\ \A j \in Ids \ {i} : dirty'[s][j] = None
  BY <1>2, <1>6, <1>7, NoneAssumption
<1>10. CollapseOK(s)'
  BY <1>1, <1>2, <1>3, <1>4, <1>6, <1>8, <1>9 DEF CollapseOK, IsOpen
<1>11. QED BY <1>1, <1>10, CollapseStep

LEMMA CollapseInsert ==
  ASSUME Alone, CollapseInv, TurnInv', NEW s \in Sessions, Insert(s)
  PROVE  CollapseInv'
<1> USE DEF CollapseInv, TurnInv, DecideInv, TypeInv, TypeOK
<1>1. UNCHANGED <<proposals, versions, accepted>> /\ pc[s] = "insert"
  BY DEF Insert, db, outside
<1>2. CASE EndSession(s)
  BY <1>1, <1>2, CollapseEnd
<1>3. ASSUME NEW i \in Ids, ~Exists(i), target' = [target EXCEPT ![s] = i],
             NEW r, r = [pair |-> req[s].pair, aces |-> req[s].aces, idem |-> req[s],
                         status |-> "pending", audit |-> <<>>],
             Stage(s, i, r), Goto(s, "commit"), UNCHANGED <<req, newver>>
      PROVE  CollapseInv'
  <2>1. newver[s] = None /\ \A j \in Ids : dirty[s][j] = None
    BY <1>1, CollapseReads DEF Reading
  <2>2. StillNew(req[s].pair) /\ req[s] \in Requests
    BY <1>1 DEF CollapseOK, LocalsOK
  <2>3. r \in Row
    BY <1>3, <2>2, RequestsAssumption DEF Row, Shape, Status
  <2>4. r # None /\ r.pair = req[s].pair /\ r.aces = req[s].aces
    BY <1>3, <2>3, NoneAssumption
  <2>5. dirty'[s][i] = r /\ \A j \in Ids \ {i} : dirty'[s][j] = None
    BY <1>3, <2>1 DEF Stage
  <2>6. target'[s] = i /\ pc'[s] = "commit"
    BY <1>3 DEF Goto
  <2>7. StillNew(req[s].pair)' /\ ~Exists(i)'
    BY <1>1, <1>3, <2>2 DEF StillNew, IsOpen, Exists
  <2>8. CollapseOK(s)'
    BY <1>3, <2>1, <2>4, <2>5, <2>6, <2>7, CoversSame DEF CollapseOK
  <2>9. QED BY <1>1, <2>8, CollapseStep
<1>4. QED BY <1>2, <1>3 DEF Insert

LEMMA CollapseDecideUpdate ==
  ASSUME Alone, CollapseInv, TurnInv', NEW s \in Sessions, NEW i \in Ids,
         NEW d \in {"approved", "rejected"}, NEW c \in DecideChannels,
         DecideUpdate(s, i, d, c)
  PROVE  CollapseInv'
<1> DEFINE r == [proposals[i] EXCEPT !.status = d, !.audit = Append(@, d)]
<1> USE DEF CollapseInv, TurnInv, DecideInv, TypeInv, TypeOK
<1>1. /\ UNCHANGED <<proposals, versions, accepted, newver, req>>
      /\ pc[s] = "idle" /\ IsOpen(i) /\ pc'[s] \in {"latest", "ack", "commit"}
      /\ target'[s] = i /\ aces'[s] = proposals[i].aces
  BY DEF DecideUpdate, db, outside, Goto, AfterDecision, AcesToApply
<1>2. newver[s] = None /\ req[s] = None /\ \A j \in Ids : dirty[s][j] = None
  BY <1>1, CollapseReads DEF Reading, LocalsOK
<1>3. r.aces = proposals[i].aces
  BY <1>1 DEF IsOpen, Exists, Row
<1>4. dirty' = [dirty EXCEPT ![s][i] = r]
  BY DEF DecideUpdate, Stage
<1> HIDE DEF r
<1>5. dirty'[s][i] = r /\ \A j \in Ids \ {i} : dirty'[s][j] = None
  BY <1>2, <1>4
<1>6. IsOpen(i)'
  BY <1>1 DEF IsOpen, Exists
<1>7. CollapseOK(s)'
  BY <1>1, <1>2, <1>3, <1>5, <1>6, CoversSame DEF CollapseOK, IsOpen
<1>8. QED BY <1>1, <1>7, CollapseStep

\* A step that writes nothing and leaves the session where it is, or lets it go
\* on with its decision.
LEMMA CollapseSame ==
  ASSUME Alone, CollapseInv, TurnInv', NEW s \in Sessions,
         UNCHANGED <<proposals, versions, accepted, req, target, aces, dirty, newver>>,
         \/ pc'[s] = pc[s]
         \/ pc[s] = "latest" /\ pc'[s] = "create"
         \/ pc[s] = "ack" /\ pc'[s] = "commit"
  PROVE  CollapseInv'
<1>1. pc[s] = "ack" => req[s] = None
  BY DEF CollapseInv, TurnInv, DecideInv, TypeInv, LocalsOK
<1>2. CollapseOK(s)'
  BY <1>1 DEF CollapseInv, CollapseOK, StillNew, NextAces, IsOpen, Exists
<1>3. QED BY <1>2, CollapseStep

LEMMA CollapseReadLatest ==
  ASSUME Alone, CollapseInv, TurnInv', NEW s \in Sessions, ReadLatest(s)
  PROVE  CollapseInv'
<1>1. UNCHANGED <<proposals, versions, accepted, req, target, aces, dirty, newver>>
  BY DEF ReadLatest, db, staged, outside
<1>2. pc[s] = "latest" /\ pc'[s] = "create"
  BY DEF ReadLatest, Goto, CollapseInv, TurnInv, DecideInv, TypeInv, TypeOK
<1>3. QED BY <1>1, <1>2, CollapseSame

\* mark_status changes no ACEs.
LEMMA CollapseAdvance ==
  ASSUME Alone, CollapseInv, TurnInv', NEW s \in Sessions, pc[s] \in {"latest", "create"},
         NEW st \in {"applied", "failed"}, NEW e \in {"applied", "apply_failed"},
         Trail[st] = <<"approved", e>>, Advance(s, st, e),
         UNCHANGED <<proposals, versions, accepted, req>>, pc'[s] \in {"ack", "commit"},
         newver'[s] # None => /\ newver'[s].proposal = target[s]
                              /\ newver'[s].aces = aces[s]
  PROVE  CollapseInv'
<1>0. DecideInv
  BY DEF CollapseInv, TurnInv
<1>1. CollapseOK(s) /\ req[s] = None /\ dirty[s][target[s]] # None
  BY <1>0 DEF CollapseInv, DecideInv, TypeInv, LocalsOK
<1>2. PICK i \in Ids : i = target[s]
  BY <1>0, AdvanceDecide
<1>3. /\ IsOpen(i) /\ dirty'[s][i].aces = dirty[s][i].aces
      /\ \A j \in Ids \ {i} : dirty'[s][j] = dirty[s][j]
  BY <1>0, <1>2, AdvanceDecide
<1>4. aces[s] = dirty[s][i].aces
  BY <1>1, <1>2 DEF CollapseOK
<1>5. \A j \in Ids : /\ IsOpen(j)' <=> IsOpen(j)
                     /\ Exists(j)' <=> Exists(j)
                     /\ proposals'[j] = proposals[j]
  BY DEF IsOpen, Exists
<1>6. ASSUME NEW j \in Ids, dirty'[s][j] # None
      PROVE  IF Exists(j)' THEN IsOpen(j)' /\ Covers(dirty'[s][j].aces, proposals'[j].aces)
                           ELSE StillNew(dirty[s][j].pair)'
  <2>1. CASE j = i
    BY <1>1, <1>2, <1>3, <1>5, <2>1 DEF CollapseOK, IsOpen
  <2>2. CASE j # i
    <3>1. dirty'[s][j] = dirty[s][j]
      BY <1>3, <2>2
    <3>2. IF Exists(j) THEN IsOpen(j) /\ Covers(dirty[s][j].aces, proposals[j].aces)
                       ELSE StillNew(dirty[s][j].pair)
      BY <1>1, <1>6, <3>1 DEF CollapseOK
    <3>3. QED BY <1>5, <3>1, <3>2 DEF StillNew
  <2>3. QED BY <2>1, <2>2
<1>7. req'[s] = None /\ (newver'[s] # None => newver'[s].aces = dirty'[s][newver'[s].proposal].aces)
  BY <1>1, <1>2, <1>3, <1>4
<1>8. CollapseOK(s)'
  BY <1>6, <1>7 DEF CollapseOK
<1>9. QED BY <1>8, CollapseStep

LEMMA CollapseCreateVersion ==
  ASSUME Alone, CollapseInv, TurnInv', NEW s \in Sessions, CreateVersion(s)
  PROVE  CollapseInv'
<1> USE DEF CollapseInv, TurnInv, DecideInv, TypeInv, TypeOK
<1>1. /\ UNCHANGED <<proposals, versions, accepted, req>> /\ pc[s] = "create"
      /\ pc'[s] \in {"ack", "commit"}
      /\ Advance(s, "applied", "applied") /\ Trail["applied"] = <<"approved", "applied">>
  BY DEF CreateVersion, AfterDecision, Goto, locals, outside, Trail
<1>2. newver'[s].proposal = target[s] /\ newver'[s].aces = aces[s]
  <2>1. newver'[s] = VersionMade(s)
    BY NewVersionType
  <2>2. QED BY <2>1 DEF VersionMade
<1>3. QED BY <1>1, <1>2, CollapseAdvance

LEMMA CollapseApplyFails ==
  ASSUME Alone, CollapseInv, TurnInv', NEW s \in Sessions, ApplyFails(s)
  PROVE  CollapseInv'
<1> USE DEF CollapseInv, TurnInv, DecideInv, TypeInv, TypeOK
<1>1. UNCHANGED <<proposals, versions, accepted>> /\ pc[s] \in {"latest", "create"}
  BY DEF ApplyFails, db
<1>2. CASE EndSession(s)
  BY <1>1, <1>2, CollapseEnd
<1>3. CASE /\ Advance(s, "failed", "apply_failed") /\ UNCHANGED <<locals, newver>>
           /\ Goto(s, IF chan[s] = "command" THEN "ack" ELSE "commit")
  <2>1. Trail["failed"] = <<"approved", "apply_failed">>
    BY DEF Trail
  <2>2. newver'[s] = None /\ UNCHANGED req
    BY <1>1, <1>3 DEF SessionOK, locals
  <2>3. pc'[s] \in {"ack", "commit"}
    BY <1>3 DEF Goto
  <2>4. QED BY <1>1, <1>3, <2>1, <2>2, <2>3, CollapseAdvance
<1>4. QED BY <1>2, <1>3 DEF ApplyFails

LEMMA CollapseAck ==
  ASSUME Alone, CollapseInv, TurnInv', NEW s \in Sessions, Ack(s)
  PROVE  CollapseInv'
<1>1. UNCHANGED <<proposals, versions, accepted>> /\ pc[s] = "ack"
  BY DEF Ack, db
<1>2. CASE EndSession(s)
  BY <1>1, <1>2, CollapseEnd
<1>3. CASE Goto(s, "commit") /\ UNCHANGED <<locals, staged>>
  <2>1. pc'[s] = "commit" /\ UNCHANGED <<req, target, aces, dirty, newver>>
    BY <1>3 DEF Goto, locals, staged, CollapseInv, TurnInv, DecideInv, TypeInv, TypeOK
  <2>2. QED BY <1>1, <2>1, CollapseSame
<1>4. QED BY <1>2, <1>3 DEF Ack

LEMMA CollapseFlushExpired ==
  ASSUME Alone, CollapseInv, TurnInv', NEW s \in Sessions, FlushExpired(s)
  PROVE  CollapseInv'
<1> DEFINE r(i) == [proposals[i] EXCEPT !.status = "expired",
                                        !.audit = Append(@, "expired")]
<1> USE DEF CollapseInv, TurnInv, DecideInv, TypeInv, TypeOK
<1>1. /\ UNCHANGED <<proposals, versions, accepted, newver, req>>
      /\ pc[s] = "sweep" /\ pc'[s] = "commit"
  BY DEF FlushExpired, Goto, db, locals, outside
<1>2. newver[s] = None /\ req[s] = None
  BY <1>1, CollapseReads DEF Reading, LocalsOK
<1>3. ASSUME NEW i \in selected[s]
      PROVE  i \in Ids /\ IsOpen(i) /\ r(i).aces = proposals[i].aces
  <2>1. i \in Ids /\ IsOpen(i)
    BY <1>1 DEF SessionOK
  <2>2. proposals[i] \in Row
    BY <2>1 DEF IsOpen, Exists
  <2>3. QED BY <2>1, <2>2 DEF Row
<1>4. dirty' = [dirty EXCEPT ![s] = [i \in Ids |-> IF i \in selected[s] THEN r(i) ELSE None]]
  BY DEF FlushExpired
<1> HIDE DEF r
<1>5. \A i \in Ids : dirty'[s][i] = IF i \in selected[s] THEN r(i) ELSE None
  BY <1>4
<1>6. ASSUME NEW i \in Ids, dirty'[s][i] # None
      PROVE  Exists(i)' /\ IsOpen(i)' /\ Covers(dirty'[s][i].aces, proposals'[i].aces)
  <2>1. i \in selected[s] /\ dirty'[s][i] = r(i)
    BY <1>5, <1>6
  <2>2. QED BY <1>1, <1>3, <2>1, CoversSame DEF IsOpen, Exists
<1>7. CollapseOK(s)'
  BY <1>1, <1>2, <1>6 DEF CollapseOK
<1>8. QED BY <1>1, <1>7, CollapseStep

\* mark_notified takes a row from one open status to the other.
LEMMA CollapseMarkNotified ==
  ASSUME Alone, CollapseInv, TurnInv', NEW i \in Ids, MarkNotified(i)
  PROVE  CollapseInv'
<1> DEFINE r == [proposals[i] EXCEPT !.status = "notified"]
<1> USE DEF CollapseInv, TurnInv, DecideInv, TypeInv, TypeOK
<1>1. /\ IsOpen(i) /\ proposals[i] \in Row
      /\ UNCHANGED <<versions, pc, req, target, aces, dirty, newver, accepted>>
  BY DEF MarkNotified, IsOpen, Open, Exists, locals, staged, outside
<1>2. r.status = "notified" /\ r.pair = proposals[i].pair /\ r.aces = proposals[i].aces
  BY <1>1 DEF Row
<1>3. r # None
  BY <1>1, NoneAssumption DEF Row, Status
<1>4. proposals' = [proposals EXCEPT ![i] = r]
  BY DEF MarkNotified
<1> HIDE DEF r
<1>5. proposals'[i] = r /\ \A j \in Ids \ {i} : proposals'[j] = proposals[j]
  BY <1>4
<1>6. \A j \in Ids : /\ IsOpen(j)' <=> IsOpen(j)
                     /\ Exists(j)' <=> Exists(j)
                     /\ Exists(j) => /\ proposals'[j].pair = proposals[j].pair
                                     /\ proposals'[j].aces = proposals[j].aces
  BY <1>1, <1>2, <1>3, <1>5 DEF IsOpen, Exists, Open
<1>7. ASSUME NEW t \in Sessions PROVE CollapseOK(t)'
  <2>1. \A j \in Ids : IsOpen(j)' => IsOpen(j) /\ proposals'[j].pair = proposals[j].pair
    BY <1>6 DEF IsOpen
  <2>2. pc[t] \in {"get", "replace"} => target[t] \in Ids /\ Exists(target[t])
    BY DEF LocalsOK
  <2>3. CollapseOK(t)
    OBVIOUS
  <2> HIDE DEF CollapseInv, TurnInv, DecideInv, TypeInv, TypeOK
  <2>4. ASSUME NEW j \in Ids, dirty'[t][j] # None
        PROVE  IF Exists(j)' THEN IsOpen(j)' /\ Covers(dirty'[t][j].aces, proposals'[j].aces)
                             ELSE StillNew(dirty[t][j].pair)'
    <3>1. dirty'[t][j] = dirty[t][j]
      BY <1>1
    <3>2. IF Exists(j) THEN IsOpen(j) /\ Covers(dirty[t][j].aces, proposals[j].aces)
                       ELSE StillNew(dirty[t][j].pair)
      BY <2>3, <2>4, <3>1 DEF CollapseOK
    <3>3. QED BY <1>6, <2>1, <3>1, <3>2 DEF StillNew
  <2>5. pc[t] = "insert" => StillNew(req[t].pair)'
    <3>1. pc[t] = "insert" => StillNew(req[t].pair)
      BY <2>3 DEF CollapseOK
    <3>2. req'[t] = req[t]
      BY <1>1
    <3>3. QED BY <2>1, <3>1, <3>2 DEF StillNew
  <2>6. pc[t] \in {"get", "replace"} =>
          /\ IsOpen(target[t])' /\ proposals'[target[t]].pair = req[t].pair
          /\ proposals'[target[t]].aces = proposals[target[t]].aces
    BY <1>1, <1>6, <2>2, <2>3 DEF CollapseOK
  <2>7. pc[t] = "replace" => NextAces(t)' = NextAces(t)
    BY <1>1, <2>6 DEF NextAces
  <2>8. QED BY <1>1, <2>3, <2>4, <2>5, <2>6, <2>7 DEF CollapseOK
<1>8. Kept'
  <2>1. OneOpenPerPair'
    BY <1>6 DEF Kept, OneOpenPerPair, IsOpen
  <2>2. SubmissionsKept'
    BY <1>1, <1>6 DEF Kept, SubmissionsKept
  <2>3. \A v \in versions : v.proposal \in Ids /\ Exists(v.proposal)
    BY DEF Committed, VersionsFolded, Version
  <2>4. AppliedRecordExact'
    BY <1>1, <1>6, <2>3 DEF Kept, AppliedRecordExact
  <2>5. QED BY <2>1, <2>2, <2>4 DEF Kept
<1>9. QED BY <1>7, <1>8 DEF CollapseInv

-----------------------------------------------------------------------------
(* Commit                                                                   *)

LEMMA CommitOpens ==
  ASSUME CollapseInv, NEW s \in Sessions, Commit(s), NEW i \in Ids, IsOpen(i)'
  PROVE  \/ IsOpen(i) /\ proposals'[i].pair = proposals[i].pair
         \/ ~Exists(i) /\ dirty[s][i] # None /\ StillNew(proposals'[i].pair)
<1>1. Exists(i)' /\ proposals'[i].status \in Open
  BY DEF IsOpen
<1>2. CASE Exists(i)
  <2>1. IsOpen(i)
    BY <1>1, <1>2, CommittedRow DEF CollapseInv, TurnInv, IsOpen, Open
  <2>2. QED BY <1>2, <2>1, CommitPairs DEF CollapseInv
<1>3. CASE ~Exists(i)
  <2>1. dirty[s][i] # None /\ proposals'[i] = dirty[s][i]
    BY <1>1, <1>3, CommitEffect DEF CollapseInv, TurnInv, Exists
  <2>2. QED BY <1>3, <2>1 DEF CollapseInv, CollapseOK
<1>4. QED BY <1>2, <1>3

LEMMA CommitOneOpen ==
  ASSUME CollapseInv, NEW s \in Sessions, Commit(s)
  PROVE  OneOpenPerPair'
<1> SUFFICES ASSUME NEW i \in Ids, NEW j \in Ids, IsOpen(i)', IsOpen(j)',
                    proposals'[i].pair = proposals'[j].pair
             PROVE  i = j
  BY DEF OneOpenPerPair
<1>1. CASE IsOpen(i) /\ IsOpen(j)
  BY <1>1, CommitPairs DEF CollapseInv, Kept, OneOpenPerPair, IsOpen
<1>2. CASE ~IsOpen(i) /\ ~IsOpen(j)
  <2>1. dirty[s][i] # None /\ dirty[s][j] # None
    BY <1>2, CommitOpens
  <2>2. QED BY <1>2, <2>1 DEF CollapseInv, TurnInv, TurnOK, OneRow
<1>3. CASE IsOpen(i) /\ ~IsOpen(j)
  BY <1>3, CommitOpens DEF StillNew, IsOpen
<1>4. CASE ~IsOpen(i) /\ IsOpen(j)
  BY <1>4, CommitOpens DEF StillNew, IsOpen
<1>5. QED BY <1>1, <1>2, <1>3, <1>4

LEMMA CommitKeepsSubmissions ==
  ASSUME CollapseInv, TurnInv', NEW s \in Sessions, Commit(s)
  PROVE  SubmissionsKept'
<1> SUFFICES ASSUME NEW r \in accepted'
             PROVE  \E i \in Ids : /\ Exists(i)' /\ proposals'[i].pair = r.pair
                                   /\ Covers(proposals'[i].aces, r.aces)
  BY DEF SubmissionsKept
<1>0. /\ proposals \in [Ids -> Row \cup {None}] /\ proposals' \in [Ids -> Row \cup {None}]
      /\ accepted \subseteq Requests
  BY DEF CollapseInv, TurnInv, DecideInv, TypeInv, TypeOK
<1>1. CASE r \in accepted
  <2>1. PICK i \in Ids : /\ Exists(i) /\ proposals[i].pair = r.pair
                         /\ Covers(proposals[i].aces, r.aces)
    BY <1>1 DEF CollapseInv, Kept, SubmissionsKept
  <2>2. Exists(i)' /\ proposals'[i].pair = r.pair
    BY <2>1, CommitPairs DEF CollapseInv
  <2>3. Covers(proposals'[i].aces, proposals[i].aces)
    <3>1. proposals'[i] = IF dirty[s][i] # None THEN dirty[s][i] ELSE proposals[i]
      BY CommitEffect DEF CollapseInv, TurnInv
    <3>2. dirty[s][i] # None => Covers(dirty[s][i].aces, proposals[i].aces)
      BY <2>1 DEF CollapseInv, CollapseOK
    <3>3. QED BY <3>1, <3>2, CoversSame
  <2>4. Covers(proposals'[i].aces, r.aces)
    <3>1. proposals[i].aces \in Aces /\ proposals'[i].aces \in Aces /\ r.aces \in Aces
      BY <1>0, <1>1, <2>1, <2>2, RequestsAssumption DEF Exists, Row, Shape
    <3>2. QED BY <2>1, <2>3, <3>1, CoversMore
  <2>5. QED BY <2>2, <2>4
<1>2. CASE r \notin accepted
  <2>1. req[s] # None /\ r = req[s] /\ pc[s] = "commit"
    BY <1>2 DEF Commit
  <2>2. PICK i \in Ids : i = target[s]
    BY <2>1 DEF CollapseInv, TurnInv, DecideInv, TypeInv, TypeOK, LocalsOK
  <2>3. dirty[s][i] # None /\ dirty[s][i].pair = r.pair /\ Covers(dirty[s][i].aces, r.aces)
    BY <2>1, <2>2 DEF CollapseInv, CollapseOK
  <2>4. proposals'[i] = dirty[s][i]
    BY <2>3, CommitEffect DEF CollapseInv, TurnInv
  <2>5. QED BY <2>3, <2>4 DEF Exists
<1>3. QED BY <1>1, <1>2

LEMMA CommitRecords ==
  ASSUME CollapseInv, NEW s \in Sessions, Commit(s)
  PROVE  AppliedRecordExact'
<1> SUFFICES ASSUME NEW v \in versions'
             PROVE  proposals'[v.proposal].aces = v.aces
  BY DEF AppliedRecordExact
<1>1. \A i \in Ids : proposals'[i] = IF dirty[s][i] # None THEN dirty[s][i] ELSE proposals[i]
  BY CommitEffect DEF CollapseInv, TurnInv
<1>2. CASE v \in versions
  <2>1. PICK i \in Ids : i = v.proposal
    BY <1>2 DEF CollapseInv, TurnInv, DecideInv, TypeInv, TypeOK, Version
  <2>2. Exists(i) /\ proposals[i].status = "applied"
    BY <1>2, <2>1 DEF CollapseInv, TurnInv, DecideInv, Committed, VersionsFolded,
                      ApplyAtomic, VersionsOf
  <2>3. dirty[s][i] = None
    BY <2>2 DEF CollapseInv, CollapseOK, IsOpen, Open
  <2>4. QED BY <1>1, <1>2, <2>1, <2>3 DEF CollapseInv, Kept, AppliedRecordExact
<1>3. CASE newver[s] # None /\ v = newver[s]
  <2>1. v.proposal \in Ids /\ dirty[s][v.proposal] # None
    BY <1>3 DEF CollapseInv, TurnInv, DecideInv, TypeInv, TypeOK, Version, SessionOK
  <2>2. v.aces = dirty[s][v.proposal].aces
    BY <1>3 DEF CollapseInv, CollapseOK
  <2>3. QED BY <1>1, <2>1, <2>2
<1>4. QED BY <1>2, <1>3, CommitEffect DEF CollapseInv, TurnInv

LEMMA CollapseCommit ==
  ASSUME Alone, CollapseInv, TurnInv', NEW s \in Sessions, Commit(s)
  PROVE  CollapseInv'
<1>1. /\ pc'[s] \in {"idle", "card"} /\ newver'[s] = None
      /\ \A i \in Ids : dirty'[s][i] = None
  BY CommitEffect DEF CollapseInv, TurnInv, NoWrites
<1>2. CollapseOK(s)'
  BY <1>1 DEF CollapseOK
<1>3. \A t \in Sessions : CollapseOK(t)'
  BY <1>2 DEF Alone
<1>4. Kept'
  BY CommitOneOpen, CommitKeepsSubmissions, CommitRecords DEF Kept
<1>5. QED BY <1>3, <1>4 DEF CollapseInv

-----------------------------------------------------------------------------

LEMMA CollapseNext == Alone /\ CollapseInv /\ [Next]_vars => CollapseInv'
<1> SUFFICES ASSUME Alone, CollapseInv, [Next]_vars PROVE CollapseInv'
  OBVIOUS
<1>0. TurnInv'
  BY AloneIsEnough, TurnNext DEF CollapseInv
<1> USE <1>0
<1>1. ASSUME NEW s \in Sessions, LookupIdem(s) \/ SelectOverdue(s) PROVE CollapseInv'
  <2>1. pc'[s] \in {"pending", "sweep"} /\ UNCHANGED <<proposals, versions, accepted>>
    BY <1>1 DEF LookupIdem, SelectOverdue, Goto, db, outside, CollapseInv, TurnInv,
                DecideInv, TypeInv, TypeOK
  <2>2. QED BY <2>1, CollapseIdle
<1>2. ASSUME NEW s \in Sessions, NEW i \in Ids, DecideConflict(s, i) PROVE CollapseInv'
  <2>1. UNCHANGED <<proposals, versions, accepted, req, target, aces, dirty, newver>>
    BY <1>2 DEF DecideConflict, db, locals, staged
  <2>2. pc'[s] = pc[s]
    BY <1>2 DEF DecideConflict
  <2>3. QED BY <2>1, <2>2, CollapseSame
<1>3. ASSUME NEW s \in Sessions, Decide(s) PROVE CollapseInv'
  BY <1>2, <1>3, CollapseDecideUpdate DEF Decide
<1>4. ASSUME NEW s \in Sessions, Crash(s) \/ PostCard(s) PROVE CollapseInv'
  <2>1. EndSession(s) /\ UNCHANGED <<proposals, versions, accepted>>
    BY <1>4 DEF Crash, PostCard, db, outside
  <2>2. QED BY <2>1, CollapseEnd
<1>5. ASSUME NEW s \in Sessions, Continue(s) PROVE CollapseInv'
  BY <1>4, <1>5, CollapseListPending, CollapseGetTarget, CollapseFlushAces,
     CollapseInsert, CollapseReadLatest, CollapseCreateVersion, CollapseApplyFails,
     CollapseAck, CollapseFlushExpired, CollapseCommit DEF Continue
<1>6. CASE UNCHANGED <<proposals, versions, accepted, pc, req, target, aces, dirty, newver>>
  <2>1. \A s \in Sessions : CollapseOK(s)'
    BY <1>6 DEF CollapseInv, CollapseOK, StillNew, NextAces, IsOpen, Exists
  <2>2. Kept'
    BY <1>6 DEF CollapseInv, Kept, OneOpenPerPair, SubmissionsKept,
                AppliedRecordExact, IsOpen, Exists
  <2>3. QED BY <2>1, <2>2 DEF CollapseInv
<1>7. ASSUME NEW i \in Ids, ExpiryPasses(i) PROVE CollapseInv'
  BY <1>6, <1>7 DEF ExpiryPasses, locals, staged, outside
<1>8. CASE UNCHANGED vars
  BY <1>6, <1>8 DEF vars, db, locals, staged, outside
<1>9. QED
  BY <1>1, <1>3, <1>4, <1>5, <1>7, <1>8, CollapseMarkNotified DEF Next

LEMMA CollapseCorrect == ASSUME Alone PROVE Spec => []CollapseInv
<1>1. Alone
  OBVIOUS
<1>2. CollapseInv /\ [Next]_vars => CollapseInv'
  BY <1>1, CollapseNext
<1>3. QED BY <1>2, CollapseInit, PTL DEF Spec

\* Storms collapse: while one session at a time works on the store, no pair has
\* two open proposals.
THEOREM CollapseToOne == ASSUME Alone PROVE Spec => []OneOpenPerPair
<1>1. Spec => []CollapseInv
  BY CollapseCorrect
<1>2. CollapseInv => OneOpenPerPair
  BY DEF CollapseInv, Kept
<1>3. QED BY <1>1, <1>2, PTL

\* Nothing submitted is lost in a collapse: its ACEs are on a proposal of its
\* pair for good, a deny as a deny, whatever else was merged into the row.
THEOREM NoSubmissionLost == ASSUME Alone PROVE Spec => []SubmissionsKept
<1>1. Spec => []CollapseInv
  BY CollapseCorrect
<1>2. CollapseInv => SubmissionsKept
  BY DEF CollapseInv, Kept
<1>3. QED BY <1>1, <1>2, PTL

\* The row of an applied proposal says what went into the matrix: no collapse
\* writes to it after decide() has read it.
THEOREM RecordOfApproval == ASSUME Alone PROVE Spec => []AppliedRecordExact
<1>1. Spec => []CollapseInv
  BY CollapseCorrect
<1>2. CollapseInv => AppliedRecordExact
  BY DEF CollapseInv, Kept
<1>3. QED BY <1>1, <1>2, PTL

=============================================================================
