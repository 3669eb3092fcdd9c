----------------------- MODULE ProposalsSerialProofs -----------------------
(* Theorems about the matrix when writers take turns, as on SQLite: nothing  *)
(* approved is lost, and the store implements PolicyLedger.                  *)
EXTENDS ProposalsDecisionProofs

-----------------------------------------------------------------------------
(* The inductive invariant                                                  *)

\* One session writes at a time: the database sees to it, or there is only one.
TakeTurns == SerialWriters \/ \A s, t \in Sessions : s = t

SoleWriter ==
  \A s, t \in Sessions, i, j \in Ids : dirty[s][i] # None /\ dirty[t][j] # None => s = t

\* What latest_for_tenant returns.
IsNewest(b) == IF versions = {} THEN b = None ELSE b \in versions /\ IsLatest(b)

\* v is the next version after b: what CreateVersion inserts.
Follows(v, b) ==
  /\ v.parent = IF b = None THEN 0 ELSE b.id
  /\ v.contracts = [ContractsOf(b) EXCEPT
                      ![proposals[v.proposal].pair] = MergeAces(@, v.aces)]
  /\ v.id < nextVersion
  /\ \A w \in versions : w.id < v.id

\* A session writes one row, but for the sweep.
OneRow(s) ==
  \/ \A i, j \in Ids : dirty[s][i] # None /\ dirty[s][j] # None => i = j
  \/ \A i \in Ids : dirty[s][i] # None => IsOpen(i) /\ dirty[s][i].status = "expired"

TurnOK(s) ==
  /\ base[s] # None => req[s] = None /\ pc[s] \in {"create", "ack", "commit"}
  /\ pc[s] = "create" => IsNewest(base[s])
  /\ newver[s] # None => IsNewest(base[s]) /\ Follows(newver[s], base[s])
  /\ \A i \in Ids : dirty[s][i] # None /\ Exists(i) =>
       dirty[s][i].pair = proposals[i].pair
  /\ OneRow(s)

VersionIds ==
  /\ \A v \in versions : v.id < nextVersion
  /\ \A v, w \in versions : v.id = w.id => v = w
  /\ versions # {} => \E v \in versions : IsLatest(v)

\* Every version covers what it and the earlier ones folded in.
Accumulates ==
  \A v, w \in versions : v.id <= w.id =>
    Covers(w.contracts[proposals[v.proposal].pair], v.aces)

History == VersionIds /\ LinearHistory /\ Accumulates

TurnInv == /\ DecideInv
           /\ SoleWriter
           /\ \A s \in Sessions : TurnOK(s)
           /\ History

-----------------------------------------------------------------------------
(* Merging ACEs                                                             *)

\* A merge covers both sides: no ACE is dropped, no deny softened.
LEMMA MergeCovers ==
  ASSUME NEW a \in Aces, NEW b \in Aces
  PROVE  Covers(MergeAces(a, b), a) /\ Covers(MergeAces(a, b), b)
BY DEF Covers, MergeAces, MergeAction, Aces, Action

LEMMA CoversMore ==
  ASSUME NEW a \in Aces, NEW b \in Aces, NEW c \in Aces, Covers(a, b), Covers(c, a)
  PROVE  Covers(c, b)
BY DEF Covers

-----------------------------------------------------------------------------
(* Steps of one session that commit nothing                                 *)

LEMMA TurnInit == Init => TurnInv
<1> SUFFICES ASSUME Init PROVE TurnInv
  OBVIOUS
<1>1. SoleWriter /\ \A s \in Sessions : TurnOK(s)
  BY DEF Init, SoleWriter, TurnOK, OneRow, NoWrites
<1>2. History
  BY DEF Init, History, VersionIds, LinearHistory, Accumulates
<1>3. QED BY <1>1, <1>2, DecideInit DEF TurnInv

LEMMA HistoryKept ==
  ASSUME TypeInv, TypeInv', History, UNCHANGED versions, nextVersion <= nextVersion',
         \A i \in Ids : Exists(i) => Exists(i)' /\ proposals'[i].pair = proposals[i].pair,
         VersionsFolded
  PROVE  History'
<1> USE DEF TypeInv, TypeOK, Version
<1>1. VersionIds'
  BY DEF History, VersionIds, IsLatest
<1>2. LinearHistory'
  BY DEF History, LinearHistory
<1>3. Accumulates'
  BY DEF History, Accumulates, VersionsFolded
<1>4. QED BY <1>1, <1>2, <1>3 DEF History

LEMMA OthersTurn ==
  ASSUME TypeInv, TypeInv', DecideInv, NEW s \in Sessions, NEW t \in Sessions \ {s}, StepOf(s),
         nextVersion <= nextVersion', TurnOK(t)
  PROVE  TurnOK(t)'
<1> USE DEF StepOf
<1>1. newver[t] # None => newver[t].id \in Nat
  BY DEF TypeInv, TypeOK, Version
<1>2. nextVersion \in Nat /\ nextVersion' \in Nat
  BY DEF TypeInv, TypeOK
<1>3. newver'[t] # None => Follows(newver[t], base[t])'
  BY <1>1, <1>2 DEF TurnOK, Follows
<1>4. QED BY <1>3 DEF TurnOK, OneRow, IsNewest, IsLatest, IsOpen, Exists

\* What is left to show of a step of s that commits nothing.
LEMMA TurnStep ==
  ASSUME TurnInv, DecideInv', NEW s \in Sessions, StepOf(s),
         nextVersion <= nextVersion', SoleWriter', TurnOK(s)'
  PROVE  TurnInv'
<1>1. \A t \in Sessions : TurnOK(t)'
  BY OthersTurn DEF TurnInv, DecideInv
<1>2. History'
  BY HistoryKept DEF TurnInv, DecideInv, Committed, StepOf, Exists
<1>3. QED BY <1>1, <1>2 DEF TurnInv

LEMMA SoleKept ==
  ASSUME SoleWriter,
         \A t \in Sessions, i \in Ids :
           dirty'[t][i] = dirty[t][i] \/ dirty'[t][i] = None
  PROVE  SoleWriter'
BY DEF SoleWriter

LEMMA TurnEnd ==
  ASSUME TurnInv, DecideInv', NEW s \in Sessions, StepOf(s), EndSession(s),
         UNCHANGED nextVersion
  PROVE  TurnInv'
<1> USE DEF TurnInv, DecideInv, TypeInv, TypeOK
<1>1. base'[s] = None /\ newver'[s] = None /\ dirty'[s] = NoWrites /\ pc'[s] = "idle"
  BY DEF EndSession, ResetLocals, Goto
<1>2. \A i \in Ids : dirty'[s][i] = None
  BY <1>1 DEF NoWrites
<1>3. TurnOK(s)'
  BY <1>1, <1>2 DEF TurnOK, OneRow
<1>4. SoleWriter'
  BY <1>2, SoleKept DEF StepOf
<1>5. QED BY <1>3, <1>4, TurnStep

\* A step of s that stages nothing and reads no version.
LEMMA TurnRead ==
  ASSUME TurnInv, DecideInv', NEW s \in Sessions, StepOf(s),
         UNCHANGED <<nextVersion, base, dirty, newver>>,
         base[s] # None => req'[s] = None /\ pc'[s] \in {"create", "ack", "commit"},
         pc'[s] # "create"
  PROVE  TurnInv'
<1>1. TurnOK(s)'
  BY DEF TurnInv, TurnOK, StepOf, OneRow, IsNewest, IsLatest, Follows, IsOpen, Exists
<1>2. SoleWriter'
  BY SoleKept DEF TurnInv
<1>3. QED BY <1>1, <1>2, TurnStep DEF TurnInv, DecideInv, TypeInv, TypeOK

\* s may write: nobody else does.
LEMMA MayWriteAlone ==
  ASSUME TakeTurns, NEW s \in Sessions, NEW i \in Ids, MayWrite(s, i)
  PROVE  \A t \in Sessions \ {s}, j \in Ids : dirty[t][j] = None
BY DEF TakeTurns, MayWrite

\* s stages one row, its first write or on top of the one it holds, with the
\* pair of the committed row.
LEMMA TurnStage ==
  ASSUME TurnInv, DecideInv', NEW s \in Sessions, StepOf(s), NEW i \in Ids,
         \A t \in Sessions \ {s}, j \in Ids : dirty[t][j] = None,
         \A j \in Ids \ {i} : dirty'[s][j] = None,
         Exists(i) => dirty'[s][i].pair = proposals[i].pair
  PROVE  /\ SoleWriter' /\ OneRow(s)'
         /\ \A j \in Ids : dirty'[s][j] # None /\ Exists(j)' =>
              dirty'[s][j].pair = proposals'[j].pair
<1>1. SoleWriter'
  BY DEF SoleWriter, StepOf
<1>2. OneRow(s)'
  BY DEF OneRow
<1>3. QED BY <1>1, <1>2 DEF StepOf, Exists

\* A session that has only read holds nothing.
LEMMA ReadingClean ==
  ASSUME TurnInv, NEW s \in Sessions, pc[s] \in Reading
  PROVE  base[s] = None /\ newver[s] = None /\ \A i \in Ids : dirty[s][i] = None
<1>1. TurnOK(s) /\ SessionOK(s)
  BY DEF TurnInv, DecideInv
<1>2. base[s] = None
  BY <1>1 DEF TurnOK, Reading
<1>3. dirty[s] = NoWrites /\ newver[s] = None
  BY <1>1 DEF SessionOK
<1>4. QED BY <1>2, <1>3 DEF NoWrites

-----------------------------------------------------------------------------
(* Each action                                                              *)

LEMMA TurnDecideUpdate ==
  ASSUME TakeTurns, TurnInv, DecideInv', NEW s \in Sessions, NEW i \in Ids,
         NEW d \in {"approved", "rejected"}, NEW c \in DecideChannels,
         DecideUpdate(s, i, d, c)
  PROVE  TurnInv'
<1> DEFINE r == [proposals[i] EXCEPT !.status = d, !.audit = Append(@, d)]
<1> USE DEF TurnInv, DecideInv, TypeInv, TypeOK
<1>1. StepOf(s) /\ UNCHANGED <<nextVersion, base, newver>>
  BY SessionSteps DEF Uncommitted, Decide, DecideUpdate, db
<1>2. /\ pc[s] = "idle" /\ base[s] = None /\ newver[s] = None
      /\ \A j \in Ids : dirty[s][j] = None
  BY ReadingClean DEF DecideUpdate, Reading
<1>3. r.pair = proposals[i].pair
  BY DEF DecideUpdate, IsOpen, Exists, Row
<1>4. dirty' = [dirty EXCEPT ![s][i] = r]
  BY DEF DecideUpdate, Stage
<1> HIDE DEF r
<1>5. dirty'[s][i] = r /\ \A j \in Ids \ {i} : dirty'[s][j] = None
  BY <1>2, <1>4
<1>6. \A t \in Sessions \ {s}, j \in Ids : dirty[t][j] = None
  BY MayWriteAlone DEF DecideUpdate
<1>7. /\ SoleWriter' /\ OneRow(s)'
      /\ \A j \in Ids : dirty'[s][j] # None /\ Exists(j)' =>
           dirty'[s][j].pair = proposals'[j].pair
  BY <1>1, <1>3, <1>5, <1>6, TurnStage
<1>8. pc'[s] # "create"
  BY DEF DecideUpdate, AfterDecision, Goto
<1>9. TurnOK(s)'
  BY <1>1, <1>2, <1>7, <1>8 DEF TurnOK
<1>10. QED BY <1>1, <1>7, <1>9, TurnStep

LEMMA TurnFlushAces ==
  ASSUME TakeTurns, TurnInv, DecideInv', NEW s \in Sessions, FlushAces(s)
  PROVE  TurnInv'
<1> DEFINE i == target[s]
           r == [proposals[i] EXCEPT !.aces = IF aces[s] = None THEN @ ELSE aces[s]]
<1> USE DEF TurnInv, DecideInv, TypeInv, TypeOK
<1>1. StepOf(s) /\ UNCHANGED <<nextVersion, base, newver>>
  BY SessionSteps DEF Uncommitted, FlushAces, db, locals
<1>2. /\ base[s] = None /\ newver[s] = None /\ i \in Ids /\ Exists(i)
      /\ \A j \in Ids : dirty[s][j] = None
  BY ReadingClean DEF FlushAces, Reading, LocalsOK
<1>3. r.pair = proposals[i].pair
  BY <1>2 DEF Exists, Row
<1>4. dirty' = [dirty EXCEPT ![s][i] = r]
  BY DEF FlushAces, Stage
<1> HIDE DEF r
<1>5. dirty'[s][i] = r /\ \A j \in Ids \ {i} : dirty'[s][j] = None
  BY <1>2, <1>4
<1>6. \A t \in Sessions \ {s}, j \in Ids : dirty[t][j] = None
  BY <1>2, MayWriteAlone DEF FlushAces
<1>7. /\ SoleWriter' /\ OneRow(s)'
      /\ \A j \in Ids : dirty'[s][j] # None /\ Exists(j)' =>
           dirty'[s][j].pair = proposals'[j].pair
  BY <1>1, <1>2, <1>3, <1>5, <1>6, TurnStage
<1>8. pc'[s] = "commit"
  BY DEF FlushAces, Goto
<1>9. TurnOK(s)'
  BY <1>1, <1>2, <1>7, <1>8 DEF TurnOK
<1>10. QED BY <1>1, <1>7, <1>9, TurnStep

LEMMA TurnInsert ==
  ASSUME TakeTurns, TurnInv, DecideInv', NEW s \in Sessions, Insert(s)
  PROVE  TurnInv'
<1> USE DEF TurnInv, DecideInv, TypeInv, TypeOK
<1>1. StepOf(s) /\ UNCHANGED nextVersion /\ pc[s] = "insert"
  BY SessionSteps DEF Uncommitted, Insert, db
<1>2. CASE EndSession(s)
  BY <1>1, <1>2, TurnEnd
<1>3. ASSUME NEW i \in Ids, ~Exists(i), MayWrite(s, i), NEW r, Stage(s, i, r),
             Goto(s, "commit"), UNCHANGED <<base, newver>>
      PROVE  TurnInv'
  <2>1. base[s] = None /\ newver[s] = None /\ \A j \in Ids : dirty[s][j] = None
    BY <1>1, ReadingClean DEF Reading
  <2>2. \A j \in Ids \ {i} : dirty'[s][j] = None
    BY <1>3, <2>1 DEF Stage
  <2>3. \A t \in Sessions \ {s}, j \in Ids : dirty[t][j] = None
    BY <1>3, MayWriteAlone
  <2>4. /\ SoleWriter' /\ OneRow(s)'
        /\ \A j \in Ids : dirty'[s][j] # None /\ Exists(j)' =>
             dirty'[s][j].pair = proposals'[j].pair
    BY <1>1, <1>3, <2>2, <2>3, TurnStage
  <2>5. pc'[s] = "commit"
    BY <1>3 DEF Goto
  <2>6. TurnOK(s)'
    BY <1>3, <2>1, <2>4, <2>5 DEF TurnOK
  <2>7. QED BY <1>1, <2>4, <2>6, TurnStep
<1>4. QED BY <1>2, <1>3 DEF Insert

LEMMA TurnFlushExpired ==
  ASSUME TakeTurns, TurnInv, DecideInv', NEW s \in Sessions, FlushExpired(s)
  PROVE  TurnInv'
<1> DEFINE r(i) == [proposals[i] EXCEPT !.status = "expired",
                                        !.audit = Append(@, "expired")]
<1> USE DEF TurnInv, DecideInv, TypeInv, TypeOK
<1>1. /\ StepOf(s) /\ UNCHANGED <<nextVersion, base, newver>>
      /\ pc[s] = "sweep" /\ pc'[s] = "commit"
  BY SessionSteps DEF Uncommitted, FlushExpired, Goto, db, locals
<1>2. base[s] = None /\ newver[s] = None
  BY <1>1, ReadingClean DEF Reading
<1>3. ASSUME NEW i \in selected[s]
      PROVE  /\ i \in Ids /\ IsOpen(i) /\ MayWrite(s, i)
             /\ r(i).status = "expired" /\ r(i).pair = proposals[i].pair
  <2>1. i \in Ids /\ IsOpen(i) /\ MayWrite(s, i)
    BY <1>1 DEF FlushExpired, SessionOK
  <2>2. proposals[i] \in Row
    BY <2>1 DEF IsOpen, Exists
  <2>3. QED BY <2>1, <2>2 DEF Row
<1>4. dirty' = [dirty EXCEPT ![s] = [i \in Ids |-> IF i \in selected[s] THEN r(i) ELSE None]]
  BY DEF FlushExpired
<1> HIDE DEF r
<1>5. \A i \in Ids : dirty'[s][i] = IF i \in selected[s] THEN r(i) ELSE None
  BY <1>4
<1>6. OneRow(s)'
  BY <1>1, <1>3, <1>5 DEF OneRow, StepOf, IsOpen, Exists
<1>7. \A i \in Ids : dirty'[s][i] # None => dirty'[s][i].pair = proposals'[i].pair
  BY <1>1, <1>3, <1>5 DEF StepOf
<1>8. SoleWriter'
  <2>1. CASE selected[s] = {}
    <3>1. \A t \in Sessions, i \in Ids :
            dirty'[t][i] = dirty[t][i] \/ dirty'[t][i] = None
      BY <1>1, <1>5, <2>1 DEF StepOf
    <3>2. QED BY <3>1, SoleKept
  <2>2. CASE selected[s] # {}
    <3>1. \A t \in Sessions \ {s}, j \in Ids : dirty[t][j] = None
      BY <1>3, <2>2, MayWriteAlone
    <3>2. \A t \in Sessions \ {s}, j \in Ids : dirty'[t][j] = None
      BY <1>1, <3>1 DEF StepOf
    <3>3. QED BY <3>2 DEF SoleWriter
  <2>3. QED BY <2>1, <2>2
<1>9. TurnOK(s)'
  BY <1>1, <1>2, <1>6, <1>7 DEF TurnOK
<1>10. QED BY <1>1, <1>8, <1>9, TurnStep

LEMMA TurnReadLatest ==
  ASSUME TurnInv, DecideInv', NEW s \in Sessions, ReadLatest(s)
  PROVE  TurnInv'
<1> USE DEF TurnInv, DecideInv, TypeInv, TypeOK
<1>1. /\ StepOf(s) /\ UNCHANGED <<nextVersion, dirty, newver, req>>
      /\ pc[s] = "latest" /\ pc'[s] = "create"
  BY SessionSteps DEF Uncommitted, ReadLatest, Goto, db, staged
<1>2. base[s] = None /\ newver[s] = None /\ req[s] = None
  <2>1. TurnOK(s) /\ SessionOK(s)
    OBVIOUS
  <2>2. base[s] = None
    BY <1>1, <2>1 DEF TurnOK
  <2>3. newver[s] = None
    BY <1>1, <2>1 DEF SessionOK
  <2>4. QED BY <1>1, <2>2, <2>3 DEF LocalsOK
<1>3. IsNewest(base[s])'
  BY <1>1, <1>2 DEF ReadLatest, IsNewest, IsLatest, StepOf
<1>4. TurnOK(s)'
  <2>1. OneRow(s)'
    BY <1>1 DEF TurnOK, OneRow, StepOf, IsOpen, Exists
  <2>2. \A i \in Ids : dirty'[s][i] # None /\ Exists(i)' =>
          dirty'[s][i].pair = proposals'[i].pair
    BY <1>1 DEF TurnOK, StepOf, Exists
  <2>3. QED BY <1>1, <1>2, <1>3, <2>1, <2>2 DEF TurnOK
<1>5. SoleWriter'
  BY <1>1, SoleKept
<1>6. QED BY <1>1, <1>4, <1>5, TurnStep

\* mark_status on the row s holds.
LEMMA TurnAdvance ==
  ASSUME TurnInv, NEW s \in Sessions, StepOf(s), pc[s] \in {"latest", "create"},
         NEW st \in {"applied", "failed"}, NEW e \in {"applied", "apply_failed"},
         Trail[st] = <<"approved", e>>, Advance(s, st, e)
  PROVE  /\ SoleWriter' /\ OneRow(s)'
         /\ target[s] \in Ids /\ IsOpen(target[s])
         /\ dirty[s][target[s]].pair = proposals[target[s]].pair
         /\ \A j \in Ids : dirty'[s][j] # None /\ Exists(j)' =>
              dirty'[s][j].pair = proposals'[j].pair
<1> DEFINE i == target[s]
<1>1. /\ i \in Ids /\ IsOpen(i) /\ dirty[s][i] # None
      /\ dirty[s][i].status = "approved"
  BY DEF TurnInv, DecideInv, TypeInv, TypeOK, LocalsOK, SessionOK
<1>2. \A j \in Ids \ {i} : dirty[s][j] = None
  BY <1>1 DEF TurnInv, TurnOK, OneRow
<1>3. /\ \A j \in Ids \ {i} : dirty'[s][j] = dirty[s][j]
      /\ dirty'[s][i].pair = dirty[s][i].pair
  BY AdvanceDecide DEF TurnInv
<1>4. dirty[s][i].pair = proposals[i].pair
  BY <1>1 DEF TurnInv, TurnOK, IsOpen
<1>5. \A t \in Sessions \ {s}, j \in Ids : dirty[t][j] = None
  BY <1>1 DEF TurnInv, SoleWriter
<1>6. \A j \in Ids \ {i} : dirty'[s][j] = None
  BY <1>2, <1>3
<1>7. SoleWriter'
  BY <1>5 DEF SoleWriter, StepOf
<1>8. OneRow(s)'
  BY <1>6 DEF OneRow
<1>9. \A j \in Ids : dirty'[s][j] # None => dirty'[s][j].pair = proposals'[j].pair
  BY <1>3, <1>4, <1>6 DEF StepOf
<1>10. QED BY <1>1, <1>4, <1>7, <1>8, <1>9

LEMMA TurnCreateVersion ==
  ASSUME TurnInv, DecideInv', NEW s \in Sessions, CreateVersion(s)
  PROVE  TurnInv'
<1> USE DEF TurnInv, DecideInv, TypeInv, TypeOK
<1>1. /\ StepOf(s) /\ UNCHANGED <<base, req>> /\ pc[s] = "create"
      /\ pc'[s] \in {"ack", "commit"} /\ nextVersion' = nextVersion + 1
  BY SessionSteps DEF Uncommitted, CreateVersion, AfterDecision, Goto, locals
<1>2. Advance(s, "applied", "applied") /\ Trail["applied"] = <<"approved", "applied">>
  BY DEF CreateVersion, Trail
<1>3. /\ SoleWriter' /\ OneRow(s)'
      /\ dirty[s][target[s]].pair = proposals[target[s]].pair
      /\ \A j \in Ids : dirty'[s][j] # None /\ Exists(j)' =>
           dirty'[s][j].pair = proposals'[j].pair
  BY <1>1, <1>2, TurnAdvance
<1>4. IsNewest(base[s]) /\ req[s] = None
  BY <1>1 DEF TurnOK, LocalsOK
<1>5. newver'[s] = VersionMade(s)
  BY NewVersionType
<1>6. Follows(newver[s], base[s])'
  <2>1. UNCHANGED <<proposals, versions>>
    BY <1>1 DEF StepOf
  <2>2. VersionMade(s).id = nextVersion /\ nextVersion \in Nat
    BY DEF VersionMade
  <2>3. \A w \in versions : w.id < nextVersion
    BY DEF History, VersionIds
  <2>4. VersionMade(s).contracts = [ContractsOf(base[s]) EXCEPT
          ![proposals[VersionMade(s).proposal].pair] = MergeAces(@, VersionMade(s).aces)]
    BY <1>3 DEF VersionMade
  <2>5. VersionMade(s).parent = IF base[s] = None THEN 0 ELSE base[s].id
    BY DEF VersionMade
  <2>6. UNCHANGED base /\ nextVersion < nextVersion'
    BY <1>1, <2>2
  <2> QED
    BY <1>5, <2>1, <2>2, <2>3, <2>4, <2>5, <2>6 DEF Follows, ContractsOf
<1>7. TurnOK(s)'
  <2>1. IsNewest(base[s])'
    BY <1>1, <1>4 DEF IsNewest, IsLatest, StepOf
  <2>2. QED BY <1>1, <1>3, <1>4, <1>6, <2>1 DEF TurnOK
<1>8. QED BY <1>1, <1>3, <1>7, TurnStep

LEMMA TurnApplyFails ==
  ASSUME TurnInv, DecideInv', NEW s \in Sessions, ApplyFails(s)
  PROVE  TurnInv'
<1> USE DEF TurnInv, DecideInv, TypeInv, TypeOK
<1>1. StepOf(s) /\ UNCHANGED nextVersion /\ pc[s] \in {"latest", "create"}
  BY SessionSteps DEF Uncommitted, ApplyFails, db
<1>2. CASE EndSession(s)
  BY <1>1, <1>2, TurnEnd
<1>3. CASE /\ Advance(s, "failed", "apply_failed") /\ UNCHANGED <<locals, newver>>
           /\ Goto(s, IF chan[s] = "command" THEN "ack" ELSE "commit")
  <2>1. Trail["failed"] = <<"approved", "apply_failed">>
    BY DEF Trail
  <2>2. /\ SoleWriter' /\ OneRow(s)'
        /\ \A j \in Ids : dirty'[s][j] # None /\ Exists(j)' =>
             dirty'[s][j].pair = proposals'[j].pair
    BY <1>1, <1>3, <2>1, TurnAdvance
  <2>3. pc'[s] \in {"ack", "commit"} /\ UNCHANGED <<base, req, newver>>
    BY <1>3 DEF Goto, locals
  <2>4. newver[s] = None /\ req[s] = None
    BY <1>1 DEF SessionOK, LocalsOK
  <2>5. TurnOK(s)'
    BY <2>2, <2>3, <2>4 DEF TurnOK
  <2>6. QED BY <1>1, <2>2, <2>5, TurnStep
<1>4. QED BY <1>2, <1>3 DEF ApplyFails

LEMMA TurnAck ==
  ASSUME TurnInv, DecideInv', NEW s \in Sessions, Ack(s)
  PROVE  TurnInv'
<1> USE DEF TurnInv, DecideInv, TypeInv, TypeOK
<1>1. StepOf(s) /\ UNCHANGED nextVersion /\ pc[s] = "ack"
  BY SessionSteps DEF Uncommitted, Ack, db
<1>2. CASE EndSession(s)
  BY <1>1, <1>2, TurnEnd
<1>3. CASE Goto(s, "commit") /\ UNCHANGED <<locals, staged>>
  <2>1. /\ pc'[s] = "commit" /\ req[s] = None
        /\ UNCHANGED <<nextVersion, base, dirty, newver, req>>
    BY <1>1, <1>3 DEF Goto, locals, staged, LocalsOK
  <2>2. QED BY <1>1, <2>1, TurnRead
<1>4. QED BY <1>2, <1>3 DEF Ack

-----------------------------------------------------------------------------
(* Commit                                                                   *)

LEMMA CommitLocals ==
  ASSUME TurnInv, NEW s \in Sessions, Commit(s)
  PROVE  /\ UNCHANGED nextVersion /\ base'[s] = None
         /\ \A t \in Sessions \ {s} : base'[t] = base[t] /\ req'[t] = req[t]
<1> USE DEF TurnInv, DecideInv, TypeInv, TypeOK
<1>1. UNCHANGED nextVersion
  BY DEF Commit
<1>2. CASE EndSession(s)
  BY <1>1, <1>2 DEF EndSession, ResetLocals
<1>3. CASE req[s] # None /\ UNCHANGED locals
  <2>1. base[s] = None
    BY <1>3 DEF TurnOK
  <2>2. QED BY <1>1, <1>3, <2>1 DEF locals
<1>4. QED BY <1>2, <1>3 DEF Commit

\* A proposal keeps its pair.
LEMMA CommitPairs ==
  ASSUME TurnInv, NEW s \in Sessions, Commit(s), NEW i \in Ids, Exists(i)
  PROVE  Exists(i)' /\ proposals'[i].pair = proposals[i].pair
<1>1. proposals'[i] = IF dirty[s][i] # None THEN dirty[s][i] ELSE proposals[i]
  BY CommitEffect DEF TurnInv
<1>2. dirty[s][i] # None => dirty[s][i].pair = proposals[i].pair
  BY DEF TurnInv, TurnOK
<1>3. QED BY <1>1, <1>2 DEF Exists

LEMMA CommitOthers ==
  ASSUME TurnInv, NEW s \in Sessions, Commit(s), NEW t \in Sessions \ {s}
  PROVE  TurnOK(t)'
<1>1. TurnOK(t) /\ SessionOK(t) /\ SessionOK(s)
  BY DEF TurnInv, DecideInv
<1>2. /\ base'[t] = base[t] /\ req'[t] = req[t] /\ pc'[t] = pc[t]
      /\ dirty'[t] = dirty[t] /\ newver'[t] = newver[t] /\ UNCHANGED nextVersion
  BY CommitLocals, CommitEffect DEF TurnInv
<1>3. CASE \A j \in Ids : dirty[s][j] = None
  <2>1. newver[s] = None
    BY <1>1, <1>3 DEF SessionOK, TurnInv, DecideInv, TypeInv, TypeOK, Version
  <2>2. UNCHANGED versions /\ \A i \in Ids : proposals'[i] = proposals[i]
    BY <1>3, <2>1, CommitEffect DEF TurnInv
  <2>3. newver[t] # None => newver[t].proposal \in Ids
    BY DEF TurnInv, DecideInv, TypeInv, TypeOK, Version
  <2>4. OneRow(t)'
    BY <1>1, <1>2, <2>2 DEF TurnOK, OneRow, IsOpen, Exists
  <2>5. IsNewest(base[t]) => IsNewest(base[t])'
    BY <1>2, <2>2 DEF IsNewest, IsLatest
  <2>6. newver[t] # None => Follows(newver[t], base[t])'
    BY <1>1, <1>2, <2>2, <2>3 DEF TurnOK, Follows, ContractsOf
  <2>7. \A i \in Ids : dirty'[t][i] # None /\ Exists(i)' =>
          dirty'[t][i].pair = proposals'[i].pair
    BY <1>1, <1>2, <2>2 DEF TurnOK, Exists
  <2>8. QED BY <1>1, <1>2, <2>4, <2>5, <2>6, <2>7 DEF TurnOK
<1>4. CASE \E j \in Ids : dirty[s][j] # None
  <2>1. \A j \in Ids : dirty[t][j] = None
    BY <1>4 DEF TurnInv, SoleWriter
  <2>2. newver[t] = None
    BY <1>1, <2>1 DEF SessionOK, TurnInv, DecideInv, TypeInv, TypeOK, Version
  <2>3. pc[t] # "create"
    BY <2>1 DEF TurnInv, DecideInv, TypeInv, TypeOK, LocalsOK
  <2>4. QED BY <1>1, <1>2, <2>1, <2>2, <2>3 DEF TurnOK, OneRow
<1>5. QED BY <1>3, <1>4

\* A version that follows the newest one carries the history on.
LEMMA CommitHistory ==
  ASSUME TurnInv, TypeInv', NEW s \in Sessions, Commit(s), newver[s] # None
  PROVE  History'
<1> DEFINE n == newver[s]
           b == base[s]
           p(v) == proposals[v.proposal].pair
<1>1. /\ versions' = versions \cup {n} /\ UNCHANGED nextVersion
      /\ n \in Version /\ versions \subseteq Version
  BY CommitEffect, CommitLocals DEF TurnInv, DecideInv, TypeInv, TypeOK
<1>2. IsNewest(b) /\ Follows(n, b)
  BY DEF TurnInv, TurnOK
<1>3. Exists(n.proposal) /\ \A v \in versions : Exists(v.proposal)
  BY DEF TurnInv, DecideInv, SessionOK, IsOpen, Committed, VersionsFolded
<1>4. \A v \in versions' : proposals'[v.proposal].pair = p(v)
  BY <1>1, <1>3, CommitPairs DEF Version
<1>5. VersionIds /\ LinearHistory /\ Accumulates
  BY DEF TurnInv, History
<1>6. /\ \A v \in versions : v.id < n.id
      /\ n.id < nextVersion /\ n.parent = (IF b = None THEN 0 ELSE b.id)
      /\ n.contracts = [ContractsOf(b) EXCEPT ![p(n)] = MergeAces(@, n.aces)]
  BY <1>2 DEF Follows
<1>7. \A v \in Version : v.id \in Nat /\ v # None
  BY NoneAssumption DEF Version
<1> HIDE DEF n, b
<1>8. VersionIds'
  <2>1. (\A v \in versions : v.id < nextVersion)'
    BY <1>1, <1>5, <1>6 DEF VersionIds
  <2>2. (\A v, w \in versions : v.id = w.id => v = w)'
    BY <1>1, <1>5, <1>6, <1>7 DEF VersionIds
  <2>3. n \in versions' /\ \A w \in versions' : w.id <= n.id
    BY <1>1, <1>6, <1>7
  <2>4. (\E v \in versions : IsLatest(v))'
    BY <2>3 DEF IsLatest
  <2>5. QED BY <2>1, <2>2, <2>4 DEF VersionIds
<1>9. LinearHistory'
  <2> DEFINE older(v) == {w \in versions : w.id < v.id}
  <2> SUFFICES ASSUME NEW v \in versions'
               PROVE  IF older(v)' = {} THEN v.parent = 0
                      ELSE \E w \in older(v)' :
                             v.parent = w.id /\ \A x \in older(v)' : x.id <= w.id
    BY DEF LinearHistory
  <2>1. CASE v \in versions
    <3>1. older(v)' = older(v)
      BY <1>1, <1>6, <1>7, <2>1
    <3>2. QED BY <1>5, <2>1, <3>1 DEF LinearHistory
  <2>2. CASE v = n
    <3>1. older(v)' = versions
      BY <1>1, <1>6, <1>7, <2>2
    <3>2. CASE versions = {}
      BY <1>2, <1>6, <2>2, <3>1, <3>2 DEF IsNewest
    <3>3. CASE versions # {}
      BY <1>1, <1>2, <1>6, <1>7, <2>2, <3>1, <3>3 DEF IsNewest, IsLatest
    <3>4. QED BY <3>2, <3>3
  <2>3. QED BY <1>1, <2>1, <2>2
<1>10. Accumulates'
  <2> SUFFICES ASSUME NEW v \in versions', NEW w \in versions', v.id <= w.id
               PROVE  Covers(w.contracts[p(v)], v.aces)
    BY <1>4 DEF Accumulates
  <2>1. CASE w \in versions
    <3>1. v \in versions
      BY <1>1, <1>6, <1>7, <2>1
    <3>2. QED BY <1>5, <2>1, <3>1 DEF Accumulates
  <2>2. CASE w = n
    <3> DEFINE old == ContractsOf(b)
    <3>1. old \in [Pairs -> Aces]
      BY ContractsType DEF b, TurnInv, DecideInv, TypeInv, TypeOK
    <3>2. p(v) \in Pairs /\ p(n) \in Pairs /\ v.aces \in Aces /\ n.aces \in Aces
      BY <1>1, <1>3 DEF Version, Exists, Row, TurnInv, DecideInv, TypeInv, TypeOK
    <3>3. /\ n.contracts[p(v)] = IF p(v) = p(n) THEN MergeAces(old[p(v)], n.aces)
                                              ELSE old[p(v)]
          /\ old[p(v)] \in Aces /\ MergeAces(old[p(v)], n.aces) \in Aces
      BY <1>6, <3>1, <3>2, MergeType
    <3>4. CASE v = n
      BY <2>2, <3>2, <3>3, <3>4, MergeCovers
    <3>5. CASE v \in versions
      <4>1. b \in versions /\ v.id <= b.id
        BY <1>2, <3>5 DEF IsNewest, IsLatest
      <4>2. old = b.contracts
        BY <1>1, <1>7, <4>1 DEF ContractsOf
      <4>3. Covers(old[p(v)], v.aces)
        BY <1>5, <3>5, <4>1, <4>2 DEF Accumulates
      <4>4. Covers(MergeAces(old[p(v)], n.aces), old[p(v)])
        BY <3>2, <3>3, MergeCovers
      <4>5. Covers(MergeAces(old[p(v)], n.aces), v.aces)
        BY <3>2, <3>3, <4>3, <4>4, CoversMore
      <4>6. QED BY <2>2, <3>3, <4>3, <4>5
    <3>6. QED BY <1>1, <3>4, <3>5
  <2>3. QED BY <1>1, <2>1, <2>2
<1>11. QED BY <1>8, <1>9, <1>10 DEF History

LEMMA TurnCommit ==
  ASSUME TurnInv, DecideInv', NEW s \in Sessions, Commit(s)
  PROVE  TurnInv'
<1>1. /\ dirty'[s] = NoWrites /\ newver'[s] = None /\ pc'[s] \in {"idle", "card"}
      /\ \A t \in Sessions \ {s} : dirty'[t] = dirty[t]
  BY CommitEffect DEF TurnInv
<1>2. \A i \in Ids : dirty'[s][i] = None
  BY <1>1 DEF NoWrites
<1>3. SoleWriter'
  BY <1>1, <1>2, SoleKept DEF TurnInv
<1>4. TurnOK(s)'
  BY <1>1, <1>2, CommitLocals DEF TurnOK, OneRow
<1>5. \A t \in Sessions : TurnOK(t)'
  BY <1>4, CommitOthers
<1>6. History'
  <2>1. CASE newver[s] # None
    BY <2>1, CommitHistory DEF DecideInv
  <2>2. CASE newver[s] = None
    <3>1. UNCHANGED <<versions, nextVersion>>
      BY <2>2, CommitEffect, CommitLocals DEF TurnInv
    <3>2. nextVersion <= nextVersion'
      BY <3>1 DEF TurnInv, DecideInv, TypeInv, TypeOK
    <3>3. QED BY <3>1, <3>2, CommitPairs, HistoryKept DEF TurnInv, DecideInv, Committed
  <2>3. QED BY <2>1, <2>2
<1>7. QED BY <1>3, <1>5, <1>6 DEF TurnInv

-----------------------------------------------------------------------------
(* The other steps                                                          *)

LEMMA TurnReading ==
  ASSUME TurnInv, DecideInv', NEW s \in Sessions,
         LookupIdem(s) \/ ListPending(s) \/ GetTarget(s) \/ SelectOverdue(s)
  PROVE  TurnInv'
<1> USE DEF TurnInv, DecideInv
<1>1. StepOf(s) /\ UNCHANGED nextVersion /\ base[s] = None
  BY SessionSteps, ReadingClean
     DEF Uncommitted, LookupIdem, ListPending, GetTarget, SelectOverdue, Reading, db
<1>2. CASE EndSession(s)
  BY <1>1, <1>2, TurnEnd
<1>3. CASE UNCHANGED <<base, dirty, newver>> /\ pc'[s] \in Reading
  BY <1>1, <1>3, TurnRead DEF Reading
<1>4. pc \in [Sessions -> Label]
  BY DEF TypeInv, TypeOK
<1>5. QED
  BY <1>2, <1>3, <1>4
     DEF LookupIdem, ListPending, GetTarget, SelectOverdue, Reading, Goto, staged

LEMMA TurnDecideConflict ==
  ASSUME TurnInv, DecideInv', NEW s \in Sessions, NEW i \in Ids, DecideConflict(s, i)
  PROVE  TurnInv'
<1>1. /\ pc[s] = "idle" /\ StepOf(s)
      /\ UNCHANGED <<nextVersion, pc, base, dirty, newver>>
  BY DEF DecideConflict, StepOf, db, locals, staged
<1>2. base[s] = None
  BY <1>1, ReadingClean DEF Reading
<1>3. QED BY <1>1, <1>2, TurnRead

LEMMA TurnMarkNotified ==
  ASSUME TurnInv, DecideInv', NEW i \in Ids, MarkNotified(i)
  PROVE  TurnInv'
<1> DEFINE r == [proposals[i] EXCEPT !.status = "notified"]
<1> USE DEF TurnInv, DecideInv, TypeInv, TypeOK
<1>1. /\ IsOpen(i) /\ proposals[i] \in Row
      /\ \A s \in Sessions : dirty[s][i] = None
      /\ UNCHANGED <<versions, nextVersion, pc, req, base, dirty, newver>>
  BY DEF MarkNotified, IsOpen, Open, Exists, locals, staged
<1>2. r.status = "notified" /\ r.pair = proposals[i].pair /\ r # None
  BY <1>1, NoneAssumption DEF Row, Status
<1>3. proposals' = [proposals EXCEPT ![i] = r]
  BY DEF MarkNotified
<1> HIDE DEF r
<1>4. proposals'[i] = r /\ \A j \in Ids \ {i} : proposals'[j] = proposals[j]
  BY <1>3
<1>5. \A j \in Ids : /\ proposals'[j] # None => proposals'[j].pair = proposals[j].pair
                     /\ Exists(j)' <=> Exists(j)
                     /\ IsOpen(j)' <=> IsOpen(j)
  BY <1>1, <1>2, <1>4 DEF IsOpen, Exists, Open
<1>6. ASSUME NEW t \in Sessions PROVE TurnOK(t)'
  <2>1. OneRow(t)'
    BY <1>1, <1>5 DEF TurnOK, OneRow
  <2>2. IsNewest(base[t]) => IsNewest(base[t])'
    BY <1>1 DEF IsNewest, IsLatest
  <2>3. newver[t] # None => newver[t].proposal \in Ids /\ Exists(newver[t].proposal)
    BY DEF SessionOK, Version, IsOpen
  <2>4. newver[t] # None => Follows(newver[t], base[t])'
    BY <1>1, <1>5, <2>3 DEF TurnOK, Follows, ContractsOf, Exists
  <2>5. \A j \in Ids : dirty'[t][j] # None /\ Exists(j)' =>
          dirty'[t][j].pair = proposals'[j].pair
    BY <1>1, <1>5 DEF TurnOK, Exists
  <2>6. QED BY <1>1, <2>1, <2>2, <2>4, <2>5 DEF TurnOK
<1>7. SoleWriter'
  BY <1>1 DEF SoleWriter
<1>8. History'
  BY <1>1, <1>5, HistoryKept DEF Committed, Exists
<1>9. QED BY <1>6, <1>7, <1>8

LEMMA TurnUnchanged ==
  ASSUME TurnInv, DecideInv',
         UNCHANGED <<proposals, versions, nextVersion, pc, req, base, dirty, newver>>
  PROVE  TurnInv'
<1>1. \A s \in Sessions : TurnOK(s)'
  BY DEF TurnInv, TurnOK, OneRow, IsNewest, IsLatest, Follows, ContractsOf,
         IsOpen, Exists
<1>2. SoleWriter' /\ History'
  BY DEF TurnInv, SoleWriter, History, VersionIds, IsLatest, LinearHistory,
         Accumulates
<1>3. QED BY <1>1, <1>2 DEF TurnInv

LEMMA TurnNext == TakeTurns /\ SweepAlone /\ TurnInv /\ [Next]_vars => TurnInv'
<1> SUFFICES ASSUME TakeTurns, SweepAlone, TurnInv, [Next]_vars PROVE TurnInv'
  OBVIOUS
<1>0. DecideInv'
  BY DecideNext DEF TurnInv
<1> USE <1>0
<1>1. ASSUME NEW s \in Sessions, Decide(s) PROVE TurnInv'
  BY <1>1, TurnDecideUpdate, TurnDecideConflict DEF Decide
<1>2. ASSUME NEW s \in Sessions, Crash(s) \/ PostCard(s) PROVE TurnInv'
  <2>1. StepOf(s) /\ EndSession(s) /\ UNCHANGED nextVersion
    BY <1>2, SessionSteps DEF Uncommitted, Crash, PostCard, db, TurnInv, DecideInv
  <2>2. QED BY <2>1, TurnEnd
<1>3. ASSUME NEW s \in Sessions, Continue(s) PROVE TurnInv'
  BY <1>2, <1>3, TurnReading, TurnFlushAces, TurnInsert, TurnReadLatest,
     TurnCreateVersion, TurnApplyFails, TurnAck, TurnFlushExpired, TurnCommit
     DEF Continue
<1>4. ASSUME NEW i \in Ids, ExpiryPasses(i) PROVE TurnInv'
  BY <1>4, TurnUnchanged DEF ExpiryPasses, locals, staged
<1>5. CASE UNCHANGED vars
  BY <1>5, TurnUnchanged DEF vars, db, locals, staged
<1>6. QED
  BY <1>1, <1>2, <1>3, <1>4, <1>5, TurnReading, TurnMarkNotified DEF Next

LEMMA TurnCorrect == ASSUME TakeTurns, SweepAlone PROVE Spec => []TurnInv
<1>1. TakeTurns /\ SweepAlone
  OBVIOUS
<1>2. TurnInv /\ [Next]_vars => TurnInv'
  BY <1>1, TurnNext
<1>3. QED BY <1>2, TurnInit, PTL DEF Spec

\* Each version builds on the one before it: latest_for_tenant and the INSERT
\* are two statements, and no other writer comes between them.
THEOREM VersionsInLine == ASSUME TakeTurns, SweepAlone PROVE Spec => []LinearHistory
<1>1. Spec => []TurnInv
  BY TurnCorrect
<1>2. TurnInv => LinearHistory
  BY DEF TurnInv, History
<1>3. QED BY <1>1, <1>2, PTL

\* Every ACE an operator approved is in the latest version, a deny as a deny,
\* for good: approvals do not overwrite each other, and _merge_aces drops
\* nothing.
THEOREM ApprovalsStay == ASSUME TakeTurns, SweepAlone PROVE Spec => []ApprovedStaysLive
<1>1. Spec => []TurnInv
  BY TurnCorrect
<1>2. TurnInv => ApprovedStaysLive
  BY DEF TurnInv, History, Accumulates, ApprovedStaysLive, IsLatest
<1>3. QED BY <1>1, <1>2, PTL

-----------------------------------------------------------------------------
(* The store implements PolicyLedger                                        *)

\* The policy in force is the version latest_for_tenant returns.
LEMMA LiveIsNewest ==
  ASSUME VersionIds, versions \subseteq Version, NEW b, IsNewest(b)
  PROVE  LiveMatrix = ContractsOf(b)
<1>1. CASE versions = {}
  BY <1>1 DEF LiveMatrix, IsNewest
<1>2. CASE versions # {}
  <2>1. b \in versions /\ IsLatest(b)
    BY <1>2 DEF IsNewest
  <2>2. \A v \in versions : IsLatest(v) => v = b
    BY <2>1 DEF IsLatest, VersionIds, Version
  <2>3. (CHOOSE v \in versions : IsLatest(v)) = b
    BY <2>1, <2>2
  <2>4. QED BY <1>2, <2>3 DEF LiveMatrix
<1>3. QED BY <1>1, <1>2

\* The committed version is in force at once.
LEMMA LiveIsNew ==
  ASSUME versions \subseteq Version, NEW n \in Version, versions' = versions \cup {n},
         \A v \in versions : v.id < n.id
  PROVE  LiveMatrix' = n.contracts
<1>1. n # None
  BY NoneAssumption
<1>2. n \in versions' /\ \A w \in versions' : w.id <= n.id
  BY DEF Version
<1>3. \A v \in versions' : (\A w \in versions' : w.id <= v.id) => v = n
  BY DEF Version
<1>4. (CHOOSE v \in versions' : v \in versions' /\ \A w \in versions' : w.id <= v.id) = n
  BY <1>2, <1>3
<1>5. QED BY <1>1, <1>2, <1>4 DEF LiveMatrix, IsLatest, ContractsOf

\* The ledger's steps, from what they change.
LEMMA LedgerStutter ==
  ASSUME UNCHANGED LiveMatrix,
         \A i \in Ids : StateOf(proposals'[i]) = StateOf(proposals[i])
  PROVE  UNCHANGED Ledger!vars
BY DEF Ledger!vars

LEMMA LedgerSubmit ==
  ASSUME UNCHANGED LiveMatrix, NEW i \in Ids,
         StateOf(proposals[i]) = "none", StateOf(proposals'[i]) = "open",
         \A j \in Ids \ {i} : StateOf(proposals'[j]) = StateOf(proposals[j])
  PROVE  Ledger!Next
<1>1. Ledger!Submit(i)
  BY DEF Ledger!Submit
<1>2. QED BY <1>1 DEF Ledger!Next

LEMMA LedgerClose ==
  ASSUME UNCHANGED LiveMatrix, NEW is \in SUBSET Ids,
         \A i \in is : StateOf(proposals[i]) = "open" /\ StateOf(proposals'[i]) = "closed",
         \A j \in Ids \ is : StateOf(proposals'[j]) = StateOf(proposals[j])
  PROVE  Ledger!Next
<1>1. Ledger!Close(is)
  BY DEF Ledger!Close
<1>2. QED BY <1>1 DEF Ledger!Next

LEMMA LedgerApprove ==
  ASSUME NEW i \in Ids, NEW p \in Pairs, NEW a \in Aces,
         LiveMatrix' = [LiveMatrix EXCEPT ![p] = MergeAces(@, a)],
         StateOf(proposals[i]) = "open", StateOf(proposals'[i]) = "applied",
         \A j \in Ids \ {i} : StateOf(proposals'[j]) = StateOf(proposals[j])
  PROVE  Ledger!Next
<1>1. Ledger!Approve(i, p, a)
  BY DEF Ledger!Approve
<1>2. QED BY <1>1 DEF Ledger!Next

LEMMA LedgerInit == Init => Ledger!Init
BY DEF Init, Ledger!Init, StateOf, LiveMatrix, ContractsOf

\* What a commit does to a row, as the ledger sees it.
LEMMA CommitState ==
  ASSUME TurnInv, NEW s \in Sessions, Commit(s), NEW i \in Ids
  PROVE  \/ StateOf(proposals'[i]) = StateOf(proposals[i])
         \/ StateOf(proposals[i]) = "none" /\ StateOf(proposals'[i]) = "open"
         \/ StateOf(proposals[i]) = "open" /\ StateOf(proposals'[i]) = "closed"
         \/ newver[s] # None /\ newver[s].proposal = i
<1>1. CASE ~Exists(i)'
  <2>1. ~Exists(i)
    BY <1>1, CommitPairs
  <2>2. QED BY <1>1, <2>1 DEF Exists, StateOf
<1>2. CASE Exists(i)'
  <2>1. CASE Exists(i) /\ proposals'[i].status = proposals[i].status
    BY <1>2, <2>1 DEF Exists, StateOf
  <2>2. CASE ~Exists(i) /\ proposals'[i].status = "pending"
    BY <1>2, <2>2 DEF Exists, StateOf, Open
  <2>3. CASE IsOpen(i) /\ proposals'[i].status \in {"rejected", "expired", "failed"}
    BY <1>2, <2>3 DEF IsOpen, Exists, StateOf, Open
  <2>4. QED BY <1>2, <2>1, <2>2, <2>3, CommittedRow DEF TurnInv
<1>3. QED BY <1>1, <1>2

\* An approval is committed: one row and the version that folds it in.
LEMMA CommitApproves ==
  ASSUME TurnInv, NEW s \in Sessions, Commit(s), newver[s] # None
  PROVE  Ledger!Next
<1> DEFINE n == newver[s]
           i == n.proposal
<1> USE DEF TurnInv, DecideInv, TypeInv, TypeOK
<1>1. /\ n \in Version /\ versions' = versions \cup {n}
      /\ IsNewest(base[s]) /\ Follows(n, base[s])
  BY CommitEffect DEF TurnOK
<1>2. /\ i \in Ids /\ n.aces \in Aces /\ IsOpen(i)
      /\ dirty[s][i] # None /\ dirty[s][i].status = "applied"
  BY <1>1 DEF Version, SessionOK
<1>3. proposals[i].pair \in Pairs
  BY <1>2 DEF IsOpen, Exists, Row
<1>4. \A j \in Ids \ {i} : dirty[s][j] = None
  BY <1>2 DEF TurnOK, OneRow
<1>5. /\ proposals'[i] = dirty[s][i]
      /\ \A j \in Ids \ {i} : proposals'[j] = proposals[j]
  BY <1>2, <1>4, CommitEffect
<1>6. StateOf(proposals[i]) = "open" /\ StateOf(proposals'[i]) = "applied"
  BY <1>2, <1>5 DEF IsOpen, Exists, StateOf, Open
<1>7. LiveMatrix = ContractsOf(base[s])
  BY <1>1, LiveIsNewest DEF History
<1>8. LiveMatrix' = n.contracts
  BY <1>1, LiveIsNew DEF Follows
<1>9. LiveMatrix' = [LiveMatrix EXCEPT ![proposals[i].pair] = MergeAces(@, n.aces)]
  BY <1>1, <1>7, <1>8 DEF Follows
<1> HIDE DEF n, i
<1>10. QED BY <1>2, <1>3, <1>5, <1>6, <1>9, LedgerApprove

\* Anything else that is committed leaves the policy as it is.
LEMMA CommitCloses ==
  ASSUME TurnInv, NEW s \in Sessions, Commit(s), newver[s] = None
  PROVE  Ledger!Next \/ UNCHANGED Ledger!vars
<1>1. UNCHANGED LiveMatrix
  <2>1. UNCHANGED versions
    BY CommitEffect DEF TurnInv
  <2>2. QED BY <2>1 DEF LiveMatrix, IsLatest
<1>2. \A j \in Ids : dirty[s][j] = None => proposals'[j] = proposals[j]
  BY CommitEffect DEF TurnInv
<1>3. CASE \A i, j \in Ids : dirty[s][i] # None /\ dirty[s][j] # None => i = j
  <2>1. CASE \A i \in Ids : StateOf(proposals'[i]) = StateOf(proposals[i])
    BY <1>1, <2>1, LedgerStutter
  <2>2. ASSUME NEW i \in Ids, StateOf(proposals'[i]) # StateOf(proposals[i])
        PROVE  Ledger!Next
    <3>1. \A j \in Ids \ {i} : StateOf(proposals'[j]) = StateOf(proposals[j])
      BY <1>2, <1>3, <2>2
    <3>2. CASE StateOf(proposals[i]) = "none" /\ StateOf(proposals'[i]) = "open"
      BY <1>1, <3>1, <3>2, LedgerSubmit
    <3>3. CASE StateOf(proposals[i]) = "open" /\ StateOf(proposals'[i]) = "closed"
      <4>1. {i} \in SUBSET Ids
        OBVIOUS
      <4>2. QED BY <1>1, <3>1, <3>3, <4>1, LedgerClose
    <3>4. QED BY <2>2, <3>2, <3>3, CommitState
  <2>3. QED BY <2>1, <2>2
<1>4. CASE \A i \in Ids : dirty[s][i] # None => IsOpen(i) /\ dirty[s][i].status = "expired"
  <2> DEFINE is == {i \in Ids : dirty[s][i] # None}
  <2>1. ASSUME NEW i \in is
        PROVE  StateOf(proposals[i]) = "open" /\ StateOf(proposals'[i]) = "closed"
    <3>1. proposals'[i] = dirty[s][i]
      BY CommitEffect DEF TurnInv
    <3>2. QED BY <1>4, <3>1 DEF IsOpen, Exists, StateOf, Open
  <2>2. \A j \in Ids \ is : StateOf(proposals'[j]) = StateOf(proposals[j])
    BY <1>2
  <2>3. is \in SUBSET Ids
    OBVIOUS
  <2> HIDE DEF is
  <2>4. QED BY <1>1, <2>1, <2>2, <2>3, LedgerClose
<1>5. QED BY <1>3, <1>4 DEF TurnInv, TurnOK, OneRow

LEMMA LedgerNext == TurnInv /\ [Next]_vars => [Ledger!Next]_(Ledger!vars)
<1> SUFFICES ASSUME TurnInv, [Next]_vars PROVE [Ledger!Next]_(Ledger!vars)
  OBVIOUS
<1>1. CASE UNCHANGED <<proposals, versions>>
  <2>1. UNCHANGED LiveMatrix
    BY <1>1 DEF LiveMatrix, IsLatest
  <2>2. QED BY <1>1, <2>1, LedgerStutter
<1>2. ASSUME NEW s \in Sessions, Commit(s) PROVE [Ledger!Next]_(Ledger!vars)
  BY <1>2, CommitApproves, CommitCloses
<1>3. ASSUME NEW i \in Ids, MarkNotified(i) PROVE [Ledger!Next]_(Ledger!vars)
  <2>1. UNCHANGED LiveMatrix
    BY <1>3 DEF MarkNotified, LiveMatrix, IsLatest
  <2>2. proposals \in [Ids -> Row \cup {None}]
    BY DEF TurnInv, DecideInv, TypeInv, TypeOK
  <2>3. proposals[i] \in Row /\ proposals[i].status = "pending"
    BY <1>3, <2>2 DEF MarkNotified, Exists
  <2>4. proposals'[i] = [proposals[i] EXCEPT !.status = "notified"]
    BY <1>3, <2>2 DEF MarkNotified
  <2>5. proposals'[i] \in Row /\ proposals'[i].status = "notified"
    BY <2>3, <2>4 DEF Row, Status
  <2>6. StateOf(proposals'[i]) = StateOf(proposals[i])
    BY <2>3, <2>5, NoneAssumption DEF StateOf, Open
  <2>7. \A j \in Ids : StateOf(proposals'[j]) = StateOf(proposals[j])
    BY <1>3, <2>2, <2>6 DEF MarkNotified
  <2>8. QED BY <2>1, <2>7, LedgerStutter
<1>4. CASE UNCHANGED vars
  BY <1>1, <1>4 DEF vars, db
<1>5. QED BY <1>1, <1>2, <1>3, <1>4, RowsChange

\* Seen from outside, sessions, rows and versions are the ledger: every commit
\* submits one proposal, closes some, or approves one and folds its ACEs into
\* the policy in force, and nothing else changes either.
THEOREM StoreIsLedger == ASSUME TakeTurns, SweepAlone PROVE Spec => ImplementsLedger
<1>1. Spec => []TurnInv
  BY TurnCorrect
<1>2. Init => Ledger!Init
  BY LedgerInit
<1>3. TurnInv /\ [Next]_vars => [Ledger!Next]_(Ledger!vars)
  BY LedgerNext
<1>4. QED BY <1>1, <1>2, <1>3, PTL DEF Spec, ImplementsLedger, Ledger!Spec

=============================================================================
