-------------------------- MODULE ProposalsProofs --------------------------
(* Theorems about Proposals, for every value of its constants.              *)
EXTENDS Proposals, TLAPS

-----------------------------------------------------------------------------
(* Type correctness                                                         *)

\* The local variables a label uses are set.
LocalsOK ==
  \A s \in Sessions :
    /\ pc[s] \in {"pending", "get", "replace", "insert"} => req[s] # None
    /\ pc[s] \in {"idle", "latest", "create", "ack", "sweep"} => req[s] = None
    /\ pc[s] \in {"get", "replace"} => target[s] # None /\ Exists(target[s])
    /\ pc[s] = "get" => aces[s] # None
    /\ pc[s] \in {"latest", "create", "ack"} =>
         target[s] # None /\ aces[s] # None /\ dirty[s][target[s]] # None
    /\ pc[s] = "commit" /\ req[s] # None =>
         target[s] # None /\ (Exists(target[s]) \/ aces[s] # None)
    /\ pc[s] = "card" => target[s] # None /\ aces[s] # None
    /\ \A i \in selected[s] : Exists(i)

TypeInv == TypeOK /\ LocalsOK

LEMMA MergeType ==
  ASSUME NEW a \in Aces, NEW b \in Aces
  PROVE  MergeAces(a, b) \in Aces
BY DEF MergeAces, MergeAction, Aces, Action

LEMMA TypeInit == Init => TypeInv
BY DEF Init, TypeInv, TypeOK, LocalsOK, NoWrites, Label

\* The end of a session, whatever else the step does to the tables.
LEMMA EndSessionType ==
  ASSUME TypeInv, NEW s \in Sessions, EndSession(s),
         \A i \in Ids : Exists(i) => Exists(i)',
         proposals' \in [Ids -> Row \cup {None}],
         versions' \subseteq Version, nextVersion' \in Nat \ {0},
         overdue' \subseteq Ids, card' \in [Ids -> Aces \cup {None}],
         told' \subseteq Ids \X Status, accepted' \subseteq Requests
  PROVE  TypeInv'
<1>1. TypeOK'
  BY DEF TypeInv, TypeOK, EndSession, ResetLocals, Goto, NoWrites, Label
<1>2. LocalsOK'
  BY DEF TypeInv, TypeOK, LocalsOK, EndSession, ResetLocals, Goto
<1>3. QED BY <1>1, <1>2 DEF TypeInv

LEMMA TypeLookupIdem ==
  ASSUME TypeInv, NEW s \in Sessions, LookupIdem(s)
  PROVE  TypeInv'
<1>1. TypeOK'
  BY ChannelsAssumption DEF TypeInv, TypeOK, LookupIdem, Goto, Label, Channel, db, staged, outside
<1>2. req'[s] # None
  BY NoneAssumption DEF LookupIdem, TypeInv, TypeOK
<1>3. LocalsOK'
  BY <1>2 DEF TypeInv, TypeOK, LocalsOK, LookupIdem, Goto, db, staged, outside, Exists
<1>4. QED BY <1>1, <1>3 DEF TypeInv

LEMMA TypeListPending ==
  ASSUME TypeInv, NEW s \in Sessions, ListPending(s)
  PROVE  TypeInv'
<1> USE DEF TypeInv, TypeOK, Goto, db, staged, outside
<1>1. UNCHANGED <<proposals, versions, nextVersion, overdue, chan, req, base,
                  selected, dirty, newver, card, told, accepted>>
  BY DEF ListPending
<1>2. CASE pc' = [pc EXCEPT ![s] = "insert"] /\ UNCHANGED <<target, aces>>
  <2>1. TypeOK'
    BY <1>1, <1>2 DEF Label
  <2>2. LocalsOK'
    BY <1>1, <1>2 DEF LocalsOK, ListPending, Exists
  <2>3. QED BY <2>1, <2>2
<1>3. ASSUME NEW i \in PendingForPair(req[s].pair),
             target' = [target EXCEPT ![s] = i],
             aces' = [aces EXCEPT ![s] = proposals[i].aces],
             pc' = [pc EXCEPT ![s] = "get"]
      PROVE  TypeInv'
  <2>1. i \in Ids /\ i # None /\ Exists(i)
    BY NoneAssumption DEF PendingForPair, IsOpen
  <2>2. proposals[i].aces \in Aces /\ proposals[i].aces # None
    BY <2>1, NoneAssumption DEF Exists, Row
  <2>3. TypeOK'
    BY <1>1, <1>3, <2>1, <2>2 DEF Label
  <2>4. LocalsOK'
    BY <1>1, <1>3, <2>1, <2>2 DEF LocalsOK, ListPending, Exists
  <2>5. QED BY <2>3, <2>4
<1>4. QED BY <1>2, <1>3 DEF ListPending

LEMMA TypeGetTarget ==
  ASSUME TypeInv, NEW s \in Sessions, GetTarget(s)
  PROVE  TypeInv'
<1> USE DEF TypeInv, TypeOK, Goto, db, staged, outside
<1>1. CASE IsOpen(target[s]) /\ pc' = [pc EXCEPT ![s] = "replace"]
  <2>1. req[s] \in Requests /\ req[s].aces \in Aces /\ aces[s] \in Aces
    BY RequestsAssumption DEF GetTarget, LocalsOK, Shape
  <2>2. MergeAces(aces[s], req[s].aces) \in Aces
    BY <2>1, MergeType
  <2>3. /\ UNCHANGED <<proposals, versions, nextVersion, overdue, chan, req, base,
                       target, selected, dirty, newver, card, told, accepted>>
        /\ \E a \in Aces \cup {None} : aces' = [aces EXCEPT ![s] = a]
    BY <1>1, <2>2 DEF GetTarget, EndSession
  <2>4. TypeOK'
    BY <1>1, <2>3 DEF Label
  <2>5. LocalsOK'
    BY <1>1, <2>3 DEF GetTarget, LocalsOK, Exists
  <2>6. QED BY <2>4, <2>5
<1>2. CASE EndSession(s)
  BY <1>2, EndSessionType DEF GetTarget, Exists
<1>3. QED BY <1>1, <1>2 DEF GetTarget

\* A session stages one row: what it stages is a row.
LEMMA StageType ==
  ASSUME TypeOK, NEW s \in Sessions, NEW i \in Ids, NEW r \in Row, Stage(s, i, r)
  PROVE  /\ dirty' \in [Sessions -> [Ids -> Row \cup {None}]]
         /\ dirty'[s][i] = r
         /\ \A t \in Sessions, j \in Ids :
              t # s \/ j # i => dirty'[t][j] = dirty[t][j]
BY DEF TypeOK, Stage

LEMMA TypeFlushAces ==
  ASSUME TypeInv, NEW s \in Sessions, FlushAces(s)
  PROVE  TypeInv'
<1> DEFINE a == IF aces[s] = None THEN proposals[target[s]].aces ELSE aces[s]
           r == [proposals[target[s]] EXCEPT !.aces = a]
<1>1. target[s] \in Ids /\ proposals[target[s]] \in Row /\ a \in Aces
  BY DEF TypeInv, TypeOK, LocalsOK, FlushAces, Exists, Row
<1>2. r \in Row
  BY <1>1 DEF Row
<1>3. Stage(s, target[s], r)
  BY <1>1 DEF FlushAces, Row
<1>4. dirty' \in [Sessions -> [Ids -> Row \cup {None}]]
  BY <1>1, <1>2, <1>3, StageType DEF TypeInv
<1>5. TypeOK'
  BY <1>4 DEF TypeInv, TypeOK, FlushAces, Goto, Label, db, locals, outside
<1>6. LocalsOK'
  BY <1>1, <1>2, <1>3, StageType DEF TypeInv, TypeOK, LocalsOK, FlushAces, Goto, db, locals, outside, Exists
<1>7. QED BY <1>5, <1>6 DEF TypeInv

LEMMA TypeInsert ==
  ASSUME TypeInv, NEW s \in Sessions, Insert(s)
  PROVE  TypeInv'
<1> DEFINE r == [pair |-> req[s].pair, aces |-> req[s].aces, idem |-> req[s],
                 status |-> "pending", audit |-> <<>>]
<1>1. req[s] \in Requests /\ req[s].pair \in Pairs /\ req[s].aces \in Aces
  BY RequestsAssumption DEF TypeInv, TypeOK, LocalsOK, Insert, Shape
<1>2. r \in Row
  BY <1>1 DEF Row, Status
<1>3. CASE EndSession(s)
  BY <1>3, EndSessionType DEF Insert, TypeInv, TypeOK, db, outside, Exists
<1>4. ASSUME NEW i \in Ids, Stage(s, i, r), target' = [target EXCEPT ![s] = i],
             aces' = [aces EXCEPT ![s] = req[s].aces],
             pc' = [pc EXCEPT ![s] = "commit"],
             UNCHANGED <<proposals, versions, nextVersion, overdue, chan, req,
                         base, selected, newver, card, told, accepted>>
      PROVE  TypeInv'
  <2>1. dirty' \in [Sessions -> [Ids -> Row \cup {None}]]
    BY <1>2, <1>4, StageType DEF TypeInv
  <2>2. TypeOK'
    BY <1>1, <1>4, <2>1 DEF TypeInv, TypeOK, Label
  <2>3. \A t \in Sessions, j \in Ids : t # s => dirty'[t][j] = dirty[t][j]
    BY <1>2, <1>4, StageType DEF TypeInv
  <2>4. i # None /\ req[s].aces # None
    BY <1>1, NoneAssumption
  <2>5. LocalsOK'
    BY <1>4, <2>3, <2>4 DEF TypeInv, TypeOK, LocalsOK, Exists
  <2>6. QED BY <2>2, <2>5 DEF TypeInv
<1>5. QED
  BY <1>3, <1>4 DEF Insert, Goto, db, outside

LEMMA TypePostCard ==
  ASSUME TypeInv, NEW s \in Sessions, PostCard(s)
  PROVE  TypeInv'
<1>1. target[s] \in Ids /\ aces[s] \in Aces
  BY DEF TypeInv, TypeOK, LocalsOK, PostCard
<1>2. card' \in [Ids -> Aces \cup {None}]
  BY <1>1 DEF TypeInv, TypeOK, PostCard
<1>3. QED
  BY <1>2, EndSessionType DEF PostCard, TypeInv, TypeOK, db, Exists

LEMMA TypeDecideUpdate ==
  ASSUME TypeInv, NEW s \in Sessions, NEW i \in Ids,
         NEW d \in {"approved", "rejected"}, NEW c \in DecideChannels,
         DecideUpdate(s, i, d, c)
  PROVE  TypeInv'
<1> DEFINE r == [proposals[i] EXCEPT !.status = d, !.audit = Append(@, d)]
<1>1. proposals[i] \in Row /\ proposals[i].aces \in Aces
  BY DEF DecideUpdate, IsOpen, Exists, TypeInv, TypeOK, Row
<1>2. Append(proposals[i].audit, d) \in Seq(Event)
  <2>1. proposals[i].audit \in Seq(Event) /\ d \in Event
    BY <1>1 DEF Row, Event
  <2>2. QED BY <2>1
<1>3. r \in Row
  BY <1>1, <1>2 DEF Row, Status
<1>4. Stage(s, i, r)
  BY DEF DecideUpdate
<1>5. dirty' \in [Sessions -> [Ids -> Row \cup {None}]]
  BY <1>3, <1>4, StageType DEF TypeInv
<1>6. /\ dirty'[s][i] # None
      /\ \A t \in Sessions, j \in Ids : t # s => dirty'[t][j] = dirty[t][j]
  BY <1>3, <1>4, StageType, NoneAssumption DEF TypeInv
<1>7. /\ UNCHANGED <<proposals, versions, nextVersion, overdue, req, base,
                     selected, newver, card, told, accepted>>
      /\ chan' = [chan EXCEPT ![s] = c]
      /\ target' = [target EXCEPT ![s] = i]
      /\ aces' = [aces EXCEPT ![s] = proposals[i].aces]
      /\ \E l \in {"latest", "ack", "commit"} : pc' = [pc EXCEPT ![s] = l]
  BY DEF DecideUpdate, AcesToApply, AfterDecision, Goto, db, outside
<1>8. TypeOK'
  <2>1. c \in Channel
    BY ChannelsAssumption DEF Channel
  <2>2. pc' \in [Sessions -> Label]
    BY <1>7 DEF TypeInv, TypeOK, Label
  <2>3. QED BY <1>1, <1>5, <1>7, <2>1, <2>2 DEF TypeInv, TypeOK
<1>9. LocalsOK'
  <2>1. i # None /\ proposals[i].aces # None
    BY <1>1, NoneAssumption
  <2>2. pc[s] = "idle"
    BY DEF DecideUpdate
  <2>3. QED BY <1>6, <1>7, <2>1, <2>2 DEF TypeInv, TypeOK, LocalsOK, Exists
<1>10. QED BY <1>8, <1>9 DEF TypeInv

LEMMA TypeDecideConflict ==
  ASSUME TypeInv, NEW s \in Sessions, NEW i \in Ids, DecideConflict(s, i)
  PROVE  TypeInv'
<1>1. told' \subseteq Ids \X Status
  BY DEF DecideConflict, Exists, TypeInv, TypeOK, Row
<1>2. QED
  BY <1>1 DEF DecideConflict, TypeInv, TypeOK, LocalsOK, Exists, db, locals, staged

LEMMA TypeReadLatest ==
  ASSUME TypeInv, NEW s \in Sessions, ReadLatest(s)
  PROVE  TypeInv'
<1>1. \E v \in Version \cup {None} : base' = [base EXCEPT ![s] = v] \/ base' = base
  BY DEF ReadLatest, TypeInv, TypeOK
<1>2. TypeOK'
  BY <1>1 DEF ReadLatest, TypeInv, TypeOK, Goto, Label, db, staged, outside
<1>3. LocalsOK'
  BY DEF ReadLatest, TypeInv, TypeOK, LocalsOK, Goto, db, staged, outside, Exists
<1>4. QED BY <1>2, <1>3 DEF TypeInv

\* mark_status on the row the session holds.
LEMMA AdvanceType ==
  ASSUME TypeOK, NEW s \in Sessions, target[s] \in Ids, dirty[s][target[s]] # None,
         NEW st \in Status, NEW e \in Event, Advance(s, st, e)
  PROVE  /\ dirty' \in [Sessions -> [Ids -> Row \cup {None}]]
         /\ dirty'[s][target[s]] # None
         /\ \A t \in Sessions, j \in Ids : t # s => dirty'[t][j] = dirty[t][j]
<1> DEFINE old == dirty[s][target[s]]
           r   == [old EXCEPT !.status = st, !.audit = Append(@, e)]
<1>1. old \in Row
  BY DEF TypeOK
<1>2. Append(old.audit, e) \in Seq(Event)
  <2>1. old.audit \in Seq(Event)
    BY <1>1 DEF Row
  <2>2. QED BY <2>1
<1>3. r \in Row
  BY <1>1, <1>2 DEF Row
<1>4. Stage(s, target[s], r)
  BY DEF Advance
<1>5. QED BY <1>3, <1>4, StageType, NoneAssumption

LEMMA ContractsType ==
  ASSUME NEW v \in Version \cup {None}
  PROVE  ContractsOf(v) \in [Pairs -> Aces]
BY DEF ContractsOf, Version, NoMatrix, NoAces, Aces, Action

\* The version an approval inserts.
VersionMade(s) ==
  [id        |-> nextVersion,
   parent    |-> IF base[s] = None THEN 0 ELSE base[s].id,
   contracts |-> [ContractsOf(base[s]) EXCEPT
                    ![dirty[s][target[s]].pair] = MergeAces(@, aces[s])],
   proposal  |-> target[s],
   aces      |-> aces[s]]

LEMMA NewVersionType ==
  ASSUME TypeInv, NEW s \in Sessions, CreateVersion(s)
  PROVE  /\ VersionMade(s) \in Version
         /\ newver' = [newver EXCEPT ![s] = VersionMade(s)]
<1> DEFINE old == ContractsOf(base[s])
           p   == dirty[s][target[s]].pair
           new == [old EXCEPT ![p] = MergeAces(@, aces[s])]
<1>1. /\ target[s] \in Ids /\ dirty[s][target[s]] # None
      /\ p \in Pairs /\ aces[s] \in Aces
  BY DEF CreateVersion, TypeInv, TypeOK, LocalsOK, Row
<1>2. old \in [Pairs -> Aces]
  BY ContractsType DEF TypeInv, TypeOK
<1>3. MergeAces(old[p], aces[s]) \in Aces
  BY <1>1, <1>2, MergeType
<1>4. new \in [Pairs -> Aces]
  BY <1>2, <1>3
<1>5. (IF base[s] = None THEN 0 ELSE base[s].id) \in Nat
  BY DEF TypeInv, TypeOK, Version
<1>6. VersionMade(s) \in Version
  BY <1>1, <1>4, <1>5 DEF TypeInv, TypeOK, Version, VersionMade
<1>7. newver' = [newver EXCEPT ![s] = VersionMade(s)]
  BY DEF CreateVersion, VersionMade
<1>8. QED BY <1>6, <1>7

LEMMA TypeCreateVersion ==
  ASSUME TypeInv, NEW s \in Sessions, CreateVersion(s)
  PROVE  TypeInv'
<1>1. target[s] \in Ids /\ dirty[s][target[s]] # None
  BY DEF CreateVersion, TypeInv, TypeOK, LocalsOK
<1>2. /\ VersionMade(s) \in Version
      /\ newver' = [newver EXCEPT ![s] = VersionMade(s)]
  BY NewVersionType
<1>3. Advance(s, "applied", "applied")
  BY DEF CreateVersion
<1>4. /\ dirty' \in [Sessions -> [Ids -> Row \cup {None}]]
      /\ dirty'[s][target[s]] # None
      /\ \A t \in Sessions, j \in Ids : t # s => dirty'[t][j] = dirty[t][j]
  BY <1>1, <1>3, AdvanceType DEF TypeInv, Status, Event
<1>5. /\ UNCHANGED <<proposals, versions, overdue, chan, req, target, aces,
                     base, selected, card, told, accepted>>
      /\ nextVersion' = nextVersion + 1
      /\ \E l \in {"ack", "commit"} : pc' = [pc EXCEPT ![s] = l]
  BY DEF CreateVersion, AfterDecision, Goto, locals, outside
<1>6. TypeOK'
  <2>1. pc' \in [Sessions -> Label]
    BY <1>5 DEF TypeInv, TypeOK, Label
  <2>2. newver' \in [Sessions -> Version \cup {None}]
    BY <1>2 DEF TypeInv, TypeOK
  <2>3. QED BY <1>4, <1>5, <2>1, <2>2 DEF TypeInv, TypeOK
<1>7. LocalsOK'
  <2>1. pc[s] = "create"
    BY DEF CreateVersion
  <2>2. QED BY <1>4, <1>5, <2>1 DEF TypeInv, TypeOK, LocalsOK, Exists
<1>8. QED BY <1>6, <1>7 DEF TypeInv

LEMMA TypeApplyFails ==
  ASSUME TypeInv, NEW s \in Sessions, ApplyFails(s)
  PROVE  TypeInv'
<1>1. /\ target[s] \in Ids /\ aces[s] # None /\ dirty[s][target[s]] # None
      /\ pc[s] \in {"latest", "create"}
  BY DEF ApplyFails, TypeInv, TypeOK, LocalsOK
<1>2. told' \subseteq Ids \X Status
  BY <1>1 DEF ApplyFails, TypeInv, TypeOK, Status
<1>3. CASE EndSession(s)
  BY <1>2, <1>3, EndSessionType DEF ApplyFails, TypeInv, TypeOK, db, Exists
<1>4. CASE Advance(s, "failed", "apply_failed") /\ UNCHANGED <<locals, newver>>
           /\ Goto(s, IF chan[s] = "command" THEN "ack" ELSE "commit")
  <2>1. /\ dirty' \in [Sessions -> [Ids -> Row \cup {None}]]
        /\ dirty'[s][target[s]] # None
        /\ \A t \in Sessions, j \in Ids : t # s => dirty'[t][j] = dirty[t][j]
    BY <1>1, <1>4, AdvanceType DEF TypeInv, Status, Event
  <2>2. /\ UNCHANGED <<proposals, versions, nextVersion, overdue, chan, req,
                       target, aces, base, selected, newver, card, accepted>>
        /\ \E l \in {"ack", "commit"} : pc' = [pc EXCEPT ![s] = l]
    BY <1>4 DEF ApplyFails, Goto, db, locals
  <2>3. pc' \in [Sessions -> Label]
    BY <2>2 DEF TypeInv, TypeOK, Label
  <2>4. TypeOK'
    BY <1>2, <2>1, <2>2, <2>3 DEF TypeInv, TypeOK
  <2>5. LocalsOK'
    BY <1>1, <2>1, <2>2 DEF TypeInv, TypeOK, LocalsOK, Exists
  <2>6. QED BY <2>4, <2>5 DEF TypeInv
<1>5. QED BY <1>3, <1>4 DEF ApplyFails

LEMMA TypeAck ==
  ASSUME TypeInv, NEW s \in Sessions, Ack(s)
  PROVE  TypeInv'
<1>1. /\ target[s] \in Ids /\ dirty[s][target[s]] \in Row
      /\ dirty[s][target[s]].status \in Status
  BY DEF Ack, TypeInv, TypeOK, LocalsOK, Row
<1>2. told' \subseteq Ids \X Status
  BY <1>1 DEF Ack, TypeInv, TypeOK
<1>3. CASE EndSession(s)
  BY <1>2, <1>3, EndSessionType DEF Ack, TypeInv, TypeOK, db, Exists
<1>4. CASE Goto(s, "commit") /\ UNCHANGED <<locals, staged>>
  <2>1. TypeOK'
    BY <1>2, <1>4 DEF Ack, TypeInv, TypeOK, Goto, Label, db, locals, staged
  <2>2. LocalsOK'
    BY <1>4 DEF Ack, TypeInv, TypeOK, LocalsOK, Goto, db, locals, staged, Exists
  <2>3. QED BY <2>1, <2>2 DEF TypeInv
<1>5. QED BY <1>3, <1>4 DEF Ack

LEMMA TypeMarkNotified ==
  ASSUME TypeInv, NEW i \in Ids, MarkNotified(i)
  PROVE  TypeInv'
<1> DEFINE r == [proposals[i] EXCEPT !.status = "notified"]
<1>1. proposals[i] \in Row
  BY DEF MarkNotified, Exists, TypeInv, TypeOK
<1>2. r \in Row
  BY <1>1 DEF Row, Status
<1>3. proposals' = [proposals EXCEPT ![i] = r]
  BY DEF MarkNotified
<1>4. TypeOK'
  BY <1>2, <1>3 DEF MarkNotified, TypeInv, TypeOK, locals, staged, outside
<1>5. \A j \in Ids : Exists(j) => Exists(j)'
  BY <1>2, <1>3, NoneAssumption DEF Exists, TypeInv, TypeOK
<1>6. LocalsOK'
  BY <1>5 DEF MarkNotified, TypeInv, TypeOK, LocalsOK, locals, staged, outside
<1>7. QED BY <1>4, <1>6 DEF TypeInv

LEMMA TypeExpiryPasses ==
  ASSUME TypeInv, NEW i \in Ids, ExpiryPasses(i)
  PROVE  TypeInv'
BY DEF ExpiryPasses, TypeInv, TypeOK, LocalsOK, Exists, locals, staged, outside

LEMMA TypeSelectOverdue ==
  ASSUME TypeInv, NEW s \in Sessions, SelectOverdue(s)
  PROVE  TypeInv'
<1> DEFINE found == {i \in overdue : IsOpen(i)}
<1>1. found \subseteq Ids /\ \A i \in found : Exists(i)
  BY DEF TypeInv, TypeOK, IsOpen
<1>2. TypeOK'
  BY <1>1 DEF SelectOverdue, TypeInv, TypeOK, Goto, Label, db, staged, outside
<1>3. LocalsOK'
  BY <1>1 DEF SelectOverdue, TypeInv, TypeOK, LocalsOK, Goto, Exists, db, staged, outside
<1>4. QED BY <1>2, <1>3 DEF TypeInv

LEMMA TypeFlushExpired ==
  ASSUME TypeInv, NEW s \in Sessions, FlushExpired(s)
  PROVE  TypeInv'
<1> DEFINE r(i) == [proposals[i] EXCEPT !.status = "expired",
                                        !.audit = Append(@, "expired")]
           rows == [i \in Ids |-> IF i \in selected[s] THEN r(i) ELSE None]
<1>1. ASSUME NEW i \in selected[s]
      PROVE  r(i) \in Row
  <2>1. proposals[i] \in Row /\ proposals[i].audit \in Seq(Event)
    BY <1>1 DEF TypeInv, TypeOK, LocalsOK, Exists, Row
  <2>2. Append(proposals[i].audit, "expired") \in Seq(Event)
    <3>1. "expired" \in Event
      BY DEF Event
    <3>2. QED BY <2>1, <3>1
  <2>3. QED BY <2>1, <2>2 DEF Row, Status
<1>2. rows \in [Ids -> Row \cup {None}]
  BY <1>1
<1>3. dirty' = [dirty EXCEPT ![s] = rows]
  BY DEF FlushExpired
<1> HIDE DEF rows
<1>4. TypeOK'
  BY <1>2, <1>3 DEF FlushExpired, TypeInv, TypeOK, Goto, Label, db, locals, outside
<1>5. LocalsOK'
  BY <1>3 DEF FlushExpired, TypeInv, TypeOK, LocalsOK, Goto, Exists, db, locals, outside
<1>6. QED BY <1>4, <1>5 DEF TypeInv

LEMMA TypeCommit ==
  ASSUME TypeInv, NEW s \in Sessions, Commit(s)
  PROVE  TypeInv'
<1>1. proposals' \in [Ids -> Row \cup {None}]
  BY DEF Commit, TypeInv, TypeOK
<1>2. /\ versions' \subseteq Version /\ accepted' \subseteq Requests
      /\ UNCHANGED <<nextVersion, overdue, card, told>>
  BY DEF Commit, TypeInv, TypeOK
<1>3. \A i \in Ids : Exists(i) => Exists(i)'
  BY DEF Commit, Exists
<1>4. CASE EndSession(s)
  BY <1>1, <1>2, <1>3, <1>4, EndSessionType DEF TypeInv, TypeOK
<1>5. CASE /\ req[s] # None /\ Created(s) /\ Goto(s, "card")
           /\ UNCHANGED <<locals, newver>>
           /\ dirty' = [dirty EXCEPT ![s] = NoWrites]
  <2>1. TypeOK'
    BY <1>1, <1>2, <1>5 DEF TypeInv, TypeOK, Goto, Label, NoWrites, locals
  <2>2. ~Exists(target[s]) /\ pc[s] = "commit"
    BY <1>5 DEF Commit, Created
  <2>3. target[s] # None /\ aces[s] # None
    BY <1>5, <2>2 DEF TypeInv, LocalsOK
  <2>4. LocalsOK'
    BY <1>3, <1>5, <2>3 DEF TypeInv, TypeOK, LocalsOK, Goto, locals
  <2>5. QED BY <2>1, <2>4 DEF TypeInv
<1>6. QED BY <1>4, <1>5 DEF Commit

LEMMA TypeCrash ==
  ASSUME TypeInv, NEW s \in Sessions, Crash(s)
  PROVE  TypeInv'
BY EndSessionType DEF Crash, TypeInv, TypeOK, db, outside, Exists

LEMMA TypeStutter ==
  ASSUME TypeInv, UNCHANGED vars
  PROVE  TypeInv'
BY DEF vars, db, locals, staged, outside, TypeInv, TypeOK, LocalsOK, Exists

LEMMA TypeNext == TypeInv /\ [Next]_vars => TypeInv'
<1> SUFFICES ASSUME TypeInv, [Next]_vars PROVE TypeInv'
  OBVIOUS
<1>1. ASSUME NEW s \in Sessions, Decide(s)
      PROVE  TypeInv'
  BY <1>1, TypeDecideUpdate, TypeDecideConflict DEF Decide
<1>2. ASSUME NEW s \in Sessions, Continue(s)
      PROVE  TypeInv'
  BY <1>2, TypeListPending, TypeGetTarget, TypeFlushAces, TypeInsert,
     TypePostCard, TypeReadLatest, TypeCreateVersion, TypeApplyFails, TypeAck,
     TypeFlushExpired, TypeCommit DEF Continue
<1>3. CASE UNCHANGED vars
  BY <1>3, TypeStutter
<1>4. QED
  BY <1>1, <1>2, <1>3, TypeLookupIdem, TypeSelectOverdue, TypeCrash,
     TypeMarkNotified, TypeExpiryPasses DEF Next

\* Every variable has its type, in every state, whatever the sessions do: no
\* step of propose(), decide() or expire_overdue() uses a local that is not set.
THEOREM TypeCorrect == Spec => []TypeOK
<1>1. Spec => []TypeInv
  BY TypeInit, TypeNext, PTL DEF Spec
<1>2. TypeInv => TypeOK
  BY DEF TypeInv
<1>3. QED BY <1>1, <1>2, PTL

-----------------------------------------------------------------------------
(* Idempotency: one row per key                                             *)
(*                                                                         *)
(* IdemUnique speaks of committed rows, but what a session is about to      *)
(* commit matters as much.  KeyOwner extends it to staged rows; it needs    *)
(* that an INSERT is the first write of its session.                        *)

Holds(i, k) ==
  \/ Exists(i) /\ proposals[i].idem = k
  \/ \E s \in Sessions : dirty[s][i] # None /\ dirty[s][i].idem = k

KeyOwner ==
  \A k \in Requests, i, j \in Ids : Holds(i, k) /\ Holds(j, k) => i = j

InsertFirst ==
  \A s \in Sessions : pc[s] \in {"idle", "pending", "insert"} => dirty[s] = NoWrites

IdemInv == TypeInv /\ KeyOwner /\ InsertFirst

LEMMA IdemInit == Init => IdemInv
<1> SUFFICES ASSUME Init PROVE IdemInv
  OBVIOUS
<1>1. KeyOwner
  BY DEF Init, KeyOwner, Holds, Exists, NoWrites
<1>2. InsertFirst
  BY DEF Init, InsertFirst
<1>3. QED BY <1>1, <1>2, TypeInit DEF IdemInv

\* A step that puts no key on a row that did not have it.
LEMMA NoNewKeys ==
  ASSUME KeyOwner,
         \A i \in Ids, k \in Requests : Holds(i, k)' => Holds(i, k)
  PROVE  KeyOwner'
BY DEF KeyOwner

\* A step that leaves the rows alone, or drops those of one session.
LEMMA SameRows ==
  ASSUME TypeInv, KeyOwner, UNCHANGED proposals,
         \A t \in Sessions, i \in Ids :
           dirty'[t][i] = dirty[t][i] \/ dirty'[t][i] = None
  PROVE  KeyOwner'
<1>1. \A i \in Ids, k \in Requests : Holds(i, k)' => Holds(i, k)
  BY DEF Holds, Exists
<1>2. QED BY <1>1, NoNewKeys

\* Staging a row with the key of the committed row, or of the one staged before.
LEMMA SameKey ==
  ASSUME TypeInv, KeyOwner, UNCHANGED proposals, NEW s \in Sessions,
         \A t \in Sessions, i \in Ids : t # s => dirty'[t][i] = dirty[t][i],
         \A i \in Ids : dirty'[s][i] # None =>
           \/ Exists(i) /\ dirty'[s][i].idem = proposals[i].idem
           \/ dirty[s][i] # None /\ dirty'[s][i].idem = dirty[s][i].idem
  PROVE  KeyOwner'
<1>1. ASSUME NEW i \in Ids, NEW k \in Requests, Holds(i, k)'
      PROVE  Holds(i, k)
  <2>1. CASE Exists(i)' /\ proposals'[i].idem = k
    BY <2>1 DEF Holds, Exists
  <2>2. ASSUME NEW t \in Sessions, dirty'[t][i] # None, dirty'[t][i].idem = k
        PROVE  Holds(i, k)
    BY <2>2 DEF Holds
  <2>3. QED BY <1>1, <2>1, <2>2 DEF Holds
<1>2. QED BY <1>1, NoNewKeys

LEMMA EndSessionIdem ==
  ASSUME IdemInv, NEW s \in Sessions, EndSession(s), UNCHANGED proposals
  PROVE  KeyOwner' /\ InsertFirst'
<1>1. \A t \in Sessions : dirty'[t] = IF t = s THEN NoWrites ELSE dirty[t]
  BY DEF IdemInv, TypeInv, TypeOK, EndSession
<1>2. \A t \in Sessions, i \in Ids :
        dirty'[t][i] = dirty[t][i] \/ dirty'[t][i] = None
  BY <1>1 DEF NoWrites
<1>3. KeyOwner'
  BY <1>2, SameRows DEF IdemInv
<1>4. InsertFirst'
  BY <1>1 DEF IdemInv, InsertFirst, EndSession, Goto, TypeInv, TypeOK
<1>5. QED BY <1>3, <1>4

\* A step of s that stages nothing, to a label from which INSERT is out of
\* reach or still the first write.
LEMMA GotoIdem ==
  ASSUME IdemInv, NEW s \in Sessions, NEW l \in Label, Goto(s, l),
         UNCHANGED <<proposals, dirty>>,
         l \in {"idle", "pending", "insert"} => pc[s] \in {"idle", "pending", "insert"}
  PROVE  KeyOwner' /\ InsertFirst'
<1>1. KeyOwner'
  BY SameRows DEF IdemInv
<1>2. InsertFirst'
  BY DEF IdemInv, InsertFirst, Goto, TypeInv, TypeOK
<1>3. QED BY <1>1, <1>2

\* A step of s that stages rows under the keys they have.
LEMMA StageIdem ==
  ASSUME IdemInv, NEW s \in Sessions, NEW l \in Label, Goto(s, l),
         l \notin {"idle", "pending", "insert"}, UNCHANGED proposals,
         \A t \in Sessions, i \in Ids : t # s => dirty'[t][i] = dirty[t][i],
         \A t \in Sessions : t # s => dirty'[t] = dirty[t],
         \A i \in Ids : dirty'[s][i] # None =>
           \/ Exists(i) /\ dirty'[s][i].idem = proposals[i].idem
           \/ dirty[s][i] # None /\ dirty'[s][i].idem = dirty[s][i].idem
  PROVE  KeyOwner' /\ InsertFirst'
<1>1. KeyOwner'
  BY SameKey DEF IdemInv
<1>2. InsertFirst'
  BY DEF IdemInv, InsertFirst, Goto, TypeInv, TypeOK
<1>3. QED BY <1>1, <1>2

LEMMA InsertIdem ==
  ASSUME IdemInv, NEW s \in Sessions, Insert(s)
  PROVE  KeyOwner' /\ InsertFirst'
<1> DEFINE r == [pair |-> req[s].pair, aces |-> req[s].aces, idem |-> req[s],
                 status |-> "pending", audit |-> <<>>]
<1>1. CASE EndSession(s)
  BY <1>1, EndSessionIdem DEF Insert, db
<1>2. ASSUME ~KeyTaken(req[s]), NEW i \in Ids, ~Exists(i),
             \A t \in Sessions : dirty[t][i] = None,
             Stage(s, i, r), Goto(s, "commit"), UNCHANGED proposals
      PROVE  KeyOwner' /\ InsertFirst'
  <2>1. /\ dirty[s] = NoWrites
        /\ \A t \in Sessions \ {s}, j \in Ids :
             dirty[t][j] # None => dirty[t][j].idem # req[s]
    BY DEF IdemInv, InsertFirst, Insert
  <2>2. \A j \in Ids : ~Holds(j, req[s])
    BY <1>2, <2>1 DEF Holds, KeyTaken, NoWrites
  <2>3. dirty' = [dirty EXCEPT ![s][i] = r] /\ r.idem = req[s]
    BY <1>2 DEF Stage
  <2>4. \A t \in Sessions, j \in Ids :
          dirty'[t][j] = IF t = s /\ j = i THEN r ELSE dirty[t][j]
    BY <2>3 DEF IdemInv, TypeInv, TypeOK
  <2>5. ASSUME NEW j \in Ids, NEW k \in Requests, Holds(j, k)'
        PROVE  Holds(j, k) \/ (j = i /\ k = req[s])
    <3>1. CASE Exists(j)' /\ proposals'[j].idem = k
      BY <1>2, <3>1 DEF Holds, Exists
    <3>2. ASSUME NEW t \in Sessions, dirty'[t][j] # None, dirty'[t][j].idem = k
          PROVE  Holds(j, k) \/ (j = i /\ k = req[s])
      BY <2>3, <2>4, <3>2 DEF Holds
    <3>3. QED BY <2>5, <3>1, <3>2 DEF Holds
  <2>6. KeyOwner'
    BY <2>2, <2>5 DEF IdemInv, KeyOwner
  <2>7. InsertFirst'
    BY <1>2, <2>3 DEF IdemInv, InsertFirst, Goto, TypeInv, TypeOK
  <2>8. QED BY <2>6, <2>7
<1>3. QED BY <1>1, <1>2 DEF Insert, db

\* Commit moves the session's rows from staged to committed.
LEMMA CommitIdem ==
  ASSUME IdemInv, NEW s \in Sessions, Commit(s)
  PROVE  KeyOwner' /\ InsertFirst'
<1>1. dirty' = [dirty EXCEPT ![s] = NoWrites]
  BY DEF Commit, EndSession
<1>2. ASSUME NEW i \in Ids, NEW k \in Requests, Holds(i, k)'
      PROVE  Holds(i, k)
  <2>1. CASE Exists(i)' /\ proposals'[i].idem = k
    BY <2>1 DEF Holds, Exists, Commit
  <2>2. ASSUME NEW t \in Sessions, dirty'[t][i] # None, dirty'[t][i].idem = k
        PROVE  Holds(i, k)
    BY <1>1, <2>2 DEF Holds, NoWrites, IdemInv, TypeInv, TypeOK
  <2>3. QED BY <1>2, <2>1, <2>2 DEF Holds
<1>3. KeyOwner'
  BY <1>2, NoNewKeys DEF IdemInv
<1>4. \E l \in {"idle", "card"} : pc' = [pc EXCEPT ![s] = l]
  BY DEF Commit, EndSession, Goto
<1>5. InsertFirst'
  BY <1>1, <1>4 DEF IdemInv, InsertFirst, TypeInv, TypeOK
<1>6. QED BY <1>3, <1>5

LEMMA DecideUpdateIdem ==
  ASSUME IdemInv, NEW s \in Sessions, NEW i \in Ids,
         NEW d \in {"approved", "rejected"}, NEW c \in DecideChannels,
         DecideUpdate(s, i, d, c)
  PROVE  KeyOwner' /\ InsertFirst'
<1> DEFINE r == [proposals[i] EXCEPT !.status = d, !.audit = Append(@, d)]
<1>1. Exists(i) /\ proposals[i] \in Row
  BY DEF DecideUpdate, IsOpen, Exists, IdemInv, TypeInv, TypeOK
<1>2. r.idem = proposals[i].idem
  BY <1>1 DEF Row
<1>3. dirty' = [dirty EXCEPT ![s][i] = r]
  BY DEF DecideUpdate, Stage
<1> HIDE DEF r
<1>4. /\ \A t \in Sessions : t # s => dirty'[t] = dirty[t]
      /\ \A j \in Ids : dirty'[s][j] = IF j = i THEN r ELSE dirty[s][j]
  BY <1>3 DEF IdemInv, TypeInv, TypeOK
<1>5. dirty[s] = NoWrites
  BY DEF IdemInv, InsertFirst, DecideUpdate
<1>6. \E l \in Label \ {"idle", "pending", "insert"} : Goto(s, l)
  BY DEF DecideUpdate, AfterDecision, Label
<1>7. UNCHANGED proposals
  BY DEF DecideUpdate, db
<1>8. QED BY <1>1, <1>2, <1>4, <1>5, <1>6, <1>7, StageIdem DEF NoWrites

\* mark_status keeps the key.
LEMMA AdvanceIdem ==
  ASSUME IdemInv, NEW s \in Sessions, target[s] \in Ids,
         dirty[s][target[s]] # None, NEW st, NEW e, Advance(s, st, e),
         NEW l \in Label \ {"idle", "pending", "insert"}, Goto(s, l),
         UNCHANGED proposals
  PROVE  KeyOwner' /\ InsertFirst'
<1> DEFINE r == [dirty[s][target[s]] EXCEPT !.status = st, !.audit = Append(@, e)]
<1>1. r.idem = dirty[s][target[s]].idem
  BY DEF IdemInv, TypeInv, TypeOK, Row
<1>2. dirty' = [dirty EXCEPT ![s][target[s]] = r]
  BY DEF Advance, Stage
<1> HIDE DEF r
<1>3. /\ \A t \in Sessions : t # s => dirty'[t] = dirty[t]
      /\ \A j \in Ids : dirty'[s][j] = IF j = target[s] THEN r ELSE dirty[s][j]
  BY <1>2 DEF IdemInv, TypeInv, TypeOK
<1>4. QED BY <1>1, <1>3, StageIdem

LEMMA FlushAcesIdem ==
  ASSUME IdemInv, NEW s \in Sessions, FlushAces(s)
  PROVE  KeyOwner' /\ InsertFirst'
<1> DEFINE r == [proposals[target[s]] EXCEPT !.aces = IF aces[s] = None THEN @ ELSE aces[s]]
<1>1. target[s] \in Ids /\ Exists(target[s]) /\ proposals[target[s]] \in Row
  BY DEF FlushAces, Exists, IdemInv, TypeInv, TypeOK, LocalsOK
<1>2. r.idem = proposals[target[s]].idem
  BY <1>1 DEF Row
<1>3. dirty' = [dirty EXCEPT ![s][target[s]] = r]
  BY DEF FlushAces, Stage
<1> HIDE DEF r
<1>4. /\ \A t \in Sessions : t # s => dirty'[t] = dirty[t]
      /\ \A j \in Ids : dirty'[s][j] = IF j = target[s] THEN r ELSE dirty[s][j]
  BY <1>1, <1>3 DEF IdemInv, TypeInv, TypeOK
<1>5. Goto(s, "commit") /\ UNCHANGED proposals /\ "commit" \in Label
  BY DEF FlushAces, db, Label
<1>6. QED BY <1>1, <1>2, <1>4, <1>5, StageIdem

LEMMA FlushExpiredIdem ==
  ASSUME IdemInv, NEW s \in Sessions, FlushExpired(s)
  PROVE  KeyOwner' /\ InsertFirst'
<1> DEFINE r(i) == [proposals[i] EXCEPT !.status = "expired",
                                        !.audit = Append(@, "expired")]
<1>1. ASSUME NEW i \in selected[s]
      PROVE  i \in Ids /\ Exists(i) /\ r(i).idem = proposals[i].idem
  BY DEF Exists, IdemInv, TypeInv, TypeOK, LocalsOK, Row
<1>2. dirty' = [dirty EXCEPT ![s] = [i \in Ids |-> IF i \in selected[s] THEN r(i) ELSE None]]
  BY DEF FlushExpired
<1> HIDE DEF r
<1>3. /\ \A t \in Sessions : t # s => dirty'[t] = dirty[t]
      /\ \A i \in Ids : dirty'[s][i] = IF i \in selected[s] THEN r(i) ELSE None
  BY <1>2 DEF IdemInv, TypeInv, TypeOK
<1>4. Goto(s, "commit") /\ UNCHANGED proposals /\ "commit" \in Label
  BY DEF FlushExpired, db, Label
<1>5. QED BY <1>1, <1>3, <1>4, StageIdem

LEMMA MarkNotifiedIdem ==
  ASSUME IdemInv, NEW i \in Ids, MarkNotified(i)
  PROVE  KeyOwner' /\ InsertFirst'
<1> DEFINE r == [proposals[i] EXCEPT !.status = "notified"]
<1>1. r.idem = proposals[i].idem /\ Exists(i)
  BY DEF MarkNotified, Exists, IdemInv, TypeInv, TypeOK, Row
<1>2. proposals' = [proposals EXCEPT ![i] = r]
  BY DEF MarkNotified
<1>3. UNCHANGED <<pc, dirty>>
  BY DEF MarkNotified, staged
<1> HIDE DEF r
<1>4. \A j \in Ids, k \in Requests : Holds(j, k)' => Holds(j, k)
  BY <1>1, <1>2, <1>3 DEF Holds, Exists, IdemInv, TypeInv, TypeOK
<1>5. KeyOwner'
  BY <1>4, NoNewKeys DEF IdemInv
<1>6. InsertFirst'
  BY <1>3 DEF IdemInv, InsertFirst
<1>7. QED BY <1>5, <1>6

LEMMA IdemContinue ==
  ASSUME IdemInv, NEW s \in Sessions, Continue(s)
  PROVE  KeyOwner' /\ InsertFirst'
<1> USE DEF Label
<1>1. CASE ListPending(s)
  BY <1>1, GotoIdem DEF ListPending, db, staged
<1>2. CASE GetTarget(s)
  BY <1>2, GotoIdem, EndSessionIdem DEF GetTarget, db, staged
<1>3. CASE FlushAces(s)
  BY <1>3, FlushAcesIdem
<1>4. CASE Insert(s)
  BY <1>4, InsertIdem
<1>5. CASE PostCard(s)
  BY <1>5, EndSessionIdem DEF PostCard, db
<1>6. CASE ReadLatest(s)
  BY <1>6, GotoIdem DEF ReadLatest, db, staged
<1>7. CASE CreateVersion(s)
  <2>1. target[s] \in Ids /\ dirty[s][target[s]] # None
    BY <1>7 DEF CreateVersion, IdemInv, TypeInv, TypeOK, LocalsOK
  <2>2. \E l \in Label \ {"idle", "pending", "insert"} : Goto(s, l)
    BY <1>7 DEF CreateVersion, AfterDecision
  <2>3. QED BY <1>7, <2>1, <2>2, AdvanceIdem DEF CreateVersion
<1>8. CASE ApplyFails(s)
  <2>1. CASE EndSession(s)
    BY <1>8, <2>1, EndSessionIdem DEF ApplyFails, db
  <2>2. CASE /\ Advance(s, "failed", "apply_failed")
             /\ Goto(s, IF chan[s] = "command" THEN "ack" ELSE "commit")
    <3>1. target[s] \in Ids /\ dirty[s][target[s]] # None
      BY <1>8 DEF ApplyFails, IdemInv, TypeInv, TypeOK, LocalsOK
    <3>2. \E l \in Label \ {"idle", "pending", "insert"} : Goto(s, l)
      BY <2>2
    <3>3. QED BY <1>8, <2>2, <3>1, <3>2, AdvanceIdem DEF ApplyFails, db
  <2>3. QED BY <1>8, <2>1, <2>2 DEF ApplyFails
<1>9. CASE Ack(s)
  BY <1>9, GotoIdem, EndSessionIdem DEF Ack, db, staged
<1>10. CASE FlushExpired(s)
  BY <1>10, FlushExpiredIdem
<1>11. CASE Commit(s)
  BY <1>11, CommitIdem
<1>12. QED BY <1>1, <1>2, <1>3, <1>4, <1>5, <1>6, <1>7, <1>8, <1>9, <1>10,
             <1>11 DEF Continue

LEMMA IdemNext == IdemInv /\ [Next]_vars => IdemInv'
<1> SUFFICES ASSUME IdemInv, [Next]_vars PROVE KeyOwner' /\ InsertFirst'
  BY TypeNext DEF IdemInv
<1> USE DEF Label
<1>1. ASSUME NEW s \in Sessions, LookupIdem(s)
      PROVE  KeyOwner' /\ InsertFirst'
  BY <1>1, GotoIdem DEF LookupIdem, db, staged
<1>2. ASSUME NEW s \in Sessions, NEW i \in Ids, DecideConflict(s, i)
      PROVE  KeyOwner' /\ InsertFirst'
  BY <1>2, SameRows DEF DecideConflict, db, staged, IdemInv, InsertFirst
<1>3. ASSUME NEW s \in Sessions, Decide(s)
      PROVE  KeyOwner' /\ InsertFirst'
  BY <1>2, <1>3, DecideUpdateIdem DEF Decide
<1>4. ASSUME NEW s \in Sessions, SelectOverdue(s)
      PROVE  KeyOwner' /\ InsertFirst'
  BY <1>4, GotoIdem DEF SelectOverdue, db, staged
<1>5. ASSUME NEW s \in Sessions, Crash(s)
      PROVE  KeyOwner' /\ InsertFirst'
  BY <1>5, EndSessionIdem DEF Crash, db
<1>6. ASSUME NEW i \in Ids, ExpiryPasses(i)
      PROVE  KeyOwner' /\ InsertFirst'
  BY <1>6, SameRows DEF ExpiryPasses, staged, IdemInv, InsertFirst
<1>7. CASE UNCHANGED vars
  BY <1>7, SameRows DEF vars, db, staged, IdemInv, InsertFirst
<1>8. QED
  BY <1>1, <1>3, <1>4, <1>5, <1>6, <1>7, IdemContinue, MarkNotifiedIdem DEF Next

\* However many sessions submit the same (run, pair, aces), and wherever they
\* are interrupted, no two rows have its idempotency key: the unique constraint
\* of `proposals`, with the INSERT that waits for uncommitted rows, is enough.
THEOREM Idempotent == Spec => []IdemUnique
<1>1. Spec => []IdemInv
  BY IdemInit, IdemNext, PTL DEF Spec
<1>2. IdemInv => IdemUnique
  <2> SUFFICES ASSUME IdemInv, NEW i \in Ids, NEW j \in Ids, Exists(i), Exists(j),
                      proposals[i].idem = proposals[j].idem
               PROVE  i = j
    BY DEF IdemUnique
  <2>1. proposals[i].idem \in Requests
    BY DEF IdemInv, TypeInv, TypeOK, Exists, Row
  <2>2. QED BY <2>1 DEF IdemInv, KeyOwner, Holds
<1>3. QED BY <1>1, <1>2, PTL
=============================================================================
