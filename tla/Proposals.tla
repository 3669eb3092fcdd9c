----------------------------- MODULE Proposals -----------------------------
(***************************************************************************)
(* The rule-change proposal store and the live policy matrix, as concurrent *)
(* database sessions see them: ProposalService (core/services/proposal.py)  *)
(* over ProposalRepository and MatrixVersionRepository, driven by the REST  *)
(* API, the MCP server, the WebEx bot and the flow worker.                  *)
(*                                                                         *)
(* A session is one `session_scope()`: the statements between two awaits    *)
(* are steps, what it has written and not committed is staged in `dirty`    *)
(* and `newver`, other sessions read committed rows only (READ COMMITTED),  *)
(* and a staged row is locked until its session ends.  With SerialWriters   *)
(* (SQLite, the development database) a session that has written anything   *)
(* keeps every other writer out; without it (Postgres, the deployed one)    *)
(* only the rows themselves are locked.                                     *)
(*                                                                         *)
(* One tenant: every statement modelled here is scoped by tenant_id.        *)
(***************************************************************************)
EXTENDS Naturals, Sequences, FiniteSets

CONSTANTS
  Sessions,         \* concurrent database sessions
  Ids,              \* proposal ids (uuid4), at least as many as Requests
  Pairs,            \* (src_sgt, dst_sgt) pairs
  Keys,             \* (protocol, src_port, dst_port) of an ACE
  Requests,         \* the (run_id, pair, aces) shapes that are submitted
  Runs,             \* run_id values
  Ops,              \* which entry points are called
  ProposeChannels,  \* who calls propose(): "api", "mcp", "worker"
  DecideChannels,   \* who calls decide(): "api", "mcp", "card", "command"
  Faults,           \* what can go wrong: "apply", "post", "crash"
  SerialWriters,    \* TRUE: SQLite, FALSE: Postgres
  MaxVersion,       \* bound on the matrix_versions ids approvals draw
  None              \* null

Action == {"absent", "permit", "deny"}
Aces   == [Keys -> Action]
Shape  == [run : Runs, pair : Pairs, aces : Aces]
Event  == {"approved", "rejected", "applied", "apply_failed", "expired"}
Status == {"pending", "notified", "approved", "rejected", "expired",
           "applied", "failed"}
OpenOrFailed == {"pending", "notified", "failed"}
Open   == {"pending", "notified"}

\* A row of `proposals` with the decision events of its proposal_audit rows.
Row == [pair : Pairs, aces : Aces, idem : Requests, status : Status,
        audit : Seq(Event)]

\* A row of `matrix_versions`; parent 0 is NULL.  `proposal` is named in its
\* note, `aces` are the ones it folded in.
Version == [id : Nat \ {0}, parent : Nat, contracts : [Pairs -> Aces],
            proposal : Ids, aces : Aces]

Channel == {"api", "mcp", "worker", "card", "command"}
Label   == {"idle", "pending", "get", "replace", "insert", "card",
            "latest", "create", "ack", "sweep", "commit"}

ASSUME RequestsAssumption == Requests \subseteq Shape
ASSUME OpsAssumption ==
  Ops \subseteq {"propose", "decide", "mark_notified", "expire_overdue"}
ASSUME ChannelsAssumption ==
  /\ ProposeChannels \subseteq {"api", "mcp", "worker"}
  /\ DecideChannels \subseteq {"api", "mcp", "card", "command"}
ASSUME FaultsAssumption == Faults \subseteq {"apply", "post", "crash"}
ASSUME FlagAssumption == SerialWriters \in BOOLEAN /\ MaxVersion \in Nat
ASSUME NoneAssumption == /\ None \notin Row \cup Version \cup Ids
                         /\ None \notin Requests \cup Aces \cup Channel

VARIABLES
  proposals,    \* committed proposal rows
  versions,     \* committed matrix_versions rows
  nextVersion,  \* the id sequence of matrix_versions
  overdue,      \* proposals whose expires_at has passed
  pc,           \* where each session is
  chan,         \* a session's local variables: the calling channel,
  req,          \*   the submitted shape,
  target,       \*   the proposal it works on,
  aces,         \*   the ACEs it holds (replace_aces: None = column unchanged),
  base,         \*   the matrix version it read as the latest,
  selected,     \*   the overdue proposals it selected
  dirty,        \* rows a session has written and not committed
  newver,       \* the matrix version a session has inserted and not committed
  card,         \* the ACEs on the adaptive card posted for a proposal
  told,         \* outcomes announced before the session commits: <<id, status>>
  accepted      \* history: shapes whose propose() committed

db      == <<proposals, versions, nextVersion, overdue>>
locals  == <<chan, req, target, aces, base, selected>>
staged  == <<dirty, newver>>
outside == <<card, told, accepted>>

vars == <<db, pc, locals, staged, outside>>

-----------------------------------------------------------------------------
(* ACE lists are keyed maps here (no list repeats a key); AceMerge treats    *)
(* lists as the code does.                                                  *)

MergeLastWins(old, new) == IF new = "absent" THEN old ELSE new
MergeAction(old, new) ==
  IF new = "absent" THEN old
  ELSE IF old \in {"absent", new} THEN new ELSE "deny"

\* _merge_aces: a key in both lists with two actions becomes a deny.
MergeNewKeysOnly(old, new) ==
  [k \in {x \in Keys : new[x] # "absent"} |-> MergeAction(old[k], new[k])]
MergeAces(old, new) == [k \in Keys |-> MergeAction(old[k], new[k])]

NoAces   == [k \in Keys |-> "absent"]
NoMatrix == [p \in Pairs |-> NoAces]

\* latest_for_tenant: ORDER BY id DESC LIMIT 1 over the committed versions.
IsFirst(v)  == v \in versions /\ \A w \in versions : v.id <= w.id
IsLatest(v) == v \in versions /\ \A w \in versions : w.id <= v.id

ContractsOf(v) == IF v = None THEN NoMatrix ELSE v.contracts

\* The policy in force: the contracts of the latest version.
LiveMatrix ==
  ContractsOf(IF versions = {} THEN None ELSE CHOOSE v \in versions : IsLatest(v))

Exists(i) == proposals[i] # None
IsOpen(i) == Exists(i) /\ proposals[i].status \in Open

\* A committed row has this shape's idempotency key, whatever its status.
KeyTakenByOpen(r) == \E i \in Ids : IsOpen(i) /\ proposals[i].idem = r
KeyTaken(r)       == \E i \in Ids : Exists(i) /\ proposals[i].idem = r

\* Session s may write row i: nobody else holds it, or holds the database.
MayWriteUnlocked(s, i) == TRUE
MayWrite(s, i) ==
  \A t \in Sessions \ {s} :
    /\ dirty[t][i] = None
    /\ SerialWriters => /\ newver[t] = None
                        /\ \A j \in Ids : dirty[t][j] = None

NoWrites == [i \in Ids |-> None]

Stage(s, i, row) == dirty' = [dirty EXCEPT ![s][i] = row]

Goto(s, label) == pc' = [pc EXCEPT ![s] = label]

\* The end of a session_scope(): rollback drops what was staged.
ResetLocals(s) ==
  /\ chan'     = [chan EXCEPT ![s] = None]
  /\ req'      = [req EXCEPT ![s] = None]
  /\ target'   = [target EXCEPT ![s] = None]
  /\ aces'     = [aces EXCEPT ![s] = None]
  /\ base'     = [base EXCEPT ![s] = None]
  /\ selected' = [selected EXCEPT ![s] = {}]

EndSessionKeepingLocks(s) ==
  /\ Goto(s, "idle")
  /\ ResetLocals(s)
  /\ UNCHANGED staged
EndSession(s) ==
  /\ Goto(s, "idle")
  /\ ResetLocals(s)
  /\ dirty'  = [dirty EXCEPT ![s] = NoWrites]
  /\ newver' = [newver EXCEPT ![s] = None]

-----------------------------------------------------------------------------
(* propose()                                                                *)

\* get_by_idempotency finds nothing.  (When it finds a row, propose() returns
\* it and changes nothing.)
LookupIdem(s) ==
  /\ pc[s] = "idle"
  /\ "propose" \in Ops
  /\ \E r \in Requests, c \in ProposeChannels :
       /\ ~KeyTaken(r)
       /\ req'  = [req EXCEPT ![s] = r]
       /\ chan' = [chan EXCEPT ![s] = c]
  /\ Goto(s, "pending")
  /\ UNCHANGED <<db, target, aces, base, selected, staged, outside>>

\* What list_pending_for_pair selects, for a committed reader.
PendingOnlyForPair(p) ==
  {i \in Ids : Exists(i) /\ proposals[i].status = "pending" /\ proposals[i].pair = p}
PendingForPair(p) == {i \in Ids : IsOpen(i) /\ proposals[i].pair = p}

\* It has no ORDER BY: pending[0] is any open proposal of the pair.
ListPending(s) ==
  /\ pc[s] = "pending"
  /\ \/ /\ PendingForPair(req[s].pair) = {}
        /\ Goto(s, "insert")
        /\ UNCHANGED <<target, aces>>
     \/ \E i \in PendingForPair(req[s].pair) :
          /\ target' = [target EXCEPT ![s] = i]
          /\ aces'   = [aces EXCEPT ![s] = proposals[i].aces]
          /\ Goto(s, "get")
  /\ UNCHANGED <<db, chan, req, base, selected, staged, outside>>

\* replace_aces reads the row again, refuses one that is no longer open, and
\* assigns it the merge of the ACEs list_pending_for_pair returned.  The ORM
\* leaves a column out of the UPDATE when it is assigned the value it had.
GetTarget(s) ==
  LET merged == MergeAces(aces[s], req[s].aces)
  IN
  /\ pc[s] = "get"
  /\ \/ /\ IsOpen(target[s])
        /\ aces' = [aces EXCEPT ![s] =
                      IF merged = proposals[target[s]].aces THEN None ELSE merged]
        /\ Goto(s, "replace")
        /\ UNCHANGED <<chan, req, target, base, selected, staged>>
     \/ /\ ~IsOpen(target[s])
        /\ EndSession(s)
  /\ UNCHANGED <<db, outside>>

\* ... and flushes UPDATE proposals SET proposed_aces WHERE id.
FlushAces(s) ==
  /\ pc[s] = "replace"
  /\ MayWrite(s, target[s])
  /\ Stage(s, target[s], [proposals[target[s]] EXCEPT
                            !.aces = IF aces[s] = None THEN @ ELSE aces[s]])
  /\ Goto(s, "commit")
  /\ UNCHANGED <<db, locals, newver, outside>>

\* INSERT: uq_proposal_idem waits for an uncommitted row with the same key,
\* and fails the session on a committed one.
Insert(s) ==
  /\ pc[s] = "insert"
  /\ \A t \in Sessions \ {s}, i \in Ids :
       dirty[t][i] # None => dirty[t][i].idem # req[s]
  /\ \/ /\ KeyTaken(req[s])
        /\ EndSession(s)
     \/ /\ ~KeyTaken(req[s])
        /\ \E i \in Ids :
             /\ ~Exists(i)
             /\ \A t \in Sessions : dirty[t][i] = None
             /\ MayWrite(s, i)
             /\ Stage(s, i, [pair |-> req[s].pair, aces |-> req[s].aces,
                             idem |-> req[s], status |-> "pending",
                             audit |-> <<>>])
             /\ target' = [target EXCEPT ![s] = i]
        /\ aces' = [aces EXCEPT ![s] = req[s].aces]
        /\ Goto(s, "commit")
        /\ UNCHANGED <<chan, req, base, selected, newver>>
  /\ UNCHANGED <<db, outside>>

\* The card shows the record create() returned; a failed post is swallowed by
\* the Notifier.
PostCard(s) ==
  /\ pc[s] = "card"
  /\ \/ card' = [card EXCEPT ![target[s]] = aces[s]]
     \/ "post" \in Faults /\ UNCHANGED card
  /\ EndSession(s)
  /\ UNCHANGED <<db, told, accepted>>

-----------------------------------------------------------------------------
(* decide() and _apply_to_matrix()                                          *)

\* decide() folds in the ACEs of the row it has just locked.
AcesShown(i)   == IF card[i] = None THEN proposals[i].aces ELSE card[i]
AcesToApply(i) == proposals[i].aces

\* Whether the channel lets ProposalApplyError out of its session_scope().
RollsBackOnCards(c)     == c \in {"api", "card"}
RollsBackApplyErrors(c) == c = "api"

AfterDecision(c) == IF c \in {"card", "command"} THEN "ack" ELSE "commit"

\* UPDATE ... WHERE status IN (pending, notified): the optimistic lock.
DecideUpdate(s, i, d, c) ==
  /\ pc[s] = "idle"
  /\ "decide" \in Ops
  /\ IsOpen(i)
  /\ MayWrite(s, i)
  /\ d = "approved" => nextVersion <= MaxVersion
  /\ Stage(s, i, [proposals[i] EXCEPT !.status = d, !.audit = Append(@, d)])
  /\ chan'   = [chan EXCEPT ![s] = c]
  /\ target' = [target EXCEPT ![s] = i]
  /\ aces'   = [aces EXCEPT ![s] = AcesToApply(i)]
  /\ Goto(s, IF d = "approved" THEN "latest" ELSE AfterDecision(c))
  /\ UNCHANGED <<db, req, base, selected, newver, outside>>

\* rowcount 0: ProposalConflictError.  A card click is answered with the row's
\* current status; the other channels only report the error.
DecideConflict(s, i) ==
  /\ pc[s] = "idle"
  /\ "decide" \in Ops /\ "card" \in DecideChannels
  /\ Exists(i) /\ ~IsOpen(i)
  /\ told' = told \cup {<<i, proposals[i].status>>}
  /\ UNCHANGED <<db, pc, locals, staged, card, accepted>>

Decide(s) ==
  \E i \in Ids :
    \/ \E d \in {"approved", "rejected"}, c \in DecideChannels :
         DecideUpdate(s, i, d, c)
    \/ DecideConflict(s, i)

ReadLatest(s) ==
  /\ pc[s] = "latest"
  /\ \/ versions = {} /\ UNCHANGED base
     \/ \E v \in versions : IsLatest(v) /\ base' = [base EXCEPT ![s] = v]
  /\ Goto(s, "create")
  /\ UNCHANGED <<db, chan, req, target, aces, selected, staged, outside>>

\* mark_status: the new status and its proposal_audit row, unconditionally.
AdvanceUnaudited(s, status, event) ==
  Stage(s, target[s], [dirty[s][target[s]] EXCEPT !.status = status])
Advance(s, status, event) ==
  Stage(s, target[s], [dirty[s][target[s]] EXCEPT !.status = status,
                                                  !.audit = Append(@, event)])

\* Fold the proposal into the contracts read, INSERT the version, mark APPLIED.
CreateVersion(s) ==
  /\ pc[s] = "create"
  /\ newver' = [newver EXCEPT ![s] =
       [id        |-> nextVersion,
        parent    |-> IF base[s] = None THEN 0 ELSE base[s].id,
        contracts |-> [ContractsOf(base[s]) EXCEPT
                         ![dirty[s][target[s]].pair] = MergeAces(@, aces[s])],
        proposal  |-> target[s],
        aces      |-> aces[s]]]
  /\ nextVersion' = nextVersion + 1
  /\ Advance(s, "applied", "applied")
  /\ Goto(s, AfterDecision(chan[s]))
  /\ UNCHANGED <<proposals, versions, overdue, locals, outside>>

\* _apply_to_matrix raises: decide() marks FAILED and raises
\* ProposalApplyError.  The API turns it into an HTTPException, which rolls the
\* session back; the others return normally, a card click after announcing the
\* failure, a command after replying.
ApplyFails(s) ==
  /\ "apply" \in Faults
  /\ pc[s] \in {"latest", "create"}
  /\ told' = IF chan[s] \in {"api", "card"}
             THEN told \cup {<<target[s], "failed">>} ELSE told
  /\ \/ /\ RollsBackApplyErrors(chan[s])
        /\ EndSession(s)
     \/ /\ ~RollsBackApplyErrors(chan[s])
        /\ Advance(s, "failed", "apply_failed")
        /\ Goto(s, IF chan[s] = "command" THEN "ack" ELSE "commit")
        /\ UNCHANGED <<locals, newver>>
  /\ UNCHANGED <<db, card, accepted>>

\* The bot posts the outcome before the session commits; an error of that post
\* propagates and rolls the decision back.  (The reply to a command whose apply
\* failed is the error's text, which names no status.)
Ack(s) ==
  /\ pc[s] = "ack"
  /\ \/ /\ told' = IF dirty[s][target[s]].status = "failed" THEN told
                   ELSE told \cup {<<target[s], dirty[s][target[s]].status>>}
        /\ Goto(s, "commit")
        /\ UNCHANGED <<locals, staged>>
     \/ /\ "post" \in Faults
        /\ EndSession(s)
        /\ UNCHANGED told
  /\ UNCHANGED <<db, card, accepted>>

-----------------------------------------------------------------------------
(* mark_notified(), expire_overdue()                                        *)

\* One statement and a commit, with nothing read before: one step.
MarkNotified(i) ==
  /\ "mark_notified" \in Ops
  /\ Exists(i) /\ proposals[i].status = "pending"
  /\ \A s \in Sessions :
       /\ dirty[s][i] = None
       /\ SerialWriters => newver[s] = None /\ dirty[s] = NoWrites
  /\ proposals' = [proposals EXCEPT ![i].status = "notified"]
  /\ UNCHANGED <<versions, nextVersion, overdue, pc, locals, staged, outside>>

ExpiryPasses(i) ==
  /\ "expire_overdue" \in Ops
  /\ Exists(i) /\ i \notin overdue
  /\ overdue' = overdue \cup {i}
  /\ UNCHANGED <<proposals, versions, nextVersion, pc, locals, staged, outside>>

SelectOverdue(s) ==
  LET found == {i \in overdue : IsOpen(i)}
  IN
  /\ pc[s] = "idle"
  /\ "expire_overdue" \in Ops
  /\ found # {}
  /\ selected' = [selected EXCEPT ![s] = found]
  /\ Goto(s, "sweep")
  /\ UNCHANGED <<db, chan, req, target, aces, base, staged, outside>>

\* The flush updates the selected rows by primary key, whatever they are now.
FlushExpired(s) ==
  /\ pc[s] = "sweep"
  /\ \A i \in selected[s] : MayWrite(s, i)
  /\ dirty' = [dirty EXCEPT ![s] =
       [i \in Ids |-> IF i \in selected[s]
                      THEN [proposals[i] EXCEPT !.status = "expired",
                                                !.audit = Append(@, "expired")]
                      ELSE None]]
  /\ Goto(s, "commit")
  /\ UNCHANGED <<db, locals, newver, outside>>

-----------------------------------------------------------------------------
(* session_scope(): commit and rollback                                     *)

\* The callers that fan a new proposal out to the operators' room; the MCP
\* tool does not.
NotifiesFromApi(c) == c = "api"
Notifies(c)        == c \in {"api", "worker"}

\* propose() inserted a row: it did not collapse into one.
Created(s) == ~Exists(target[s])

Commit(s) ==
  /\ pc[s] = "commit"
  /\ proposals' = [j \in Ids |-> IF dirty[s][j] # None THEN dirty[s][j]
                                                       ELSE proposals[j]]
  /\ versions' = IF newver[s] = None THEN versions ELSE versions \cup {newver[s]}
  /\ accepted' = IF req[s] = None THEN accepted ELSE accepted \cup {req[s]}
  /\ IF req[s] # None /\ Notifies(chan[s]) /\ Created(s)
     THEN /\ Goto(s, "card")
          /\ dirty'  = [dirty EXCEPT ![s] = NoWrites]
          /\ UNCHANGED <<locals, newver>>
     ELSE EndSession(s)
  /\ UNCHANGED <<nextVersion, overdue, card, told>>

\* The process dies, the connection is lost or the commit fails: whatever the
\* session had not committed is rolled back, whatever it had left to do is not
\* done.
Crash(s) ==
  /\ "crash" \in Faults
  /\ pc[s] # "idle"
  /\ EndSession(s)
  /\ UNCHANGED <<db, outside>>

-----------------------------------------------------------------------------
Init ==
  /\ proposals   = [i \in Ids |-> None]
  /\ versions    = {}
  /\ nextVersion = 1
  /\ overdue     = {}
  /\ pc          = [s \in Sessions |-> "idle"]
  /\ chan        = [s \in Sessions |-> None]
  /\ req         = [s \in Sessions |-> None]
  /\ target      = [s \in Sessions |-> None]
  /\ aces        = [s \in Sessions |-> None]
  /\ base        = [s \in Sessions |-> None]
  /\ selected    = [s \in Sessions |-> {}]
  /\ dirty       = [s \in Sessions |-> NoWrites]
  /\ newver      = [s \in Sessions |-> None]
  /\ card        = [i \in Ids |-> None]
  /\ told        = {}
  /\ accepted    = {}

\* The steps of a session once it is under way.
Continue(s) ==
  \/ ListPending(s) \/ GetTarget(s) \/ FlushAces(s) \/ Insert(s) \/ PostCard(s)
  \/ ReadLatest(s) \/ CreateVersion(s) \/ ApplyFails(s) \/ Ack(s)
  \/ FlushExpired(s) \/ Commit(s)

Next ==
  \/ \E s \in Sessions :
       LookupIdem(s) \/ Decide(s) \/ SelectOverdue(s) \/ Continue(s) \/ Crash(s)
  \/ \E i \in Ids : MarkNotified(i) \/ ExpiryPasses(i)

Spec == Init /\ [][Next]_vars

\* A coroutine that can go on does; a session waiting for a lock that is freed
\* again and again gets it (Postgres queues the waiters of a row).
Fairness == \A s \in Sessions : SF_vars(Continue(s))

FairSpec == Spec /\ Fairness

-----------------------------------------------------------------------------
(* What the store promises                                                  *)

\* Every variable has its type.
TypeOK ==
  /\ proposals \in [Ids -> Row \cup {None}]
  /\ versions \subseteq Version
  /\ nextVersion \in Nat \ {0}
  /\ overdue \subseteq Ids
  /\ pc \in [Sessions -> Label]
  /\ chan \in [Sessions -> Channel \cup {None}]
  /\ req \in [Sessions -> Requests \cup {None}]
  /\ target \in [Sessions -> Ids \cup {None}]
  /\ aces \in [Sessions -> Aces \cup {None}]
  /\ base \in [Sessions -> Version \cup {None}]
  /\ selected \in [Sessions -> SUBSET Ids]
  /\ dirty \in [Sessions -> [Ids -> Row \cup {None}]]
  /\ newver \in [Sessions -> Version \cup {None}]
  /\ card \in [Ids -> Aces \cup {None}]
  /\ told \subseteq Ids \X Status
  /\ accepted \subseteq Requests

\* Submitting the same (run, pair, aces) any number of times, from any number
\* of sessions at once, never leaves two rows with its idempotency key.
IdemUnique ==
  \A i, j \in Ids :
    Exists(i) /\ Exists(j) /\ proposals[i].idem = proposals[j].idem => i = j

VersionsOf(i) == {v \in versions : v.proposal = i}

\* A decision and its effect on the matrix are one: a proposal is applied
\* exactly when one matrix version folded it in, never two, and none rests in
\* the intermediate status "approved".
ApplyAtomic ==
  \A i \in Ids : Exists(i) =>
    /\ proposals[i].status # "approved"
    /\ proposals[i].status = "applied" <=> VersionsOf(i) # {}
    /\ \A v, w \in VersionsOf(i) : v = w

Trail == [pending  |-> <<>>, notified |-> <<>>,
          approved |-> <<"approved">>,
          rejected |-> <<"rejected">>,
          expired  |-> <<"expired">>,
          applied  |-> <<"approved", "applied">>,
          failed   |-> <<"approved", "apply_failed">>]

\* The audit trail tells the whole story of a status: one decision per
\* proposal, however many operators press the button at once.
AuditExplainsStatus ==
  \A i \in Ids : Exists(i) => proposals[i].audit = Trail[proposals[i].status]

Covers(all, some) ==
  \A k \in Keys : /\ some[k] # "absent" => all[k] # "absent"
                  /\ some[k] = "deny"   => all[k] = "deny"

\* What operators approved stays in the live matrix: every ACE of an applied
\* proposal is in the latest version, a deny as a deny.
ApprovedStaysLive ==
  \A v, latest \in versions : IsLatest(latest) =>
    Covers(latest.contracts[proposals[v.proposal].pair], v.aces)

\* The parents of the versions form one line, each version building on the
\* one before it.
LinearHistory ==
  \A v \in versions :
    LET older == {w \in versions : w.id < v.id}
    IN  IF older = {} THEN v.parent = 0
        ELSE \E w \in older : v.parent = w.id /\ \A x \in older : x.id <= w.id

\* Storm collapse: one open proposal for a pair.
OneOpenPerPair ==
  \A i, j \in Ids :
    IsOpen(i) /\ IsOpen(j) /\ proposals[i].pair = proposals[j].pair => i = j

\* Nothing submitted is lost, and no deny softened, by a collapse: the ACEs of
\* every accepted submission are on some proposal for its pair.
SubmissionsKept ==
  \A r \in accepted : \E i \in Ids :
    Exists(i) /\ proposals[i].pair = r.pair /\ Covers(proposals[i].aces, r.aces)

\* An applied proposal records the ACEs that went into the matrix.
AppliedRecordExact ==
  \A v \in versions : proposals[v.proposal].aces = v.aces

\* The operator approved what the card shows.
ApprovedAsShown ==
  \A v \in versions : card[v.proposal] # None => card[v.proposal] = v.aces

\* Every proposal gets a card: it has one, or its session is about to post it.
EveryProposalHasCard ==
  \A i \in Ids : Exists(i) =>
    \/ card[i] # None
    \/ \E s \in Sessions : pc[s] = "card" /\ target[s] = i

\* An outcome announced to an operator is the committed one, unless the session
\* that announced it is still to commit.
AnnouncedIsCommitted ==
  \A m \in told :
    \/ proposals[m[1]].status = m[2]
    \/ \E s \in Sessions : pc[s] \in {"ack", "commit"} /\ target[s] = m[1]

Final == {"rejected", "expired", "applied", "failed"}

\* A proposal is decided once: a final status never changes again.
DecidedForGood ==
  [][\A i \in Ids : Exists(i) /\ proposals[i].status \in Final =>
       proposals'[i] # None /\ proposals'[i].status = proposals[i].status]_vars

\* The state an operator sees a row in.
StateOf(row) ==
  IF row = None THEN "none"
  ELSE IF row.status \in Open THEN "open"
  ELSE IF row.status = "applied" THEN "applied"
  ELSE "closed"

Ledger == INSTANCE PolicyLedger WITH
  state <- [i \in Ids |-> StateOf(proposals[i])], live <- LiveMatrix,
  Fold <- MergeAces

\* Seen from outside, the store is the ledger: one approval, one fold of the
\* proposal into the live matrix, one at a time.
ImplementsLedger == Ledger!Spec

\* Every session that starts comes to an end: no lock is waited for in vain.
SessionsEnd == \A s \in Sessions : pc[s] # "idle" ~> pc[s] = "idle"
=============================================================================
