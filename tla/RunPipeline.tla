---------------------------- MODULE RunPipeline ----------------------------
(***************************************************************************)
(* An analysis run on the server: create, ingest, classify and build the    *)
(* matrix (services/api/routers/runs.py and matrix.py, and the MCP tools of *)
(* the same names, over core/services and core/repositories).               *)
(*                                                                         *)
(* A request is one session, one transaction of PostgreSQL at READ          *)
(* COMMITTED: each statement is a step, what a session has written is in    *)
(* its job until it commits, and a key that another session has written or  *)
(* deleted and not committed is waited for.  A classification is known by   *)
(* the ticks since its classified_at.  There is one tenant.                 *)
(***************************************************************************)
EXTENDS FlowRules

CONSTANTS
  Sessions,  \* what can be served at once
  MaxRuns,   \* bound on the runs
  Answers,   \* what the model may say of a flow
  BatchSize, \* flow_batch_size
  Window,    \* classification_cache_days, in ticks
  Faults,    \* what can go wrong: "model", "crash" and others of the module on top
  MaxFaults  \* bound on how often

ASSUME RunAssumption ==
  /\ MaxRuns \in Nat /\ BatchSize \in Nat \ {0} /\ Window \in Nat /\ MaxFaults \in Nat
  /\ Answers \subseteq Categories \cup {NoAnswer}
  /\ "none" \notin Sessions

VARIABLES
  status,    \* runs: "none" until the row is committed, "in_progress", "complete"
  lastId,    \* the sequence of the runs' ids
  events,    \* flow_events, by run
  rows,      \* flow_classifications
  contracts, \* contracts and their entries, by run
  basis,     \* what the last builder to change them had read
  at,        \* where a session is
  job,       \* what it works on
  faults     \* how many faults there have been

store == <<status, lastId, events, rows, contracts, basis>>
pipelineVars == <<store, at, job, faults>>

Runs == 1..MaxRuns
Ops  == {"create", "ingest", "classify", "matrix"}

Place == {"idle", "refused", "lookup", "ask", "upsert", "existing", "delete", "insert", "done"}

NoJob ==
  [op     |-> "none",
   run    |-> 0,    \* the run
   lines  |-> <<>>, \* the lines of the request
   flows  |-> {},   \* flows to look up
   todo   |-> <<>>, \* flows to ask the model about
   items  |-> <<>>, \* classified flows: to insert, or read for the matrix
   known  |-> {},   \* the verdicts that were within the window when the request began
   rows   |-> {},   \* classifications inserted
   seen   |-> {},   \* the pairs with a contract, found by the select, that are still there
   gone   |-> {},   \* the pairs whose contract is deleted
   put    |-> NoContracts] \* contracts inserted

CanFail(fault) == fault \in Faults /\ faults < MaxFaults

Fresh(row) == row.age <= Window

PipelineInit ==
  /\ status    = [r \in Runs |-> "none"]
  /\ lastId    = 0
  /\ events    = [r \in Runs |-> <<>>]
  /\ rows      = {}
  /\ contracts = [r \in Runs |-> NoContracts]
  /\ basis     = [r \in Runs |-> <<>>]
  /\ at        = [s \in Sessions |-> "idle"]
  /\ job       = [s \in Sessions |-> NoJob]
  /\ faults    = 0

Goto(s, place) == at' = [at EXCEPT ![s] = place]

\* The session rolls back and is closed.
RollsBack(s) ==
  /\ Goto(s, "idle")
  /\ job' = [job EXCEPT ![s] = NoJob]
  /\ UNCHANGED store

Work(s, fields) == job' = [job EXCEPT ![s] = fields]

\* Of a row: run_id and the columns of the flow.
Identity(row) == <<row.run, row.key>>

Verdicts == {Identity(row) : row \in {w \in rows : Fresh(w)}}

-----------------------------------------------------------------------------
(* A request comes in: its first statements                                 *)

\* The row gets its id with the flush.
CreateRun(s) ==
  /\ lastId' = lastId + 1
  /\ Work(s, [NoJob EXCEPT !.op = "create", !.run = lastId + 1])
  /\ Goto(s, "done")
  /\ UNCHANGED <<status, events, rows, contracts, basis, faults>>

\* ingest_lines: the events are inserted.
IngestLines(s, run, lines) ==
  /\ Work(s, [NoJob EXCEPT !.op = "ingest", !.run = run, !.lines = lines])
  /\ Goto(s, "done")
  /\ UNCHANGED <<store, faults>>

\* aggregated_for_run: all events of the run, whichever request brought them.
ClassifyRun(s, run) ==
  /\ events[run] # <<>>
  /\ Work(s, [NoJob EXCEPT !.op = "classify", !.run = run, !.known = Verdicts,
                           !.flows = Aggregate(events[run])])
  /\ Goto(s, "lookup")
  /\ UNCHANGED <<store, faults>>

\* The order of the classifications is left out: they are one for a flow.
Classified(row) == [flow |-> [key |-> row.key, hits |-> row.hits], category |-> row.category]
RowsOfAny(run)  == rows
RowsOf(run)     == {row \in rows : row.run = run}

BuildMatrix(s, run) ==
  /\ Work(s, [NoJob EXCEPT !.op = "matrix", !.run = run,
                           !.items = SetToSeq({Classified(row) : row \in RowsOf(run)})])
  /\ Goto(s, "existing")
  /\ UNCHANGED <<store, faults>>

\* 404, or nothing to classify.
Refuse(s) ==
  /\ Work(s, NoJob)
  /\ Goto(s, "refused")
  /\ UNCHANGED <<store, faults>>

Begin(s, op, run, lines) ==
  /\ at[s] = "idle"
  /\ \/ op = "create" /\ CreateRun(s)
     \/ /\ op # "create" /\ status[run] # "none"
        /\ \/ op = "ingest" /\ IngestLines(s, run, lines)
           \/ op = "classify" /\ ClassifyRun(s, run)
           \/ op = "matrix" /\ BuildMatrix(s, run)
     \/ /\ op # "create"
        /\ status[run] = "none" \/ (op = "classify" /\ events[run] = <<>>)
        /\ Refuse(s)

-----------------------------------------------------------------------------
(* classify                                                                 *)

RecentStrict(key) == {row \in rows : row.key = key /\ row.age < Window}

\* recent_for_flow: of any run, the latest within the window.
Recent(key) ==
  LET hits == {row \in rows : row.key = key /\ Fresh(row)}
  IN  {row \in hits : \A other \in hits : row.age <= other.age}

\* One flow of the loop, the first of those that are left; events of the run that
\* have come since are behind those of the flows.
NextFlow(s) ==
  {f \in job[s].flows : \A g \in job[s].flows \ {f} : Before(events[job[s].run], f, g)}

Lookup(s) ==
  /\ at[s] = "lookup"
  /\ \E flow \in NextFlow(s) :
       \/ \E hit \in Recent(flow.key) :
            job' = [job EXCEPT ![s].flows = @ \ {flow},
                               ![s].items = Append(@, [flow |-> flow, category |-> hit.category])]
       \/ /\ Recent(flow.key) = {}
          /\ job' = [job EXCEPT ![s].flows = @ \ {flow},
                                ![s].todo  = Append(@, flow)]
  /\ Goto(s, IF job'[s].flows # {} THEN "lookup"
             ELSE IF job'[s].todo # <<>> THEN "ask" ELSE "upsert")
  /\ UNCHANGED <<store, faults>>

\* One call of the model; the loop advances by the batch.
Unasked(s) == SubSeq(job[s].todo, BatchSize + 1, Len(job[s].todo))

Ask(s) ==
  /\ at[s] = "ask"
  /\ LET batch == SubSeq(job[s].todo, 1, Min({BatchSize, Len(job[s].todo)}))
     IN  \E answer \in [DOMAIN batch -> Answers] :
           job' = [job EXCEPT ![s].items = @ \o Labelled(batch, answer),
                              ![s].todo  = Unasked(s)]
  /\ Goto(s, IF job'[s].todo # <<>> THEN "ask" ELSE "upsert")
  /\ UNCHANGED <<store, faults>>

RowOf(run, item) ==
  [run |-> run, key |-> item.flow.key, hits |-> item.flow.hits,
   category |-> item.category, age |-> 0]

Holds(row, run, key) == row.run = run /\ row.key = key

\* The sessions with an uncommitted classification of the flow.
RowBlockers(s) ==
  {d \in Sessions \ {s} :
     \E row \in job[d].rows : Holds(row, job[s].run, Head(job[s].items).flow.key)}

\* upsert_batch, ON CONFLICT (run_id and the flow) DO NOTHING.
HasRowNever(s, row) == FALSE
HasRow(s, row)      == \E r \in rows \cup job[s].rows : Holds(r, row.run, row.key)

Upsert(s) ==
  /\ at[s] = "upsert" /\ RowBlockers(s) = {}
  /\ LET item == Head(job[s].items)
         row  == RowOf(job[s].run, item)
     IN  job' = [job EXCEPT
                   ![s].items = Tail(@),
                   ![s].rows  = IF HasRow(s, row) THEN @ ELSE @ \cup {row}]
  /\ Goto(s, IF job'[s].items # <<>> THEN "upsert" ELSE "done")
  /\ UNCHANGED <<store, faults>>

-----------------------------------------------------------------------------
(* build_matrix                                                             *)

\* replace_for_run: select the contracts of the run ...
ReadExisting(s) ==
  /\ at[s] = "existing"
  /\ job' = [job EXCEPT ![s].seen = DOMAIN contracts[job[s].run]]
  /\ Goto(s, "delete")
  /\ UNCHANGED <<store, faults>>

SameRun(s) == {d \in Sessions \ {s} : job[d].run = job[s].run}

DeleteBlockers(s) == {d \in SameRun(s) : job[d].gone \cap job[s].seen # {}}

\* ... delete them, in one flush: rows that are gone meanwhile match nothing ...
DeleteSeen(s) ==
  /\ at[s] = "delete" /\ DeleteBlockers(s) = {}
  /\ job' = [job EXCEPT ![s].gone = job[s].seen]
  /\ Goto(s, IF job[s].items = <<>> THEN "done" ELSE "insert")
  /\ UNCHANGED <<store, faults>>

\* ... and insert the new ones, pair by pair.
Wanted(s)   == BuildContracts(job[s].items)
NextPair(s) ==
  CHOOSE p \in DOMAIN Wanted(s) \ DOMAIN job[s].put :
    \A q \in DOMAIN Wanted(s) \ DOMAIN job[s].put :
      p[1] < q[1] \/ (p[1] = q[1] /\ p[2] <= q[2])

InsertBlockers(s) ==
  {d \in SameRun(s) :
     \/ NextPair(s) \in DOMAIN job[d].put
     \/ NextPair(s) \in job[d].gone \ job[s].gone}

\* uq_contract_run_pair
HasContractNever(s, pair) == FALSE
HasContract(s, pair)      == pair \in DOMAIN contracts[job[s].run] \ job[s].gone

InsertContract(s) ==
  /\ at[s] = "insert" /\ InsertBlockers(s) = {}
  /\ ~HasContract(s, NextPair(s))
  /\ job' = [job EXCEPT ![s].put =
               [p \in DOMAIN @ \cup {NextPair(s)} |-> Wanted(s)[p]]]
  /\ Goto(s, IF DOMAIN job'[s].put = DOMAIN Wanted(s) THEN "done" ELSE "insert")
  /\ UNCHANGED <<store, faults>>

-----------------------------------------------------------------------------
(* The end of a session                                                     *)

\* 404, nothing to classify, or a unique key that is taken.
Refused(s) ==
  \/ at[s] = "refused"
  \/ /\ at[s] = "insert" /\ InsertBlockers(s) = {}
     /\ HasContract(s, NextPair(s))

\* Whom a session waits for.
Blockers(s) ==
  CASE at[s] = "upsert" -> RowBlockers(s)
    [] at[s] = "delete" -> DeleteBlockers(s)
    [] at[s] = "insert" -> InsertBlockers(s)
    [] OTHER            -> {}

\* Sessions that wait for one another in a circle: PostgreSQL ends one of them.
Deadlocked(s) ==
  \E knot \in SUBSET Sessions : \E next \in Bijection(knot, knot) :
    s \in knot /\ \A d \in knot : next[d] \in Blockers(d)

Fails(s) ==
  /\ \/ Refused(s) /\ UNCHANGED faults
     \/ Deadlocked(s) /\ UNCHANGED faults
     \/ /\ at[s] = "ask" /\ CanFail("model")
        /\ faults' = faults + 1
     \/ /\ at[s] # "idle" /\ CanFail("crash")
        /\ faults' = faults + 1
  /\ RollsBack(s)

\* What a builder saw, less what another has deleted.
Outdated(s, gone) ==
  [d \in Sessions |->
     IF d \in SameRun(s) THEN [job[d] EXCEPT !.seen = @ \ gone] ELSE job[d]]

Replaced(s) ==
  [p \in (DOMAIN contracts[job[s].run] \ job[s].gone) \cup DOMAIN job[s].put |->
     IF p \in DOMAIN job[s].put THEN job[s].put[p] ELSE contracts[job[s].run][p]]

\* What the session has done is committed; a builder has set the status as well.
ReachedOnCreate == [create |-> "in_progress"]
Reached         == [create |-> "in_progress", matrix |-> "complete"]

Commit(s) ==
  LET run == job[s].run
      op  == job[s].op
  IN  /\ at[s] = "done"
      /\ status' = IF op \in DOMAIN Reached THEN [status EXCEPT ![run] = Reached[op]]
                   ELSE status
      /\ events' = [events EXCEPT ![run] = @ \o ParseLines(job[s].lines)]
      /\ rows'   = rows \cup job[s].rows
      /\ IF op = "matrix"
         THEN /\ contracts' = [contracts EXCEPT ![run] = Replaced(s)]
              /\ basis'     = [basis EXCEPT ![run] =
                                 IF job[s].items # <<>> \/ job[s].gone # {} THEN job[s].items ELSE @]
         ELSE UNCHANGED <<contracts, basis>>
      /\ Goto(s, "idle")
      /\ job' = [Outdated(s, job[s].gone) EXCEPT ![s] = NoJob]
      /\ UNCHANGED <<lastId, faults>>
=============================================================================
