----------------------------- MODULE RunClients -----------------------------
(***************************************************************************)
(* The clients of the runs, over RunPipeline: the Streamlit page (app.py),  *)
(* which works on the run it has created last, the command `scopilot run    *)
(* start` (services/cli/main.py), which sends its requests one after the    *)
(* other, and MCP clients, which call a tool on any run                     *)
(* (services/mcp_server/server.py).                                         *)
(*                                                                         *)
(* What a client is about to send is a script.  It waits for an answer but  *)
(* not for ever (the timeouts of httpx): the session that it leaves behind  *)
(* goes on.                                                                 *)
(***************************************************************************)
EXTENDS RunPipeline

CONSTANTS
  Pages,       \* browser sessions
  Commands,    \* shells and MCP clients
  Scripts,     \* what a command may send
  Batches,     \* what the first, the second, ... script that ingests brings
  MaxScripts,  \* bound on the scripts
  MaxIngests,  \* bound on those that ingest
  OneUser      \* whether they are of one user, who does one thing at a time

\* What creates a run, as `run start` does, does that first.  The hits in a line are a
\* count, as switches send them; _to_int would take "-3" as well.
ASSUME ClientAssumption ==
  /\ Pages \cap Commands = {} /\ {MaxScripts, MaxIngests} \subseteq Nat
  /\ OneUser \in BOOLEAN
  /\ Scripts \subseteq Seq(Ops) /\ Len(Batches) >= MaxIngests
  /\ \A steps \in Scripts :
       steps # <<>> /\ \A n \in DOMAIN steps : steps[n] = "create" => n = 1
  /\ Batches \in Seq(Range(Batches))
  /\ \A b \in Range(Batches) :
       /\ b \in Seq(Range(b))
       /\ \A line \in Range(b) : ToInt(Field(line, "logging_interval_hits", 1), 1) \in Nat

Clients == Pages \cup Commands

VARIABLES
  script,  \* what a client has still to send; the first may be on its way
  target,  \* the run that it is about
  call,    \* the session that serves it, or "none"
  page,    \* session_state: the active run and the run whose matrix is shown
  begun    \* how many scripts have begun: all, those that create, that ingest

clientVars == <<script, target, call, page, begun>>
vars       == <<pipelineVars, clientVars>>

NoPage == [active |-> 0, matrix |-> 0]

Init ==
  /\ PipelineInit
  /\ script  = [c \in Clients |-> <<>>]
  /\ target  = [c \in Clients |-> 0]
  /\ call    = [c \in Clients |-> "none"]
  /\ page    = [c \in Pages |-> NoPage]
  /\ begun   = [script |-> 0, create |-> 0, ingest |-> 0]

Waiting(c) == call[c] # "none"

-----------------------------------------------------------------------------
(* Sending                                                                  *)

Bound == [script |-> MaxScripts, create |-> MaxRuns, ingest |-> MaxIngests]

Counts(steps) == (Range(steps) \cup {"script"}) \cap DOMAIN Bound

\* The next request of a script; whichever session is free will do.
IdleSessions == {s \in Sessions : at[s] = "idle"}

SendNext(c, steps, run) ==
  /\ IdleSessions # {}
  /\ LET s == CHOOSE d \in IdleSessions : TRUE
     IN  /\ Begin(s, Head(steps), run, IF Head(steps) = "ingest" THEN Batches[begun'["ingest"]] ELSE <<>>)
         /\ call' = [call EXCEPT ![c] = s]

Start(c, steps, run) ==
  /\ \A d \in Clients : d = c \/ OneUser => script[d] = <<>>
  /\ \A op \in Counts(steps) : begun[op] < Bound[op]
  /\ script' = [script EXCEPT ![c] = steps]
  /\ target' = [target EXCEPT ![c] = run]
  /\ begun'  = [op \in DOMAIN Bound |-> IF op \in Counts(steps) THEN begun[op] + 1 ELSE begun[op]]
  /\ SendNext(c, steps, run)
  /\ UNCHANGED page

Send(c) ==
  /\ script[c] # <<>> /\ ~Waiting(c)
  /\ UNCHANGED <<script, target, page, begun>>
  /\ SendNext(c, script[c], target[c])

\* The buttons of the page.
Press(c) ==
  \/ Start(c, <<"create", "ingest">>, 0)
  \/ /\ page[c].active # 0
     /\ \/ Start(c, <<"classify">>, page[c].active)
        \/ Start(c, <<"matrix">>, page[c].active)

\* A command with a run of its own, or a tool on a run that there may be.
Call(c) ==
  \E steps \in Scripts :
    IF Head(steps) = "create" THEN Start(c, steps, 0)
    ELSE \E r \in 1..lastId : Start(c, steps, r)

-----------------------------------------------------------------------------
(* Answers                                                                  *)

Callers(s) == {c \in Clients : call[c] = s}

\* What the page keeps: the run once its lines are in, the matrix it was sent.
Kept(c, run) ==
  [page[c] EXCEPT !.active = IF script[c] = <<"ingest">> THEN run ELSE @,
                  !.matrix = IF script[c] = <<"matrix">> THEN run ELSE @]

\* The callers, one or none, have their answer and go on.
Answered(s) ==
  /\ script' = [c \in Clients |-> IF c \in Callers(s) THEN Tail(script[c]) ELSE script[c]]
  /\ target' = [c \in Clients |-> IF c \notin Callers(s) THEN target[c]
                                  ELSE IF Len(script[c]) = 1 THEN 0 ELSE job[s].run]
  /\ call'   = [c \in Clients |-> IF c \in Callers(s) THEN "none" ELSE call[c]]
  /\ page'   = [c \in Pages |-> IF c \in Callers(s) THEN Kept(c, job[s].run) ELSE page[c]]
  /\ UNCHANGED begun

\* An error, or no answer: the rest is not sent.
GiveUp(callers) ==
  /\ script' = [c \in Clients |-> IF c \in callers THEN <<>> ELSE script[c]]
  /\ target' = [c \in Clients |-> IF c \in callers THEN 0 ELSE target[c]]
  /\ call'   = [c \in Clients |-> IF c \in callers THEN "none" ELSE call[c]]
  /\ UNCHANGED <<page, begun>>

Complete(s) == Commit(s) /\ Answered(s)

\* FastAPI from 0.118 on sends the answer before it leaves the session: what the
\* client does next may come before the commit.
AnswerFirst(s) ==
  /\ at[s] = "done" /\ Callers(s) # {} /\ CanFail("early")
  /\ faults' = faults + 1
  /\ Answered(s)
  /\ UNCHANGED <<store, at, job>>

Break(s) == Fails(s) /\ GiveUp(Callers(s))

TimeOut(c) ==
  /\ Waiting(c) /\ CanFail("timeout")
  /\ faults' = faults + 1
  /\ GiveUp({c})
  /\ UNCHANGED <<store, at, job>>

-----------------------------------------------------------------------------
Older(row) == [row EXCEPT !.age = IF Fresh(row) THEN @ + 1 ELSE @]

\* Time passes; beyond the window it makes no difference.
Tick ==
  /\ \E row \in rows : Fresh(row)
  /\ rows' = {Older(row) : row \in rows}
  /\ job'  = [s \in Sessions |-> [job[s] EXCEPT !.rows = {Older(row) : row \in @}]]
  /\ UNCHANGED <<status, lastId, events, contracts, basis, at, faults, clientVars>>

Statement(s) ==
  /\ \/ Lookup(s) \/ Ask(s) \/ Upsert(s)
     \/ ReadExisting(s) \/ DeleteSeen(s) \/ InsertContract(s)
  /\ UNCHANGED clientVars

Next ==
  \/ \E c \in Pages : Press(c)
  \/ \E c \in Commands : Call(c)
  \/ \E c \in Clients : Send(c) \/ TimeOut(c)
  \/ \E s \in Sessions : Statement(s) \/ Complete(s) \/ AnswerFirst(s) \/ Break(s)
  \/ Tick

Spec == Init /\ [][Next]_vars

-----------------------------------------------------------------------------
(* What the runs promise                                                    *)

Row == [run : Runs, key : UNION {{FlowKey(e) : e \in Range(ParseLines(b))} : b \in Range(Batches)},
        hits : Nat, category : Categories, age : 0..(Window + 1)]

\* Every variable has its type.
TypeOK ==
  /\ status \in [Runs -> {"none", "in_progress", "complete"}]
  /\ lastId \in 0..MaxRuns
  /\ rows \subseteq Row
  /\ DOMAIN events = Runs /\ DOMAIN contracts = Runs /\ DOMAIN basis = Runs
  /\ \A s \in Sessions :
       /\ at[s] \in Place
       /\ job[s].run \in 0..MaxRuns /\ job[s].rows \subseteq Row
  /\ \A c \in Clients :
       /\ script[c] \in Seq(Ops) /\ target[c] \in 0..MaxRuns
       /\ call[c] \in Sessions \cup {"none"}
  /\ page \in [Pages -> [active : 0..MaxRuns, matrix : 0..MaxRuns]]
  /\ faults \in 0..MaxFaults
  /\ begun \in [script : 0..MaxScripts, create : 0..MaxRuns, ingest : 0..MaxIngests]

\* The contracts of a run, however many builders are at it, are those of the
\* classifications that one of them read, with deny before permit; a run in
\* progress has none.
MatrixOfOneBuild ==
  \A r \in Runs :
    /\ LeastPrivilege(contracts[r], basis[r])
    /\ Range(basis[r]) \subseteq {Classified(row) : row \in RowsOf(r)}
    /\ status[r] # "complete" => contracts[r] = NoContracts

\* A flow is classified once in a run, and from events that are in the run: with
\* no more hits than they have.
OneVerdictPerFlow ==
  \A v \in rows :
    /\ v.hits <= TotalHits(events[v.run], v.key)
    /\ Places(events[v.run], v.key) # {}
    /\ \A w \in rows : v.run = w.run /\ v.key = w.key => v = w

\* A flow with a verdict that was within the window when the request began, and
\* still is, gets no other from the model: what is stored is a verdict that is within
\* the window, that one or a later one.
Remembers ==
  [][\A row \in rows' \ rows, s \in Sessions :
       LET still == {w \in rows : w.key = row.key /\ Fresh(w)}
       IN  /\ row \in job[s].rows /\ at'[s] = "idle"
           /\ \E w \in still : Identity(w) \in job[s].known
           => row.category \in {w.category : w \in still}]_vars

\* A row as an analyst sees it, and contracts as what they say of each flow.
Verdict(row) == [run |-> row.run, key |-> row.key, hits |-> row.hits, category |-> row.category]

FlowOf(pair, ace) ==
  [sgt |-> pair[1], dgt |-> pair[2], protocol |-> ace[1], src_port |-> ace[2], dst_port |-> ace[3]]

Entries(made) ==
  UNION {{[key |-> FlowOf(p, a), action |-> made[p][a].action] : a \in DOMAIN made[p]} : p \in DOMAIN made}

Ledger == INSTANCE RunLedger WITH
  Denied   <- DenyCategories,
  verdicts <- {Verdict(row) : row \in rows},
  matrix   <- [r \in Runs |-> Entries(contracts[r])]

\* Requests that overlap do to the runs what requests do that take effect at once, at
\* their commit: none is half done, and none changes what another has said of a flow.
ImplementsLedger == Ledger!Spec

\* The matrix on a page is stored, or is about to be: losing it takes an answer
\* before the commit and then a crash.
ShownIsStored ==
  \A c \in Pages :
    page[c].matrix # 0 =>
      \/ status[page[c].matrix] = "complete"
      \/ \E s \in Sessions : at[s] = "done" /\ job[s].run = page[c].matrix
      \/ faults > 1
=============================================================================
