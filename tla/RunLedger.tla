------------------------------ MODULE RunLedger ------------------------------
(***************************************************************************)
(* What the runs promise an analyst, with no sessions, no statements and no *)
(* time: a request takes effect at once or not at all.  A verdict, once     *)
(* given, stays as it is, and a flow of a run gets no other; the matrix of  *)
(* a run changes only to the one of verdicts that the run has.              *)
(* (core/db.py, session_scope; the endpoints of runs.py and matrix.py.)     *)
(***************************************************************************)
CONSTANTS Runs, Denied

VARIABLES
  status,   \* of each run: "none", "in_progress", "complete"
  verdicts, \* of flows: run, key, hits and category
  matrix    \* of each run: what it says of which flow

vars == <<status, verdicts, matrix>>

Init == /\ status   = [r \in Runs |-> "none"]
        /\ verdicts = {}
        /\ matrix   = [r \in Runs |-> {}]

Open(r) == /\ status[r] = "none"
           /\ status' = [status EXCEPT ![r] = "in_progress"]
           /\ UNCHANGED <<verdicts, matrix>>

SameFlow(v, w) == v.run = w.run /\ v.key = w.key

\* All verdicts of a request, each of a flow of the run that has none.
Classify(r) == /\ status[r] # "none"
               /\ verdicts \subseteq verdicts'
               /\ \A v \in verdicts' \ verdicts :
                    v.run = r /\ \A w \in verdicts' : SameFlow(v, w) => v = w
               /\ UNCHANGED <<status, matrix>>

Entry(v) == [key |-> v.key, action |-> IF v.category \in Denied THEN "deny" ELSE "permit"]

\* Of the verdicts that the run has, or had when the build began: of two matrices
\* one says all that the other says.
Build(r) ==
  \E seen \in SUBSET {v \in verdicts : v.run = r} :
    LET made == {Entry(v) : v \in seen}
    IN  /\ status[r] # "none"
        /\ matrix[r] \subseteq made \/ made \subseteq matrix[r]
        /\ status' = [status EXCEPT ![r] = "complete"]
        /\ matrix' = [matrix EXCEPT ![r] = made]
        /\ UNCHANGED verdicts

Next == \E r \in Runs : Open(r) \/ Classify(r) \/ Build(r)

Spec == Init /\ [][Next]_vars
=============================================================================
