---------------------------- MODULE PolicyLedger ----------------------------
(***************************************************************************)
(* What the proposal store promises an operator, with no sessions, no rows  *)
(* and no versions: proposals are submitted, each is closed or approved at  *)
(* most once, and an approval folds its ACEs into the live matrix as one    *)
(* step.  Nothing else changes the matrix.                                  *)
(* (The docstring of core/services/proposal.py, lines 3-20.)                *)
(***************************************************************************)
CONSTANTS Ids, Pairs, Aces, NoMatrix, Fold(_, _)

VARIABLES
  state,  \* of each proposal: "none", "open", "closed" or "applied"
  live    \* the ACEs in force for each pair

vars == <<state, live>>

Init == /\ state = [i \in Ids |-> "none"]
        /\ live  = NoMatrix

Submit(i) == /\ state[i] = "none"
             /\ state' = [state EXCEPT ![i] = "open"]
             /\ UNCHANGED live

\* Rejected, or approved without effect; overdue ones expire several at once.
Close(is) == /\ \A i \in is : state[i] = "open"
             /\ state' = [i \in Ids |-> IF i \in is THEN "closed" ELSE state[i]]
             /\ UNCHANGED live

Approve(i, p, a) == /\ state[i] = "open"
                    /\ state' = [state EXCEPT ![i] = "applied"]
                    /\ live'  = [live EXCEPT ![p] = Fold(@, a)]

Next == \/ \E i \in Ids : \/ Submit(i)
                        \/ \E p \in Pairs, a \in Aces : Approve(i, p, a)
        \/ \E is \in SUBSET Ids : Close(is)

Spec == Init /\ [][Next]_vars
=============================================================================
