--------------------------- MODULE MCFlowPipeline ---------------------------
(* Small instances of FlowPipeline for TLC.                                 *)
EXTENDS FlowPipeline, TLC

CONSTANTS f1, f2, g1, g2, c1, w1, w2

Symmetry == Permutations(Flows) \cup Permutations(Ingests) \cup Permutations(Workers)
=============================================================================
