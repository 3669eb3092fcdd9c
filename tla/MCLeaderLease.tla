---------------------------- MODULE MCLeaderLease ----------------------------
(* Small instances of LeaderLease for TLC: a tick is five seconds.          *)
EXTENDS LeaderLease, TLC

CONSTANTS r1, r2, r3

Symmetry == Permutations(Replicas)
=============================================================================
