---------------------------- MODULE MCProposals ----------------------------
(* Small instances of Proposals for TLC.                                    *)
EXTENDS Proposals, TLC

CONSTANTS s1, s2, i1, i2, i3, p1, p2, k1, k2

Permit(ks) == [k \in {k1, k2} |-> IF k \in ks THEN "permit" ELSE "absent"]
Deny(ks)   == [k \in {k1, k2} |-> IF k \in ks THEN "deny" ELSE "absent"]
Ask(p, a)  == [run |-> "none", pair |-> p, aces |-> a]

MCRuns == {"none"}

\* One pair: a permit and a deny of the same key, and a deny of another key.
OnePairRequests == {Ask(p1, Permit({k1})), Ask(p1, Deny({k1})), Ask(p1, Deny({k2}))}

\* Two pairs: two requests for the first, one for the second.
TwoPairRequests == {Ask(p1, Permit({k1})), Ask(p1, Deny({k1})), Ask(p2, Deny({k2}))}

\* Two requests that meet in one row.
LockRequests == {Ask(p1, Permit({k1})), Ask(p1, Deny({k1}))}

Symmetry == Permutations({s1, s2}) \cup Permutations({i1, i2, i3})
=============================================================================
