----------------------------- MODULE MCDelivery -----------------------------
(* Instances of Delivery for TLC. *)
EXTENDS Delivery, TLC

CONSTANTS i1, i2, r1, r2, c1, c2

MCItems == {i1, i2}
MCRuns == {r1, r2}
MCConns == {c1, c2}
Symmetry == Permutations(MCItems) \cup Permutations(MCRuns)

=============================================================================
