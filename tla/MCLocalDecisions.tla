--------------------------- MODULE MCLocalDecisions ---------------------------
(* Instances of LocalDecisions for TLC: p is a limited policy. *)
EXTENDS LocalDecisions, TLC

CONSTANTS p, c1, c2, enc, bad

AllowOnce == p :> "allow"
AskOnce == p :> "ask"
DenyOnce == p :> "deny"
UseOnce == p :> 1

Symmetry == Permutations(Res) \cup Permutations(Key) \cup Permutations(Call)
=============================================================================
