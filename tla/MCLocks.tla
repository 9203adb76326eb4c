------------------------------ MODULE MCLocks ------------------------------
(* Instances of LockDirectory for TLC: two processes want one lock. *)
EXTENDS LockDirectory, TLC

CONSTANTS p, q

Interchangeable == Permutations({p, q})
=============================================================================
