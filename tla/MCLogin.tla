------------------------------ MODULE MCLogin ------------------------------
(* Instances of LoginPage for TLC. *)
EXTENDS LoginPage

CONSTANTS p1, u1, u2

OnePage == [p \in Page |-> u1]
=============================================================================
