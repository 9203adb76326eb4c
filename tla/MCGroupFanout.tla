--------------------------- MODULE MCGroupFanout ---------------------------
(* Instances of GroupFanout for TLC. *)
EXTENDS GroupFanout, TLC

CONSTANTS i1, i2, r1, r2, c1, c2, alice, bob

\* Two members with a connection each.
TwoMembers == i1 :> alice @@ i2 :> bob
\* One member with two connections, the other with none.
TwoConnections == i1 :> alice @@ i2 :> alice
=============================================================================
