------------------------------ MODULE MCDecisions ------------------------------
(* An instance of DecisionModes for TLC: two resolutions where the server only *)
(* records, one where it evaluates; a policy that allows once, or asks once.   *)
EXTENDS MCLocalDecisions, DecisionModes

Alike == Permutations(Res) \cup Permutations(Call)
=============================================================================
