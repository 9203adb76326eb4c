--------------------------- MODULE MCOrchestrator ---------------------------
(* Instances of Orchestrator for TLC: b depends on a. *)
EXTENDS Orchestrator, TLC

CONSTANTS a, b

Chain == a :> {} @@ b :> {a}
=============================================================================
