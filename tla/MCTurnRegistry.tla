---------------------------- MODULE MCTurnRegistry ----------------------------
(* Instances of TurnRegistry small enough for TLC. *)
EXTENDS TurnRegistry
=============================================================================
