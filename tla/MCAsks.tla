------------------------------- MODULE MCAsks -------------------------------
(* Instances of Asks small enough for TLC. *)
EXTENDS Asks
=============================================================================
