------------------------------- MODULE MCHistory -------------------------------
(* History for TLC: the bounds are given in the configurations. *)
EXTENDS History
=============================================================================
