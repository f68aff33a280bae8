------------------------------ MODULE MCTodoBoard ------------------------------
(* TodoBoard for TLC: the sets are model values given in the configurations. *)
EXTENDS TodoBoard
=============================================================================
