--------------------------- MODULE MCTaskLifecycle ---------------------------
(* Instances of TaskLifecycle small enough for TLC. *)
EXTENDS TaskLifecycle
=============================================================================
