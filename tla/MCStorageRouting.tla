-------------------------- MODULE MCStorageRouting --------------------------
(* StorageRouting for TLC: which event each proposal refers to. *)
EXTENDS StorageRouting

CONSTANT e1

OnlyEvent == [p \in Proposals |-> e1]

=============================================================================
