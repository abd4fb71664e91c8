---------------------------- MODULE MCReplicaPool ----------------------------
(* A small instance of ReplicaPool for TLC. *)
EXTENDS ReplicaPool

CONSTANTS a, b
=============================================================================
