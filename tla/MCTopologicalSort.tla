-------------------------- MODULE MCTopologicalSort --------------------------
(* TopologicalSort over every section of a few functions. *)
EXTENDS TopologicalSortProofs
=============================================================================
