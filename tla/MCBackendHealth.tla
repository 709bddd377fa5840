-------------------------- MODULE MCBackendHealth ---------------------------
(* Instances of BackendHealth for TLC. *)
EXTENDS BackendHealth, TLC

Symmetry == Permutations(Tasks)
=============================================================================
