-------------------------- MODULE MCDependencyGraph --------------------------
(* Every sequence of operations on a graph over a few keys. *)
EXTENDS DependencyGraph

=============================================================================
