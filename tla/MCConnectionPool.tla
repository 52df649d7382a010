-------------------------- MODULE MCConnectionPool --------------------------
(* ConnectionPool on small sets of tasks and connections. *)
EXTENDS ConnectionPool, TLC

Symmetry ==
  Permutations(Callers) \cup Permutations(Conns) \cup Permutations(Shrinkers)
=============================================================================
