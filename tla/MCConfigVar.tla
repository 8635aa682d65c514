---------------------------- MODULE MCConfigVar ----------------------------
(* Instances of ConfigVar for TLC. *)
EXTENDS ConfigVar, TLC

\* Threads are interchangeable; for invariants and action properties only.
Symmetry == Permutations(Threads)
=============================================================================
