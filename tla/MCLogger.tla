------------------------------ MODULE MCLogger ------------------------------
(* Instances of Logger for TLC. *)
EXTENDS Logger, TLC

\* For invariants and action properties only.
Symmetry == Permutations(Threads)
=============================================================================
