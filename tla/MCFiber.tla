------------------------------ MODULE MCFiber ------------------------------
(* Instances of Fiber for TLC. *)
EXTENDS Fiber, TLC

\* Objects and threads are interchangeable; for safety properties only.
Symmetry == Permutations(Fibers) \cup Permutations(Threads)

\* For the liveness properties, programs that reset only one of the fibers:
\* fewer histories, and every way a call or an activation can end.  A reset of
\* another fiber is left out only where it would be admitted: a refused one is
\* the same step as a refused resume, and stays.
Renewed == CHOOSE f \in Fibers : TRUE

Omitted(s) == \E f \in Fibers \ {Renewed} : ~operating[f] /\ ResetEnter(s, f)

LiveSpec == Fairness /\ Init /\ [][Next /\ ~\E s \in Strands : Omitted(s)]_vars
=============================================================================
