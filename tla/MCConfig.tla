------------------------------ MODULE MCConfig ------------------------------
(* Instances of Config for TLC. *)
EXTENDS Config, TLC

CONSTANTS f1, f2, n1, n2, int, string

TwoPaths == <<f1, f2>>
OnePath == <<f1>>

Good == [loads |-> TRUE, clean |-> TRUE,
         nodes |-> <<[name |-> n1, fits |-> {int}],
                     [name |-> n2, fits |-> {int}]>>]
Damaged == [Good EXCEPT !.nodes[1].fits = {}]
Unclean == [Good EXCEPT !.clean = FALSE, !.nodes = <<@[1]>>]
Broken == [loads |-> FALSE, clean |-> TRUE, nodes |-> <<>>]

AllTexts == {Good, Damaged, Unclean, Broken}
ThreeTexts == {Good, Damaged, Broken}
FewTexts == {Good, Damaged}

\* Threads that do not load directories are interchangeable.
Symmetry == Permutations(Threads \ Loaders)
=============================================================================
