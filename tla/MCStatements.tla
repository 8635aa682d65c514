---------------------------- MODULE MCStatements ----------------------------
(* Messages around the capacities of the buffers, names around the limit.  *)
EXTENDS Statements

SomeCharacters == {"a", "b", "c", "n", "e", "w", "o", "l", "U", "!", "?"}
SomeTexts == {<<>>, <<"a">>, <<"a", "b">>, <<"a", "b", "c">>}
SomeNames == {<<"n">>, <<"n", "e", "w">>}
SomeFirstNames == {<<>>, <<"o", "l">>}
Default == <<"U">>
Error == <<"!">>
NoMessage == <<"?">>
=============================================================================
