---------------------------- MODULE MCFormatter ----------------------------
(* Two threads, records around the epoch and dates around the capacities.  *)
EXTENDS Formatter, TLC

Chars(word) == [i \in 1 .. Len(word) |-> SubSeq(word, i, i)]

\* A short format, one that needs the buffer to grow, one that never fits.
SomeDateText(format, second) ==
    LET length == CASE format = <<"S">> -> 1 + (second % 2)
                    [] format = <<"L">> -> 5
                    [] format = <<"X">> -> 9
    IN  [i \in 1 .. length |-> format[1] \o ToString(second)]

SomePatterns == {Chars(p) : p \in {"%d{S}.%u%m", "%d{L}%d", "%d{X}", "%p%q"}}
PlainPattern == Chars("%p%r%c%t%T%f%l%F%N%m%n")

Plain == [message |-> <<"hello">>, level |-> <<"INFO">>, elapsed |-> 7,
          loggerName |-> <<"net">>, threadId |-> 1, time |-> 0, fileName |-> <<"f">>,
          line |-> 42, fiberId |-> 0, threadName |-> <<"main">>]
SomeRecords == {[Plain EXCEPT !.time = 19, !.message = <<>>],
                [Plain EXCEPT !.time = -1],
                [Plain EXCEPT !.time = 20, !.message = <<"a", "b", "c", "d", "e">>]}
Words == STRING
Short == <<"S">>
Refused == {1}
=============================================================================
