------------------------------- MODULE MCText -------------------------------
(***************************************************************************)
(* The instance of Text for the model checker.                             *)
(***************************************************************************)
EXTENDS Text

Upto(n, S) == UNION {[1 .. k -> S] : k \in 0 .. n}

SomeAlphabet ==
    [bytes   |-> {0, 127, 128, 143, 144, 159, 160, 191, 192, 193, 194, 223, 224, 225,
                  237, 239, 240, 243, 244, 245},
     units   |-> {0, 127, 128, 2047, 2048, 55295, 55296, 56319, 56320, 57343, 57344,
                  65535, 65536, 1114111, 1114112},
     number  |-> {"+", "-", "0", "1", "7", "8", "f", "x", " "},
     pattern |-> {"%", "{", "}", "m", "d", "q"}]

\* Integers of four bits.
Small == [kind |-> "int", min |-> -8, max |-> 7]
SmallUnsigned == [kind |-> "int", min |-> 0, max |-> 15]
SomeIntTypes == {Small, SmallUnsigned}

SomeTypes ==
    LET containers == {"list", "set", "map"}
        scalars    == {Small, [kind |-> "bool"], [kind |-> "string"]}
    IN  [containers : Upto(1, containers), scalar : scalars] \cup
        [containers : [1 .. 2 -> containers], scalar : {Small}]

SomeLengths == [bytes |-> 4, units |-> 3, number |-> 5, pattern |-> 6]

Scalar(word) == [kind |-> "scalar", text |-> [i \in 1 .. Len(word) |-> SubSeq(word, i, i)]]
Null == [kind |-> "null"]
Sequences(items) == {[kind |-> "sequence", items |-> s] : s \in items}
Maps(entries) == {[kind |-> "map", entries |-> s] : s \in entries}

SomeNodes ==
    LET scalars == {Scalar(w) : w \in {"7", "+0x7", " -8 ", "8", "yes", "N", "?"}} \cup {Null}
        keys    == {Scalar(w) : w \in {"a", "A", "b.a", "b", "?"}} \cup {Null}
        few     == {Scalar("7"), Scalar("?")}
        bits    == {Scalar("1"), Scalar("0")}
        lists   == Sequences(Upto(2, scalars)) \cup Sequences(Upto(2, bits))
        nested  == Sequences(Upto(2, Sequences(Upto(2, bits))))
        maps    == Maps(Upto(2, [key : keys, value : few]))
        single  == Maps([1 .. 1 -> [key : keys, value : {Scalar("7")}]])
        deep    == Maps(Upto(2, [key : keys, value : {Scalar("7")} \cup single]))
        deeper  == Maps([1 .. 1 -> [key : keys, value : deep]])
    IN  scalars \cup keys \cup bits \cup lists \cup nested \cup maps \cup deep \cup deeper
=============================================================================
