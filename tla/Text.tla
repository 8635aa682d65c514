-------------------------------- MODULE Text --------------------------------
(***************************************************************************)
(* The algorithms on plain sequences of characters, against definitions    *)
(* that do not follow their steps: UTF-8 and wide strings (StringUtils),   *)
(* numbers (Numbers), YAML nodes (Convert) and log patterns (Pattern).     *)
(*                                                                         *)
(* The state machine only produces the inputs: an input grows by one       *)
(* character at a time; a YAML node is chosen at the start.                *)
(***************************************************************************)
EXTENDS StringUtils, Numbers, Convert, Pattern, SequencesExt, FiniteSets

CONSTANTS MaxLength,      \* bound: the characters of an input, by its kind
          Alphabet,       \* the characters it is made of, by its kind
          Nodes,          \* bound: the YAML nodes, with those inside them
          IntTypes,       \* the integer types, each with its range
          Types           \* the types of configuration values

\* What a byte and what a wchar_t can be.
ASSUME AlphabetAssumption ==
    /\ "node" \notin DOMAIN Alphabet
    /\ Alphabet["bytes"] \subseteq 0 .. 255
    /\ Alphabet["units"] \subseteq Nat

\* What yaml-cpp makes of documents, with the nodes inside.
AreNodes(nodes) ==
    \A node \in nodes :
        \/ node.kind = "scalar"   /\ node.text \in Seq(ToSet(node.text))
        \/ node.kind = "sequence" /\ node.items \in Seq(nodes)
        \/ node.kind = "map"      /\ node.entries \in Seq([key : nodes, value : nodes])
        \/ node.kind = "null"

ASSUME NodesAssumption == AreNodes(Nodes)

\* What the specialisations of ConfigConvert admit.
ASSUME TypesAssumption ==
    \A type \in Types :
        /\ type.containers \in Seq({"list", "set", "map"})
        /\ \/ type.scalar.kind \in {"bool", "string"}
           \/ /\ type.scalar.kind = "int"
              /\ type.scalar.min \in Int /\ type.scalar.max \in Int

VARIABLES kind, input

Init == \/ kind \in DOMAIN Alphabet /\ input = <<>>
        \/ kind = "node" /\ input \in Nodes

Next == /\ kind \in DOMAIN Alphabet
        /\ Len(input) < MaxLength[kind]
        /\ \E c \in Alphabet[kind] : input' = Append(input, c)
        /\ UNCHANGED kind

Spec == Init /\ [][Next]_<<kind, input>>

-----------------------------------------------------------------------------
(* UTF-8.                                                                  *)

T == 128 .. 191

\* The well-formed byte sequences of the Unicode standard (its table 3-7).
WellFormed == {
    <<0 .. 127>>, <<194 .. 223, T>>,
    <<{224}, 160 .. 191, T>>, <<225 .. 236, T, T>>, <<{237}, 128 .. 159, T>>,
    <<238 .. 239, T, T>>,
    <<{240}, 144 .. 191, T, T>>, <<241 .. 243, T, T, T>>, <<{244}, 128 .. 143, T, T>> }

IsUtf8(text) ==
    LET from[i \in 1 .. Len(text) + 1] ==
            \/ i > Len(text)
            \/ \E row \in WellFormed :
                  /\ i + Len(row) <= Len(text) + 1
                  /\ \A k \in DOMAIN row : text[i + k - 1] \in row[k]
                  /\ from[i + Len(row)]
    IN  from[1]

\* StringToWstring takes exactly the byte sequences that Unicode calls UTF-8,
\* on platforms with either width of wchar_t, and WstringToString gives the
\* same bytes back: no overlong form, surrogate or cut-off sequence passes.
Utf8Exact ==
    kind = "bytes" =>
        \A size \in {2, 4} :
            LET wide == DecodeFrom(input, size)
            IN  /\ wide.valid <=> IsUtf8(input)
                /\ wide.valid => WstringToString(wide.text, size) = input

\* The last code point of Unicode.
LastCodePoint == 1114111

\* In UTF-16 a high surrogate is followed by a low one, and only there is a
\* low one; UTF-32 has neither.
IsWide(text, size) ==
    \A i \in DOMAIN text :
        /\ size = 4 => text[i] \in 0 .. 55295 \/ text[i] \in 57344 .. LastCodePoint
        /\ size = 2 => LET high(k) == k \in DOMAIN text /\ text[k] \in 55296 .. 56319
                           low(k)  == k \in DOMAIN text /\ text[k] \in 56320 .. 57343
                       IN  (high(i) => low(i + 1)) /\ (low(i) => high(i - 1))

\* WstringToString takes exactly the well-formed UTF-16 or UTF-32 strings,
\* gives UTF-8, and StringToWstring gives the same string back.
WideExact ==
    kind = "units" =>
        \A size \in {2, 4} : (size = 2 => \A i \in DOMAIN input : input[i] <= 65535) =>
            LET utf8 == EncodeFrom(input, size)
            IN  /\ utf8.valid <=> IsWide(input, size)
                /\ utf8.valid => /\ IsUtf8(utf8.text)
                                 /\ StringToWstring(utf8.text, size) = input

-----------------------------------------------------------------------------
(* Numbers.                                                                *)

\* What is between the white space around a text, if there is no more inside.
Bodies(text) ==
    {SubSeq(text, w[1], w[2]) :
        w \in {w \in (DOMAIN text) \X (DOMAIN text) :
                  \A i \in DOMAIN text : i \in w[1] .. w[2] <=> text[i] \notin Whitespace}}

\* A reading of a body is given by the lengths of its plus sign, of its prefix
\* for base 16 and of its minus sign; what is left are digits.
Base(reading) == IF reading.prefix = 0 THEN 10 ELSE 16
Left(body, reading) ==
    SubSeq(body, reading.plus + reading.prefix + reading.minus + 1, Len(body))

\* Only types with negative numbers have a minus sign, and it never comes
\* directly after a plus sign.
Readings(body, type) ==
    LET is(i, C) == i <= Len(body) /\ body[i] \in C
    IN  {r \in [plus : {0, 1}, prefix : {0, 2}, minus : {0, 1}] :
            /\ r.plus = 1   => is(1, {"+"})
            /\ r.prefix = 2 => is(r.plus + 1, {"0"}) /\ is(r.plus + 2, {"x", "X"})
            /\ r.minus = 1  => /\ is(r.plus + r.prefix + 1, {"-"})
                               /\ type.min < 0
                               /\ r.plus = 0 \/ r.prefix = 2
            /\ Left(body, r) # <<>>
            /\ ToSet(Left(body, r)) \subseteq Digits(Base(r))}

NumberRead(body, reading) ==
    LET number == Positional(Left(body, reading), Base(reading))
    IN  IF reading.minus = 1 THEN -number ELSE number

Meanings(text, type) ==
    {v \in UNION {{NumberRead(body, r) : r \in Readings(body, type)} : body \in Bodies(text)} :
        v \in type.min .. type.max}

\* ParseArithmetic takes exactly the texts that spell a value of the type, and
\* returns this value; anything behind the digits, a value beyond the range or
\* a sign the type does not have is an error, never a wrapped number.
NumbersExact ==
    kind = "number" =>
        \A type \in IntTypes :
            LET result == ParseArithmetic(input, type)
            IN  Meanings(input, type) = IF result.ok THEN {result.value} ELSE {}

-----------------------------------------------------------------------------
(* YAML nodes.                                                             *)

\* What a node was read as is read again from the node it is written to,
\* whatever spelling, order or repeated key the first one had: a value that
\* was saved loads as the same value.
ConversionStable ==
    kind = "node" =>
        \A type \in Types :
            LET result == FromNode(input, type)
            IN  result.ok => FromNode(ToNode(result.value, type), type) = result

\* The places k levels below the root of a file that are reached by entries
\* with valid names: the indices and names of these entries, and the node.
Root(node) == [path |-> <<>>, names |-> <<>>, node |-> node]

Entered(place, i) ==
    [path  |-> Append(place.path, i),
     names |-> Append(place.names, NormalizeConfigName(place.node.entries[i].key.text)),
     node  |-> place.node.entries[i].value]

EntriesOf(node) == IF node.kind = "map" THEN DOMAIN node.entries ELSE {}
NamedEntries(node) == {i \in EntriesOf(node) : IsNamed(node.entries[i])}

Places(node, k) ==
    LET at[j \in 0 .. k] ==
            IF j = 0 THEN {Root(node)}
            ELSE UNION {{Entered(p, i) : i \in NamedEntries(p.node)} : p \in at[j - 1]}
    IN  at[k]

Dotted(names) ==
    FlattenSeq([i \in DOMAIN names |-> IF i = 1 THEN names[i] ELSE <<".">> \o names[i]])

\* The order of a file: a map before its members, these entry by entry.
Before(p, q) ==
    \E k \in DOMAIN q : /\ \A j \in 1 .. k - 1 : j \in DOMAIN p /\ p[j] = q[j]
                        /\ k \in DOMAIN p => p[k] < q[k]

\* LoadFromYaml's members are the nodes at these places, in the order of the
\* file, each under its dotted lower-case name and as often as it occurs; it
\* reports success exactly when no key had to be skipped, and a file that
\* nests deeper than the limit gives no member at all.
MembersExact ==
    kind = "node" =>
        LET result     == CollectMembers(input)
            places     == UNION {Places(input, k) : k \in 1 .. DepthLimit}
            earlier(p) == {q \in places : Before(q.path, p.path)}
        IN  IF Places(input, DepthLimit + 1) # {} THEN result.throws
            ELSE /\ ~result.throws
                 /\ result.success <=>
                       \A p \in {Root(input)} \cup places : NamedEntries(p.node) = EntriesOf(p.node)
                 /\ Len(result.members) = Cardinality(places)
                 /\ \A p \in places : result.members[Cardinality(earlier(p)) + 1] =
                                         [name |-> Dotted(p.names), node |-> p.node]

-----------------------------------------------------------------------------
(* Log patterns.                                                           *)

\* The text of an item in a pattern.
Spelling(item) ==
    IF item.kind = "literal"
    THEN FlattenSeq([i \in DOMAIN item.text |->
                        IF item.text[i] = "%" THEN <<"%", "%">> ELSE <<item.text[i]>>])
    ELSE <<"%", item.kind>> \o
         IF item.config = <<>> THEN <<>> ELSE <<LeftBrace>> \o item.config \o <<RightBrace>>

\* The patterns that the comment above parse describes, from index i on.
IsPattern(pattern) ==
    LET n == Len(pattern)
        is(i, c) == i <= n /\ pattern[i] = c
        from[i \in 1 .. n + 1] ==
            \/ i > n
            \/ i <= n /\ ~is(i, "%") /\ from[i + 1]
            \/ is(i, "%") /\ is(i + 1, "%") /\ from[i + 2]
            \/ /\ is(i, "%") /\ i < n /\ pattern[i + 1] \in Directives
               /\ \/ ~is(i + 2, LeftBrace) /\ from[i + 2]
                  \/ /\ is(i + 2, LeftBrace)
                     /\ \E j \in i + 4 .. n : /\ is(j, RightBrace)
                                              /\ \A k \in i + 3 .. j - 1 : ~is(k, RightBrace)
                                              /\ from[j + 1]
    IN  from[1]

\* A pattern gives a formatter exactly when it is well-formed; the formatter
\* has no null item, no empty literal and no two literals in a row, and its
\* items spell the pattern: nothing is lost, doubled or out of order.
ParseFaithful ==
    kind = "pattern" =>
        LET result == parse(input)
            items  == result.items
            literal(i) == i \in DOMAIN items /\ items[i].kind = "literal"
        IN  /\ result.code = 0 <=> IsPattern(input)
            /\ result.code = 0 =>
                  /\ NoItem \notin ToSet(items)
                  /\ FlattenSeq([i \in DOMAIN items |-> Spelling(items[i])]) = input
                  /\ \A i \in DOMAIN items :
                        literal(i) => items[i].text # <<>> /\ ~literal(i + 1)
=============================================================================
