------------------------------ MODULE Convert ------------------------------
(***************************************************************************)
(* How configuration values are read from YAML nodes and written back:     *)
(* ConfigConvert of include/ureactor/config/convert.h with the parsers of  *)
(* src/config/convert.cc, and CollectMembers of config.cc, which finds the *)
(* named nodes of a file.                                                  *)
(*                                                                         *)
(* A node is a scalar with its text, a sequence of nodes, a map with its   *)
(* entries in the order of the file, or null.  A type is the sequence of   *)
(* its containers, the outermost first, and the scalar type in the         *)
(* innermost: list (vector and list), set (set and unordered_set) and map  *)
(* (both maps with string keys) of bool, string or integers of a range     *)
(* (enumerations are read as their integers).  Floating point and types    *)
(* with YAML::convert of their own are left to the libraries.              *)
(***************************************************************************)
EXTENDS Numbers, SequencesExt, FiniteSets, Functions

CONSTANT DepthLimit       \* CollectMembers' limit of nesting, 64

ASSUME DepthLimitAssumption == DepthLimit \in Nat

-----------------------------------------------------------------------------
(* Scalars.                                                                *)

\* Variant: std::to_chars of the absolute value.
MagnitudeToNode(v) == [kind |-> "scalar", text |-> Decimal(IF v < 0 THEN -v ELSE v)]

ArithmeticToNode(v) ==
    [kind |-> "scalar", text |-> IF v < 0 THEN <<"-">> \o Decimal(-v) ELSE Decimal(v)]

TRUE_WORDS  == {<<"t", "r", "u", "e">>, <<"y", "e", "s">>, <<"o", "n">>, <<"y">>, <<"1">>, <<"t">>}
FALSE_WORDS == {<<"f", "a", "l", "s", "e">>, <<"n", "o">>, <<"o", "f", "f">>, <<"n">>, <<"0">>, <<"f">>}

ToLowerAscii(c) ==
    LET upper == <<"A", "B", "C", "D", "E", "F", "G", "H", "I", "J", "K", "L", "M",
                   "N", "O", "P", "Q", "R", "S", "T", "U", "V", "W", "X", "Y", "Z">>
        lower == <<"a", "b", "c", "d", "e", "f", "g", "h", "i", "j", "k", "l", "m",
                   "n", "o", "p", "q", "r", "s", "t", "u", "v", "w", "x", "y", "z">>
    IN  IF c \in ToSet(upper) THEN lower[CHOOSE i \in 1 .. 26 : upper[i] = c] ELSE c

Lower(text) == [i \in DOMAIN text |-> ToLowerAscii(text[i])]

ParseBool(text) ==
    LET body == Lower(Trim(text, Whitespace))
    IN  IF body \in TRUE_WORDS THEN Ok(TRUE)
        ELSE IF body \in FALSE_WORDS THEN Ok(FALSE)
        ELSE Failed

FromScalar(node, type) ==
    IF node.kind # "scalar" THEN Failed
    ELSE CASE type.kind = "bool"   -> ParseBool(node.text)
           [] type.kind = "string" -> Ok(node.text)
           [] type.kind = "int"    -> ParseArithmetic(node.text, type)

ScalarToNode(v, type) ==
    CASE type.kind = "bool"   ->
            [kind |-> "scalar",
             text |-> IF v THEN <<"t", "r", "u", "e">> ELSE <<"f", "a", "l", "s", "e">>]
      [] type.kind = "string" -> [kind |-> "scalar", text |-> v]
      [] type.kind = "int"    -> ArithmeticToNode(v)

-----------------------------------------------------------------------------
(* Containers.  The conversion of the elements is a function.              *)

AllOk(results) == \A i \in DOMAIN results : results[i].ok
Values(results) == [i \in DOMAIN results |-> results[i].value]

FromSequence(node, container, element) ==
    LET items == [i \in DOMAIN node.items |-> element[node.items[i]]]
    IN  IF node.kind # "sequence" \/ ~AllOk(items) THEN Failed
        ELSE Ok(IF container = "set" THEN ToSet(Values(items)) ELSE Values(items))

\* Map::emplace keeps the first of several entries with the same key.
FirstOf(texts, key) == CHOOSE i \in DOMAIN texts :
                          texts[i] = key /\ \A j \in 1 .. i - 1 : texts[j] # key

FromMap(node, element) ==
    LET keys   == [i \in DOMAIN node.entries |-> node.entries[i].key]
        mapped == [i \in DOMAIN keys |-> element[node.entries[i].value]]
        texts  == [i \in DOMAIN keys |-> keys[i].text]
    IN  IF \/ node.kind # "map"
           \/ \E i \in DOMAIN keys : keys[i].kind # "scalar"
           \/ ~AllOk(mapped)
        THEN Failed
        ELSE Ok([key \in ToSet(texts) |-> mapped[FirstOf(texts, key)].value])

\* The nodes directly in a node, and those k levels below it.
Inside(node) ==
    CASE node.kind = "sequence" -> ToSet(node.items)
      [] node.kind = "map"      -> {e.value : e \in ToSet(node.entries)}
      [] OTHER                  -> {}

Level(node, k) ==
    LET level[j \in 0 .. k] == IF j = 0 THEN {node} ELSE UNION {Inside(m) : m \in level[j - 1]}
    IN  level[k]

\* The templates of the containers, instantiated from the scalar type on.
FromNode(node, type) ==
    LET depth == Len(type.containers)
        from[k \in 0 .. depth] ==
            [m \in Level(node, k) |->
                IF k = depth THEN FromScalar(m, type.scalar)
                ELSE IF type.containers[k + 1] = "map" THEN FromMap(m, from[k + 1])
                ELSE FromSequence(m, type.containers[k + 1], from[k + 1])]
    IN  from[0][node]

\* The order in which a set or a map is written is the container's own.
ContainerToNode(v, container, element) ==
    LET keys    == SetToSeq(DOMAIN v)
        members == IF container = "set" THEN SetToSeq(v) ELSE v
    IN  IF container = "map"
        THEN [kind |-> "map",
              entries |-> [i \in DOMAIN keys |->
                              [key   |-> [kind |-> "scalar", text |-> keys[i]],
                               value |-> element[v[keys[i]]]]]]
        ELSE [kind |-> "sequence", items |-> [i \in DOMAIN members |-> element[members[i]]]]

\* The elements of a container, and the values k levels below a value.
Elements(v, container) == IF container = "set" THEN v ELSE {v[i] : i \in DOMAIN v}

Parts(v, containers, k) ==
    LET part[j \in 0 .. k] ==
            IF j = 0 THEN {v} ELSE UNION {Elements(x, containers[j]) : x \in part[j - 1]}
    IN  part[k]

ToNode(v, type) ==
    LET depth == Len(type.containers)
        to[k \in 0 .. depth] ==
            [x \in Parts(v, type.containers, k) |->
                IF k = depth THEN ScalarToNode(x, type.scalar)
                ELSE ContainerToNode(x, type.containers[k + 1], to[k + 1])]
    IN  to[0][v]

-----------------------------------------------------------------------------
(* The members of a file: CollectMembers, called with the root and no      *)
(* prefix.  It gives the names with their nodes, in the order of the file, *)
(* a map before its members; success is FALSE when an entry was skipped;   *)
(* throws is the exception of a file that nests too deep: nothing of it is *)
(* applied.                                                                *)

NAME_CHARSET == {"a", "b", "c", "d", "e", "f", "g", "h", "i", "j", "k", "l", "m",
                 "n", "o", "p", "q", "r", "s", "t", "u", "v", "w", "x", "y", "z",
                 ".", "_", "0", "1", "2", "3", "4", "5", "6", "7", "8", "9"}

NormalizeConfigName(name) == Lower(name)
IsValidConfigName(name) == name # <<>> /\ ToSet(name) \subseteq NAME_CHARSET

IsNamed(entry) ==
    entry.key.kind = "scalar" /\ IsValidConfigName(NormalizeConfigName(entry.key.text))

\* Variant: the prefix is not put in front of the key.
KeyAlone(prefix, key) == key

Extended(prefix, key) == IF prefix = <<>> THEN key ELSE prefix \o <<".">> \o key

Skipped == [throws |-> FALSE, success |-> FALSE, members |-> <<>>]
TooDeep == [throws |-> TRUE, success |-> FALSE, members |-> <<>>]

\* One call: the node itself, then its entries, for which deeper stands for
\* the calls of the next depth.
Collect(prefix, node, deeper) ==
    LET own     == IF prefix = <<>> THEN <<>> ELSE <<[name |-> prefix, node |-> node]>>
        entries == IF node.kind = "map" THEN node.entries ELSE <<>>
        results == [i \in DOMAIN entries |->
                       IF IsNamed(entries[i])
                       THEN deeper[entries[i].value]
                                  [Extended(prefix, NormalizeConfigName(entries[i].key.text))]
                       ELSE Skipped]
    IN  IF \E i \in DOMAIN results : results[i].throws THEN TooDeep
        ELSE [throws  |-> FALSE,
              success |-> \A i \in DOMAIN results : results[i].success,
              members |-> own \o FlattenSeq([i \in DOMAIN results |-> results[i].members])]

CollectMembers(root) ==
    LET collect[depth \in 0 .. DepthLimit + 1] ==
            [node \in Level(root, depth) |-> [prefix \in Seq(NAME_CHARSET) |->
                IF depth > DepthLimit THEN TooDeep ELSE Collect(prefix, node, collect[depth + 1])]]
    IN  collect[0][root][<<>>]
=============================================================================
