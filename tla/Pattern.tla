------------------------------- MODULE Pattern -------------------------------
(***************************************************************************)
(* Formatter::parse of src/logger/formatter.cc: how a log pattern, such as *)
(* "[%p] %d{%H:%M}.%u %m%n", becomes the list of items that write a record. *)
(*                                                                         *)
(* A pattern is a sequence of characters.  An item is a literal with its   *)
(* text, or a directive with the configuration in braces behind it (only   *)
(* %d uses its own), or NoItem for the null pointer that stands for an     *)
(* unknown directive.  A failed assertion stops a Debug build; the NDEBUG  *)
(* build, which is modelled, goes on with the code parse returns.          *)
(***************************************************************************)
EXTENDS Integers, Sequences

\* The keys of GetFormatItemFactories.
Directives == {"m", "p", "r", "c", "t", "n", "d", "u", "f", "l", "T", "F", "N"}

\* What encloses the configuration of a directive.
LeftBrace  == "{"
RightBrace == "}"

Literal(text) == [kind |-> "literal", text |-> text]
Item(directive, config) == [kind |-> directive, config |-> config]
NoItem == [kind |-> "none"]

\* Variant: whatever the directive, an item is made.
CreateAnyItem(directive, config) == Item(directive, config)

CreateFormatItem(directive, config) ==
    IF directive \in Directives THEN Item(directive, config) ELSE NoItem

\* A state of the loop: the characters before index are done, literal is not
\* yet in items.  code is the answer once the loop was left early.
Start == [index |-> 1, literal |-> <<>>, items |-> <<>>, code |-> 0]

addLiteral(s) ==
    IF s.literal = <<>> THEN s
    ELSE [s EXCEPT !.items = Append(@, Literal(s.literal)), !.literal = <<>>]

\* The positions of right braces from i on; find gives the least of them.
Closing(pattern, i) == {j \in i .. Len(pattern) : pattern[j] = RightBrace}
Least(S) == CHOOSE i \in S : \A j \in S : i <= j

\* The directive at index i, with the configuration behind it.
Directive(pattern, s, i) ==
    LET put(config, next) ==
            [addLiteral(s) EXCEPT !.items = Append(@, CreateFormatItem(pattern[i], config)),
                                  !.index = next]
        braces == Closing(pattern, i + 2)
    IN  IF i = Len(pattern) \/ pattern[i + 1] # LeftBrace THEN put(<<>>, i + 1)
        ELSE IF braces = {} \/ Least(braces) = i + 2 THEN [s EXCEPT !.code = -2]
        ELSE put(SubSeq(pattern, i + 2, Least(braces) - 1), Least(braces) + 1)

\* One round of the loop.
Round(pattern, s) ==
    LET i == s.index
        plain(next) == [s EXCEPT !.literal = Append(@, pattern[i]), !.index = next]
    IN  IF pattern[i] # "%" THEN plain(i + 1)
        ELSE IF i = Len(pattern) THEN [s EXCEPT !.code = -1]
        ELSE IF pattern[i + 1] = "%" THEN plain(i + 2)
        ELSE Directive(pattern, s, i + 1)

\* m_items and the code with which parse returns.
parse(pattern) ==
    LET after[n \in 0 .. Len(pattern)] ==
            IF n = 0 THEN Start
            ELSE LET s == after[n - 1]
                 IN  IF s.code # 0 \/ s.index > Len(pattern) THEN s ELSE Round(pattern, s)
        end == after[Len(pattern)]
        all == addLiteral(end).items
    IN  IF end.code # 0 THEN [code |-> end.code, items |-> end.items]
        ELSE [code |-> IF \E i \in DOMAIN all : all[i] = NoItem THEN -3 ELSE 0,
              items |-> all]
=============================================================================
