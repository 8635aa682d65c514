------------------------------ MODULE Numbers ------------------------------
(***************************************************************************)
(* detail::ParseArithmetic of include/ureactor/config/convert.h: how the   *)
(* text of a YAML scalar is read as an integer.  An integer type is the    *)
(* record of its range.                                                    *)
(***************************************************************************)
EXTENDS StringUtils, SequencesExt

\* A result is what FromNode returns, or Failed for the exception it throws.
Failed == [ok |-> FALSE]
Ok(v)  == [ok |-> TRUE, value |-> v]

\* VT stands for the vertical tab, which TLA+ has no notation for.
Whitespace  == {" ", "\t", "\n", "\r", "\f", "VT"}

\* The digits, of either case.
LowerDigits == <<"0", "1", "2", "3", "4", "5", "6", "7", "8", "9", "a", "b", "c", "d", "e", "f">>
UpperDigits == <<"0", "1", "2", "3", "4", "5", "6", "7", "8", "9", "A", "B", "C", "D", "E", "F">>

DigitValue ==
    [c \in {"0", "1", "2", "3", "4", "5", "6", "7", "8", "9",
            "a", "b", "c", "d", "e", "f", "A", "B", "C", "D", "E", "F"} |->
        CHOOSE n \in 0 .. 15 : c \in {LowerDigits[n + 1], UpperDigits[n + 1]}]

Digits(base) == {c \in DOMAIN DigitValue : DigitValue[c] < base}

Positional(digits, base) ==
    LET value[i \in 0 .. Len(digits)] ==
            IF i = 0 THEN 0 ELSE value[i - 1] * base + DigitValue[digits[i]]
    IN  value[Len(digits)]

\* std::to_chars of a number that is not negative.
Decimal(number) ==
    LET digits[n \in 0 .. number] ==
            IF n < 10 THEN <<LowerDigits[n + 1]>>
            ELSE Append(digits[n \div 10], LowerDigits[(n % 10) + 1])
    IN  digits[number]

StartsWith(text, c) == text # <<>> /\ text[1] = c

\* std::from_chars for all of the text: a minus sign only for signed types.
FromChars(text, base, type) ==
    LET minus  == StartsWith(text, "-") /\ type.min < 0
        digits == IF minus THEN Tail(text) ELSE text
        value  == IF minus THEN -Positional(digits, base) ELSE Positional(digits, base)
    IN  IF /\ digits # <<>>
           /\ ToSet(digits) \subseteq Digits(base)
           /\ value \in type.min .. type.max
        THEN Ok(value) ELSE Failed

HasHexPrefix(body) ==
    Len(body) > 2 /\ body[1] = "0" /\ body[2] \in {"x", "X"}

\* A plus sign is dropped; a second sign after it is an error.
\* Variant: the second sign is left to from_chars.
SignTwice(body) == StartsWith(body, "+") /\ body = <<"+">>

SignFault(body) ==
    StartsWith(body, "+") /\ (Len(body) = 1 \/ body[2] \in {"-", "+"})

ParseArithmetic(text, type) ==
    LET body     == Trim(text, Whitespace)
        unsigned == IF StartsWith(body, "+") THEN Tail(body) ELSE body
    IN  IF body = <<>> \/ SignFault(body) THEN Failed
        ELSE IF HasHexPrefix(unsigned)
        THEN FromChars(SubSeq(unsigned, 3, Len(unsigned)), 16, type)
        ELSE FromChars(unsigned, 10, type)
=============================================================================
