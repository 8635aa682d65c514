---------------------------- MODULE StringUtils ----------------------------
(***************************************************************************)
(* The algorithms of src/utils/string_utils.cc: trimming, and conversion   *)
(* between UTF-8 and wide strings.                                         *)
(*                                                                         *)
(* A string is a sequence of characters; in UTF-8 a character is a byte,   *)
(* 0 .. 255.  Masks and shifts are written with \div and %, which is the   *)
(* same for the numbers at hand.  A conversion that fails reports an       *)
(* assertion: a Debug build stops there, an NDEBUG build returns the empty *)
(* string.  The latter is modelled.                                        *)
(***************************************************************************)
EXTENDS Integers, Sequences

MAX_UNICODE_CODE_POINT == 1114111       \* 0x10FFFF
HIGH_SURROGATE_FIRST   == 55296         \* 0xD800
HIGH_SURROGATE_LAST    == 56319         \* 0xDBFF
LOW_SURROGATE_FIRST    == 56320         \* 0xDC00
LOW_SURROGATE_LAST     == 57343         \* 0xDFFF

IsHighSurrogate(u) == u \in HIGH_SURROGATE_FIRST .. HIGH_SURROGATE_LAST
IsLowSurrogate(u)  == u \in LOW_SURROGATE_FIRST .. LOW_SURROGATE_LAST

\* A byte 10xxxxxx with the six low bits of u.
ContinuationByte(u) == 128 + (u % 64)

AppendUtf8(output, c) ==
    output \o
    IF c <= 127 THEN <<c>>
    ELSE IF c <= 2047
    THEN <<192 + c \div 64, ContinuationByte(c)>>
    ELSE IF c <= 65535
    THEN <<224 + c \div 4096, ContinuationByte(c \div 64), ContinuationByte(c)>>
    ELSE <<240 + c \div 262144, ContinuationByte(c \div 4096),
           ContinuationByte(c \div 64), ContinuationByte(c)>>

\* What the first byte of a code point announces: the continuation bytes that
\* follow, the bits it holds itself, and the least code point of that length.
Lead(b) ==
    IF b <= 127 THEN [count |-> 0, bits |-> b, minimum |-> 0]
    ELSE IF b \in 194 .. 223 THEN [count |-> 1, bits |-> b % 32, minimum |-> 128]
    ELSE IF b \in 224 .. 239 THEN [count |-> 2, bits |-> b % 16, minimum |-> 2048]
    ELSE [count |-> 3, bits |-> b % 8, minimum |-> 65536]

IsLead(b) == b <= 127 \/ b \in 194 .. 244

\* The code point that the lead byte and n continuation bytes from text[i] form.
Gathered(text, i, n) ==
    LET b(k) == text[i + k] % 64
        bits == Lead(text[i]).bits
    IN  CASE n = 0 -> bits
          [] n = 1 -> bits * 64 + b(1)
          [] n = 2 -> bits * 4096 + b(1) * 64 + b(2)
          [] n = 3 -> bits * 262144 + b(1) * 4096 + b(2) * 64 + b(3)

Invalid == [valid |-> FALSE]

\* Variant: neither surrogates nor the end of the code space are looked at.
AnyCodePoint(c, minimum) == c >= minimum

IsCodePoint(c, minimum) ==
    /\ c >= minimum
    /\ c <= MAX_UNICODE_CODE_POINT
    /\ ~IsHighSurrogate(c)
    /\ ~IsLowSurrogate(c)

\* The code point that starts at text[i], and where the next one starts.
DecodeUtf8CodePoint(text, i) ==
    IF ~IsLead(text[i]) THEN Invalid
    ELSE LET lead == Lead(text[i])
             n    == lead.count
         IN  IF Len(text) - i < n \/ \E k \in 1 .. n : text[i + k] \div 64 # 2
             THEN Invalid
             ELSE IF n > 0 /\ ~IsCodePoint(Gathered(text, i, n), lead.minimum)
             THEN Invalid
             ELSE [valid |-> TRUE, code_point |-> Gathered(text, i, n),
                   offset |-> i + n + 1]

\* The units of a wide string that stand for c; size is sizeof(wchar_t).
Units(c, size) ==
    IF size = 4 \/ c <= 65535 THEN <<c>>
    ELSE LET d == c - 65536 IN <<HIGH_SURROGATE_FIRST + d \div 1024,
                                 LOW_SURROGATE_FIRST + (d % 1024)>>

\* The conversion loops, from position i on; what they return for the rest of
\* the text is put in front by Prepend.
Prepend(units, rest) ==
    IF rest.valid THEN [valid |-> TRUE, text |-> units \o rest.text] ELSE Invalid
NoUnits == [valid |-> TRUE, text |-> <<>>]

DecodeFrom(text, size) ==
    LET from[i \in 1 .. Len(text) + 1] ==
            IF i > Len(text) THEN NoUnits
            ELSE LET d == DecodeUtf8CodePoint(text, i)
                 IN  IF d.valid THEN Prepend(Units(d.code_point, size), from[d.offset])
                     ELSE Invalid
    IN  from[1]

\* The code point at position i of a wide string, and the units it takes.
\* Variant: a pair is put together without the offset of the second plane.
PairLow(high, low) == (high - HIGH_SURROGATE_FIRST) * 1024 + (low - LOW_SURROGATE_FIRST)

Pair(high, low) ==
    65536 + (high - HIGH_SURROGATE_FIRST) * 1024 + (low - LOW_SURROGATE_FIRST)

WideCodePoint(text, i, size) ==
    IF size = 2 /\ IsHighSurrogate(text[i])
    THEN IF i < Len(text) /\ IsLowSurrogate(text[i + 1])
         THEN [valid |-> TRUE, code_point |-> Pair(text[i], text[i + 1]), units |-> 2]
         ELSE Invalid
    ELSE IF \/ IsLowSurrogate(text[i])
            \/ size = 4 /\ (IsHighSurrogate(text[i]) \/ text[i] > MAX_UNICODE_CODE_POINT)
    THEN Invalid
    ELSE [valid |-> TRUE, code_point |-> text[i], units |-> 1]

EncodeFrom(text, size) ==
    LET from[i \in 1 .. Len(text) + 1] ==
            IF i > Len(text) THEN NoUnits
            ELSE LET w == WideCodePoint(text, i, size)
                 IN  IF w.valid
                     THEN Prepend(AppendUtf8(<<>>, w.code_point), from[i + w.units])
                     ELSE Invalid
    IN  from[1]

TextOf(result) == IF result.valid THEN result.text ELSE <<>>

WstringToString(text, size) == TextOf(EncodeFrom(text, size))
StringToWstring(text, size) == TextOf(DecodeFrom(text, size))

-----------------------------------------------------------------------------
(* Trimming.                                                               *)

\* The positions of characters that are not delimiters: find_first_not_of and
\* find_last_not_of give the ends of this set, npos when it is empty.
Kept(text, delimiters) == {i \in DOMAIN text : text[i] \notin delimiters}
Leftmost(S) == CHOOSE i \in S : \A j \in S : i <= j
Rightmost(S)  == CHOOSE i \in S : \A j \in S : j <= i

TrimLeft(text, delimiters) ==
    LET kept == Kept(text, delimiters)
    IN  IF kept = {} THEN <<>> ELSE SubSeq(text, Leftmost(kept), Len(text))

TrimRight(text, delimiters) ==
    LET kept == Kept(text, delimiters)
    IN  IF kept = {} THEN <<>> ELSE SubSeq(text, 1, Rightmost(kept))

Trim(text, delimiters) ==
    LET kept == Kept(text, delimiters)
    IN  IF kept = {} THEN <<>> ELSE SubSeq(text, Leftmost(kept), Rightmost(kept))
=============================================================================
