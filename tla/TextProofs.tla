----------------------------- MODULE TextProofs -----------------------------
(***************************************************************************)
(* What holds of the conversions between UTF-8 and wide strings, of        *)
(* ParseArithmetic, of the conversions from and to YAML nodes, of          *)
(* CollectMembers and of parse, for texts, files, types and limits of any  *)
(* size.                                                                   *)
(***************************************************************************)
EXTENDS Text, Recursion, FiniteSetTheorems, FunctionTheorems

-----------------------------------------------------------------------------
(* Walks: what the two conversion loops have in common.                    *)

\* What the loops return: nothing, or a text over S.
Results(S) == {Invalid} \cup [valid : {TRUE}, text : Seq(S)]

\* At i the loop puts out piece[i] and goes on at next[i], or gives up (0).
IsRoute(n, piece, next, S) ==
    /\ piece \in [1 .. n -> Seq(S)]
    /\ next \in [1 .. n -> 0 .. n + 1]
    /\ \A i \in 1 .. n : next[i] # 0 => next[i] \in i + 1 .. n + 1

IsWalk(f, n, piece, next) ==
    \A i \in 1 .. n + 1 :
        f[i] = IF i > n THEN NoUnits
               ELSE IF next[i] # 0 THEN Prepend(piece[i], f[next[i]]) ELSE Invalid

\* A piece before a result gives a result, valid if that is.
LEMMA PrependTyped ==
  ASSUME NEW S, NEW u \in Seq(S), NEW r \in Results(S)
  PROVE  /\ Prepend(u, r) \in Results(S)
         /\ Prepend(u, r).valid <=> r.valid
         /\ r.valid => Prepend(u, r).text = u \o r.text
<1>1. CASE r.valid
  <2>1. r.text \in Seq(S)
    <3>1. ~Invalid.valid
      BY DEF Invalid
    <3>2. r \in [valid : {TRUE}, text : Seq(S)]
      BY <1>1, <3>1 DEF Results
    <3> QED
      BY <3>2
  <2>2. u \o r.text \in Seq(S)
    BY <2>1
  <2> QED
    BY <1>1, <2>2 DEF Prepend, Results
<1>2. CASE ~r.valid
  <2>1. Prepend(u, r) = Invalid
    BY <1>2 DEF Prepend
  <2>2. Invalid \in Results(S) /\ ~Invalid.valid
    BY DEF Results, Invalid
  <2> QED
    BY <1>2, <2>1, <2>2
<1> QED
  BY <1>1, <1>2

LEMMA PrependValid ==
  ASSUME NEW u, NEW r, r.valid
  PROVE  Prepend(u, r).text = u \o r.text
BY DEF Prepend

\* A route has a walk: the recursion of the loop has a solution.
LEMMA WalkExists ==
  ASSUME NEW n \in Nat, NEW S, NEW piece, NEW next, IsRoute(n, piece, next, S)
  PROVE  \E f \in [1 .. n + 1 -> Results(S)] : IsWalk(f, n, piece, next)
<1> DEFINE I == 1 .. n + 1
           V == Results(S)
           value(f, i) == IF i > n THEN NoUnits
                          ELSE IF next[i] # 0 THEN Prepend(piece[i], f[next[i]]) ELSE Invalid
           body == [f \in [I -> V] |-> [i \in I |-> value(f, i)]]
<1>1. Invalid \in V /\ NoUnits \in V
  BY DEF Results, NoUnits
<1>2. \A i \in I : ~(i > n) => i \in 1 .. n
  OBVIOUS
<1>3. \A i \in 1 .. n : next[i] # 0 => next[i] \in I /\ next[i] \in i + 1 .. n + 1
  BY DEF IsRoute
<1>4. ASSUME NEW f \in [I -> V], NEW i \in I
      PROVE  value(f, i) \in V
  <2>1. CASE i \in 1 .. n /\ next[i] # 0
    <3>1. f[next[i]] \in V /\ piece[i] \in Seq(S)
      BY <1>3, <2>1 DEF IsRoute
    <3>2. Prepend(piece[i], f[next[i]]) \in V
      BY <3>1, PrependTyped
    <3> QED
      BY <1>1, <2>1, <3>2
  <2>2. CASE ~(i \in 1 .. n /\ next[i] # 0)
    BY <1>1, <1>2, <2>2
  <2> QED
    BY <2>1, <2>2
<1>5. body \in [[I -> V] -> [I -> V]]
  <2> HIDE DEF I, V, value
  <2> QED
    BY <1>4
<1>6. ASSUME NEW f \in [I -> V], NEW g \in [I -> V], NEW i \in I,
             \A j \in i + 1 .. n + 1 : f[j] = g[j]
      PROVE  body[f][i] = body[g][i]
  <2>1. value(f, i) = value(g, i)
    BY <1>2, <1>3, <1>6
  <2> HIDE DEF I, V, value
  <2> QED
    BY <2>1
<1>7. IsBackward(body, n, V)
  <2> HIDE DEF body, V
  <2> QED
    BY <1>1, <1>5, <1>6 DEF IsBackward
<1>8. PICK f \in [I -> V] : f = body[f]
  <2> HIDE DEF body, V
  <2> QED
    BY <1>7, BackwardRecursion DEF HasFixedPoint
<1>9. \A i \in I : f[i] = value(f, i)
  <2> HIDE DEF I, V, value
  <2> QED
    BY <1>8
<1> QED
  BY <1>9 DEF IsWalk

\* Two walks along the same way agree, also when one has more in front.
Ahead(n, k, piece, next, p, x) ==
    \A i \in 1 .. n : /\ p[i + k] = piece[i]
                      /\ x[i + k] = IF next[i] = 0 THEN 0 ELSE next[i] + k

SameWay(f, n, piece, next, g, k, p, x) ==
    /\ \E S : IsRoute(n, piece, next, S)
    /\ Ahead(n, k, piece, next, p, x)
    /\ IsWalk(f, n, piece, next)
    /\ IsWalk(g, n + k, p, x)

Agree(f, n, g, k) == \A i \in 1 .. n + 1 : g[i + k] = f[i]

\* Two walks that go the same way, one k further on, give the same results.
LEMMA WalkShift ==
  ASSUME NEW n \in Nat, NEW k \in Nat, NEW f, NEW piece, NEW next, NEW g, NEW p, NEW x,
         SameWay(f, n, piece, next, g, k, p, x)
  PROVE  Agree(f, n, g, k)
<1> PICK S : IsRoute(n, piece, next, S)
  BY DEF SameWay
<1>00. IsWalk(f, n, piece, next)
  BY DEF SameWay
<1>0. /\ IsWalk(g, n + k, p, x)
      /\ \A i \in 1 .. n : /\ p[i + k] = piece[i]
                           /\ x[i + k] = IF next[i] = 0 THEN 0 ELSE next[i] + k
  BY DEF Ahead, SameWay
<1> DEFINE K == {i \in 1 .. n + 1 : g[i + k] = f[i]}
<1>1. n + 1 \in K
  BY <1>0, <1>00 DEF IsWalk
<1>2. ASSUME NEW i \in 1 .. n, \A j \in i + 1 .. n + 1 : j \in K
      PROVE  i \in K
  <2>1. i \in 1 .. n + 1 /\ ~(i > n) /\ i + k \in 1 .. (n + k) + 1 /\ ~(i + k > n + k)
    OBVIOUS
  <2>2. /\ f[i] = IF next[i] # 0 THEN Prepend(piece[i], f[next[i]]) ELSE Invalid
        /\ g[i + k] = IF x[i + k] # 0 THEN Prepend(p[i + k], g[x[i + k]]) ELSE Invalid
    BY <1>0, <1>00, <2>1 DEF IsWalk
  <2>3. CASE next[i] = 0
    BY <1>0, <2>1, <2>2, <2>3
  <2>4. CASE next[i] # 0
    <3>1. next[i] \in i + 1 .. n + 1
      BY <2>4 DEF IsRoute
    <3>2. g[next[i] + k] = f[next[i]] /\ x[i + k] = next[i] + k /\ x[i + k] # 0
      BY <1>0, <1>2, <2>4, <3>1
    <3>3. p[i + k] = piece[i]
      BY <1>0
    <3>4. g[x[i + k]] = f[next[i]]
      BY <3>2, Zenon
    <3>5. g[i + k] = f[i]
      <4> HIDE DEF K
      <4> QED
        BY <2>2, <2>4, <3>2, <3>3, <3>4, Zenon
    <3> QED
      BY <2>1, <3>5
  <2> QED
    BY <2>3, <2>4
<1>3. 1 .. n + 1 \subseteq K
  <2> HIDE DEF K
  <2> QED
    BY <1>1, <1>2, DownInduction
<1> QED
  BY <1>3 DEF Agree

-----------------------------------------------------------------------------
(* One code point in UTF-8.                                                *)

\* Unicode's scalar values: the code points that text can consist of.
ScalarValues ==
    {c \in Nat : c <= MAX_UNICODE_CODE_POINT /\ ~IsHighSurrogate(c) /\ ~IsLowSurrogate(c)}

Surrogate(c) == 55296 <= c /\ c <= 57343
Short(c) == c <= 2047           \* two bytes hold it
Astral(c) == c > 65535          \* beyond the first plane
Assigned(c) == c <= 1114111     \* within the code space

\* The least code points that take three and four bytes.
ThreeMinimum == 2048
FourMinimum == 65536

\* The rows of WellFormed of two, three and four bytes.
Two(a, b) == a \in 194 .. 223 /\ b \in T
Three(a, b, c) ==
    /\ c \in T
    /\ \/ a = 224 /\ b \in 160 .. 191
       \/ a \in (225 .. 236) \cup (238 .. 239) /\ b \in T
       \/ a = 237 /\ b \in 128 .. 159
Four(a, b, c, d) ==
    /\ c \in T /\ d \in T
    /\ \/ a = 240 /\ b \in 144 .. 191
       \/ a \in 241 .. 243 /\ b \in T
       \/ a = 244 /\ b \in 128 .. 143

TwoCode(a, b) == (a - 192) * 64 + (b - 128)
ThreeCode(a, b, c) == (a - 224) * 4096 + (b - 128) * 64 + (c - 128)
FourCode(a, b, c, d) == (a - 240) * 262144 + (b - 128) * 4096 + (c - 128) * 64 + (d - 128)

\* What is left of a byte without its mark.
LEMMA TailBits ==
  ASSUME NEW b \in T
  PROVE  \E q \in Nat : q <= 63 /\ b = 128 + q
BY SMT DEF T

LEMMA LeadBits ==
  ASSUME NEW a, NEW first \in Nat, NEW last \in Nat, a \in first .. last
  PROVE  \E p \in Nat : p <= last - first /\ a = first + p
<1>1. a - first \in Nat /\ a - first <= last - first /\ a = first + (a - first)
  BY SMT
<1> QED
  BY <1>1

\* Numbers put together from six bits each.
TwoSum(p, q) == p * 64 + q
ThreeSum(p, q, r) == p * 4096 + q * 64 + r
FourSum(p, q, r, s) == p * 262144 + q * 4096 + r * 64 + s

\* The masks and shifts take a number apart as they put it together.
LEMMA TwoNumber ==
  ASSUME NEW p \in Nat, NEW q \in Nat, q <= 63, NEW x, x = TwoSum(p, q)
  PROVE  x \in Nat /\ x \div 64 = p /\ x % 64 = q
BY SMT DEF TwoSum

LEMMA ThreeNumber ==
  ASSUME NEW p \in Nat, NEW q \in Nat, NEW r \in Nat, q <= 63, r <= 63,
         NEW x, x = ThreeSum(p, q, r)
  PROVE  x \in Nat /\ x \div 4096 = p /\ (x \div 64) % 64 = q /\ x % 64 = r
BY SMT DEF ThreeSum

LEMMA FourNumber ==
  ASSUME NEW p \in Nat, NEW q \in Nat, NEW r \in Nat, NEW s \in Nat, q <= 63, r <= 63, s <= 63,
         NEW x, x = FourSum(p, q, r, s)
  PROVE  x \in Nat /\ x \div 262144 = p /\ (x \div 4096) % 64 = q /\ (x \div 64) % 64 = r /\ x % 64 = s
BY SMT DEF FourSum

\* The least numbers of each length, the surrogates and the last code point.
LEMMA ThreeBounds ==
  ASSUME NEW p \in Nat, NEW q \in Nat, NEW r \in Nat, p <= 15, q <= 63, r <= 63,
         NEW x, x = ThreeSum(p, q, r)
  PROVE  /\ x <= 65535
         /\ x >= 2048 <=> p >= 1 \/ q >= 32
         /\ Surrogate(x) <=> p = 13 /\ q >= 32
<1>1. x <= 65535 /\ x \in Nat
  BY SMT DEF ThreeSum
<1>2. x >= 2048 <=> p >= 1 \/ q >= 32
  BY SMT DEF ThreeSum
<1>3. p <= 12 => x <= 55295
  BY SMT DEF ThreeSum
<1>4. p >= 14 => x >= 57344
  BY SMT DEF ThreeSum
<1>5. p = 13 => (x >= 55296 <=> q >= 32) /\ x <= 57343
  BY SMT DEF ThreeSum
<1>6. p <= 12 \/ p >= 14 \/ p = 13
  BY SMT DEF ThreeSum
<1> QED
  BY <1>1, <1>2, <1>3, <1>4, <1>5, <1>6, SMT DEF Surrogate

LEMMA FourBounds ==
  ASSUME NEW p \in Nat, NEW q \in Nat, NEW r \in Nat, NEW s \in Nat, p <= 4, q <= 63, r <= 63, s <= 63,
         NEW x, x = FourSum(p, q, r, s)
  PROVE  /\ x \in Nat
         /\ IF p >= 1 \/ q >= 16 THEN Astral(x) ELSE ~Astral(x)
         /\ IF p <= 3 \/ q <= 15 THEN Assigned(x) ELSE ~Assigned(x)
<1>1. x \in Nat
  BY SMT DEF FourSum
<1>2. x >= 65536 <=> p >= 1 \/ q >= 16
  BY SMT DEF FourSum
<1>3. p <= 3 => x <= 1114111
  BY SMT DEF FourSum
<1>4. p = 4 => (x <= 1114111 <=> q <= 15)
  BY SMT DEF FourSum
<1>5. p <= 3 \/ p = 4
  BY SMT
<1>6. x > 65535 <=> x >= 65536
  BY <1>1, SMT
<1> QED
  BY <1>1, <1>2, <1>3, <1>4, <1>5, <1>6, SMT DEF Astral, Assigned

\* The bytes AppendUtf8 puts out, by their number.
TwoBytes(x) == <<192 + x \div 64, ContinuationByte(x)>>
ThreeBytes(x) == <<224 + x \div 4096, ContinuationByte(x \div 64), ContinuationByte(x)>>
FourBytes(x) == <<240 + x \div 262144, ContinuationByte(x \div 4096),
                  ContinuationByte(x \div 64), ContinuationByte(x)>>

LEMMA TwoParts ==
  ASSUME NEW a \in 194 .. 223, NEW b \in T, NEW x, x = TwoCode(a, b)
  PROVE  x \in Nat /\ 128 <= x /\ x <= 2047 /\ TwoBytes(x) = <<a, b>>
<1>1. PICK p \in Nat : 2 <= p /\ p <= 31 /\ a = 192 + p
  <2>1. PICK m \in Nat : m <= 29 /\ a = 194 + m
    BY LeadBits, SMT
  <2>2. PICK p \in Nat : p = m + 2
    BY SMT
  <2> QED
    BY <2>1, <2>2, SMT
<1>2. PICK q \in Nat : q <= 63 /\ b = 128 + q
  BY TailBits
<1>3. x = TwoSum(p, q)
  BY <1>1, <1>2, SMT DEF TwoCode, TwoSum
<1>4. x \in Nat /\ x \div 64 = p /\ x % 64 = q
  BY <1>2, <1>3, TwoNumber, SMT
<1>5. 128 <= x /\ x <= 2047
  BY <1>1, <1>2, <1>3, SMT DEF TwoSum
<1> QED
  BY <1>1, <1>2, <1>4, <1>5, SMT DEF ContinuationByte, TwoBytes

LEMMA ThreeParts ==
  ASSUME NEW a \in 224 .. 239, NEW b \in T, NEW c \in T, NEW x, x = ThreeCode(a, b, c)
  PROVE  /\ x \in Nat /\ x <= 65535 /\ ThreeBytes(x) = <<a, b, c>>
         /\ x >= 2048 <=> a >= 225 \/ b >= 160
         /\ Surrogate(x) <=> a = 237 /\ b >= 160
<1>1. PICK p \in Nat : p <= 15 /\ a = 224 + p
  BY LeadBits, SMT
<1>2. PICK q \in Nat : q <= 63 /\ b = 128 + q
  BY TailBits
<1>3. PICK r \in Nat : r <= 63 /\ c = 128 + r
  BY TailBits
<1>4. x = ThreeSum(p, q, r)
  BY <1>1, <1>2, <1>3, SMT DEF ThreeCode, ThreeSum
<1>5. x \in Nat /\ x \div 4096 = p /\ (x \div 64) % 64 = q /\ x % 64 = r
  BY <1>2, <1>3, <1>4, ThreeNumber, SMT
<1>6. /\ x <= 65535
      /\ x >= 2048 <=> p >= 1 \/ q >= 32
      /\ Surrogate(x) <=> p = 13 /\ q >= 32
  BY <1>1, <1>2, <1>3, <1>4, ThreeBounds, SMT
<1>7. (p >= 1 <=> a >= 225) /\ (q >= 32 <=> b >= 160) /\ (p = 13 <=> a = 237)
  BY <1>1, <1>2, SMT
<1>8. ThreeBytes(x) = <<a, b, c>>
  BY <1>1, <1>2, <1>3, <1>5, SMT DEF ContinuationByte, ThreeBytes
<1> QED
  BY <1>5, <1>6, <1>7, <1>8, SMT

LEMMA FourParts ==
  ASSUME NEW a \in 240 .. 244, NEW b \in T, NEW c \in T, NEW d \in T, NEW x, x = FourCode(a, b, c, d)
  PROVE  /\ x \in Nat /\ FourBytes(x) = <<a, b, c, d>>
         /\ IF a >= 241 \/ b >= 144 THEN Astral(x) ELSE ~Astral(x)
         /\ IF a <= 243 \/ b <= 143 THEN Assigned(x) ELSE ~Assigned(x)
<1>1. PICK p \in Nat : p <= 4 /\ a = 240 + p
  BY LeadBits, SMT
<1>2. PICK q \in Nat : q <= 63 /\ b = 128 + q
  BY TailBits
<1>3. PICK r \in Nat : r <= 63 /\ c = 128 + r
  BY TailBits
<1>4. PICK s \in Nat : s <= 63 /\ d = 128 + s
  BY TailBits
<1>5. x = FourSum(p, q, r, s)
  BY <1>1, <1>2, <1>3, <1>4, SMT DEF FourCode, FourSum
<1>6. x \in Nat /\ x \div 262144 = p /\ (x \div 4096) % 64 = q /\ (x \div 64) % 64 = r /\ x % 64 = s
  BY <1>2, <1>3, <1>4, <1>5, FourNumber, SMT
<1>7. /\ IF p >= 1 \/ q >= 16 THEN Astral(x) ELSE ~Astral(x)
      /\ IF p <= 3 \/ q <= 15 THEN Assigned(x) ELSE ~Assigned(x)
  <2>1. ASSUME p >= 1 \/ q >= 16 PROVE Astral(x)
    BY <1>1, <1>2, <1>3, <1>4, <1>5, <2>1, FourBounds, SMT
  <2>2. ASSUME ~(p >= 1 \/ q >= 16) PROVE ~Astral(x)
    BY <1>1, <1>2, <1>3, <1>4, <1>5, <2>2, FourBounds, SMT
  <2>3. ASSUME p <= 3 \/ q <= 15 PROVE Assigned(x)
    BY <1>1, <1>2, <1>3, <1>4, <1>5, <2>3, FourBounds, SMT
  <2>4. ASSUME ~(p <= 3 \/ q <= 15) PROVE ~Assigned(x)
    BY <1>1, <1>2, <1>3, <1>4, <1>5, <2>4, FourBounds, SMT
  <2> QED
    BY <2>1, <2>2, <2>3, <2>4, SMT
<1>8. (p >= 1 <=> a >= 241) /\ (q >= 16 <=> b >= 144) /\ (p <= 3 <=> a <= 243) /\ (q <= 15 <=> b <= 143)
  BY <1>1, <1>2, SMT
<1>9. FourBytes(x) = <<a, b, c, d>>
  BY <1>1, <1>2, <1>3, <1>4, <1>6, SMT DEF ContinuationByte, FourBytes
<1>10. x \in Nat
  BY <1>6, SMT
<1> QED
  BY <1>7, <1>8, <1>9, <1>10, SMT

\* The checks of DecodeUtf8CodePoint on what it has put together are those of
\* the table.
LEMMA CodePoint ==
  ASSUME NEW c \in Nat, NEW minimum \in Nat
  PROVE  /\ IsCodePoint(c, minimum) <=> c >= minimum /\ Assigned(c) /\ ~Surrogate(c)
         /\ c \in ScalarValues <=> Assigned(c) /\ ~Surrogate(c)
<1>1. Surrogate(c) <=> IsHighSurrogate(c) \/ IsLowSurrogate(c)
  BY SMT DEF Surrogate, IsHighSurrogate, IsLowSurrogate, HIGH_SURROGATE_FIRST, HIGH_SURROGATE_LAST,
             LOW_SURROGATE_FIRST, LOW_SURROGATE_LAST
<1>2. c <= MAX_UNICODE_CODE_POINT <=> Assigned(c)
  BY SMT DEF Assigned, MAX_UNICODE_CODE_POINT
<1> QED
  BY <1>1, <1>2, SMT DEF IsCodePoint, ScalarValues

LEMMA TwoChecked ==
  ASSUME NEW a \in 194 .. 223, NEW b \in T
  PROVE  IsCodePoint(TwoCode(a, b), 128) /\ TwoCode(a, b) \in ScalarValues
<1>1. PICK x : x = TwoCode(a, b)
  OBVIOUS
<1>2. x \in Nat /\ 128 <= x /\ x <= 2047
  BY <1>1, TwoParts, SMT
<1>3. ~Surrogate(x) /\ Assigned(x)
  BY <1>2, SMT DEF Surrogate, Assigned
<1> QED
  BY <1>1, <1>2, <1>3, CodePoint, SMT

LEMMA ThreeChecked ==
  ASSUME NEW a \in 224 .. 239, NEW b \in T, NEW c \in T
  PROVE  /\ IsCodePoint(ThreeCode(a, b, c), ThreeMinimum) <=> Three(a, b, c)
         /\ Three(a, b, c) => ThreeCode(a, b, c) \in ScalarValues /\ ~Astral(ThreeCode(a, b, c)) /\ ~Short(ThreeCode(a, b, c))
<1>1. PICK x : x = ThreeCode(a, b, c)
  OBVIOUS
<1>2. /\ x \in Nat /\ x <= 65535
      /\ x >= 2048 <=> a >= 225 \/ b >= 160
      /\ Surrogate(x) <=> a = 237 /\ b >= 160
  BY <1>1, ThreeParts, SMT
<1>3. Three(a, b, c) <=> (a >= 225 \/ b >= 160) /\ ~(a = 237 /\ b >= 160)
  BY SMT DEF Three, T
<1>4. IsCodePoint(x, ThreeMinimum) <=> x >= 2048 /\ ~Surrogate(x)
  BY <1>2, CodePoint, SMT DEF Assigned, ThreeMinimum
<1>5. x \in ScalarValues <=> ~Surrogate(x)
  BY <1>2, CodePoint, SMT DEF Assigned
<1>6. ~Astral(x) /\ (x >= 2048 <=> ~Short(x))
  BY <1>2, SMT DEF Astral, Short
<1> QED
  BY <1>1, <1>2, <1>3, <1>4, <1>5, <1>6, SMT

LEMMA FourChecked ==
  ASSUME NEW a \in 240 .. 244, NEW b \in T, NEW c \in T, NEW d \in T
  PROVE  /\ IsCodePoint(FourCode(a, b, c, d), FourMinimum) <=> Four(a, b, c, d)
         /\ Four(a, b, c, d) => FourCode(a, b, c, d) \in ScalarValues /\ Astral(FourCode(a, b, c, d))
<1>1. PICK x : x = FourCode(a, b, c, d)
  OBVIOUS
<1>2. /\ x \in Nat
      /\ IF a >= 241 \/ b >= 144 THEN Astral(x) ELSE ~Astral(x)
      /\ IF a <= 243 \/ b <= 143 THEN Assigned(x) ELSE ~Assigned(x)
  <2>1. ASSUME a >= 241 \/ b >= 144 PROVE Astral(x)
    BY <1>1, <2>1, FourParts, SMT
  <2>2. ASSUME ~(a >= 241 \/ b >= 144) PROVE ~Astral(x)
    BY <1>1, <2>2, FourParts, SMT
  <2>3. ASSUME a <= 243 \/ b <= 143 PROVE Assigned(x)
    BY <1>1, <2>3, FourParts, SMT
  <2>4. ASSUME ~(a <= 243 \/ b <= 143) PROVE ~Assigned(x)
    BY <1>1, <2>4, FourParts, SMT
  <2>5. x \in Nat
    BY <1>1, FourParts, SMT
  <2> QED
    BY <2>1, <2>2, <2>3, <2>4, <2>5, SMT
<1>3. Four(a, b, c, d) <=> (a >= 241 \/ b >= 144) /\ (a <= 243 \/ b <= 143)
  BY SMT DEF Four, T
<1>4. Astral(x) => ~Surrogate(x)
  BY <1>2, SMT DEF Surrogate, Astral
<1>5. IsCodePoint(x, FourMinimum) <=> Astral(x) /\ Assigned(x) /\ ~Surrogate(x)
  <2>1. x >= 65536 <=> Astral(x)
    BY <1>2, SMT DEF Astral
  <2> QED
    BY <1>2, <2>1, CodePoint, SMT DEF FourMinimum
<1>6. x \in ScalarValues <=> Assigned(x) /\ ~Surrogate(x)
  BY <1>2, CodePoint, SMT
<1> QED
  BY <1>1, <1>2, <1>3, <1>4, <1>5, <1>6, SMT

\* What the first byte a announces.
LeadIs(a, n, bits, minimum) ==
    IsLead(a) /\ Lead(a).count = n /\ Lead(a).bits = bits /\ Lead(a).minimum = minimum

\* Lead of a first byte, by the four ranges it can be in.
LEMMA LeadOne ==
  ASSUME NEW a \in 0 .. 127
  PROVE  LeadIs(a, 0, a, 0)
BY SMT DEF LeadIs, IsLead, Lead

LEMMA LeadTwo ==
  ASSUME NEW a \in 194 .. 223, NEW p, p = a - 192
  PROVE  LeadIs(a, 1, p, 128)
<1>1. a % 32 = p
  BY SMT
<1> QED
  BY <1>1, SMT DEF LeadIs, IsLead, Lead

LEMMA LeadThree ==
  ASSUME NEW a \in 224 .. 239, NEW p, p = a - 224
  PROVE  LeadIs(a, 2, p, ThreeMinimum)
<1>1. a % 16 = p
  BY SMT
<1> QED
  BY <1>1, SMT DEF LeadIs, IsLead, Lead, ThreeMinimum, FourMinimum

LEMMA LeadFour ==
  ASSUME NEW a \in 240 .. 244, NEW p, p = a - 240
  PROVE  LeadIs(a, 3, p, FourMinimum)
<1>1. a % 8 = p
  BY SMT
<1> QED
  BY <1>1, SMT DEF LeadIs, IsLead, Lead, ThreeMinimum, FourMinimum

\* The test on two bits is the range of continuation bytes.
LEMMA ContinuationExact ==
  ASSUME NEW b \in 0 .. 255
  PROVE  /\ b \div 64 = 2 <=> b \in T
         /\ b \in T => b % 64 = b - 128
BY SMT DEF T

\* The code point a lead byte and its continuation bytes make.
LEMMA GatheredCases ==
  ASSUME NEW text, NEW i
  PROVE  /\ Gathered(text, i, 0) = Lead(text[i]).bits
         /\ Gathered(text, i, 1) = Lead(text[i]).bits * 64 + (text[i + 1] % 64)
         /\ Gathered(text, i, 2) = Lead(text[i]).bits * 4096 + (text[i + 1] % 64) * 64 + (text[i + 2] % 64)
         /\ Gathered(text, i, 3) = Lead(text[i]).bits * 262144 + (text[i + 1] % 64) * 4096
                                     + (text[i + 2] % 64) * 64 + (text[i + 3] % 64)
<1>1. Gathered(text, i, 0) = Lead(text[i]).bits
  BY SMT DEF Gathered
<1>2. Gathered(text, i, 1) = Lead(text[i]).bits * 64 + (text[i + 1] % 64)
  BY SMT DEF Gathered
<1>3. Gathered(text, i, 2) = Lead(text[i]).bits * 4096 + (text[i + 1] % 64) * 64 + (text[i + 2] % 64)
  BY SMT DEF Gathered
<1>4. Gathered(text, i, 3) = Lead(text[i]).bits * 262144 + (text[i + 1] % 64) * 4096
                                     + (text[i + 2] % 64) * 64 + (text[i + 3] % 64)
  BY SMT DEF Gathered
<1> QED
  BY <1>1, <1>2, <1>3, <1>4, SMT

LEMMA GatheredOne ==
  ASSUME NEW text, NEW i, NEW a \in 0 .. 127, a = text[i]
  PROVE  Gathered(text, i, 0) = a
<1>1. Lead(a).bits = a
  BY LeadOne, Zenon DEF LeadIs
<1> QED
  BY <1>1, GatheredCases, SMT

LEMMA GatheredTwo ==
  ASSUME NEW text, NEW i, text[i] \in 194 .. 223, text[i + 1] \in T
  PROVE  Gathered(text, i, 1) = TwoCode(text[i], text[i + 1])
<1>a. PICK a \in 194 .. 223 : a = text[i]
  BY Zenon
<1>b. PICK b \in T : b = text[i + 1]
  BY Zenon
<1>1. Lead(a).bits = a - 192
  BY LeadTwo, SMT DEF LeadIs
<1>2. b \in 0 .. 255
  BY SMT DEF T
<1>3. b % 64 = b - 128
  BY <1>2, ContinuationExact, SMT
<1>4. Gathered(text, i, 1) = Lead(a).bits * 64 + (b % 64)
  BY <1>a, <1>b, GatheredCases, SMT
<1>5. Gathered(text, i, 1) = TwoCode(a, b)
  BY <1>1, <1>3, <1>4, SMT DEF TwoCode
<1> QED
  BY <1>a, <1>b, <1>5, Zenon

LEMMA GatheredThree ==
  ASSUME NEW text, NEW i, text[i] \in 224 .. 239, text[i + 1] \in T, text[i + 2] \in T
  PROVE  Gathered(text, i, 2) = ThreeCode(text[i], text[i + 1], text[i + 2])
<1>a. PICK a \in 224 .. 239 : a = text[i]
  BY Zenon
<1>b. PICK b \in T : b = text[i + 1]
  BY Zenon
<1>c. PICK c \in T : c = text[i + 2]
  BY Zenon
<1>1. Lead(a).bits = a - 224
  BY LeadThree, SMT DEF LeadIs
<1>2. b \in 0 .. 255 /\ c \in 0 .. 255
  BY SMT DEF T
<1>3. b % 64 = b - 128 /\ c % 64 = c - 128
  BY <1>2, ContinuationExact, SMT
<1>4. Gathered(text, i, 2) = Lead(a).bits * 4096 + (b % 64) * 64 + (c % 64)
  BY <1>a, <1>b, <1>c, GatheredCases, SMT
<1>5. Gathered(text, i, 2) = ThreeCode(a, b, c)
  BY <1>1, <1>3, <1>4, SMT DEF ThreeCode
<1> QED
  BY <1>a, <1>b, <1>c, <1>5, Zenon

LEMMA GatheredFour ==
  ASSUME NEW text, NEW i, text[i] \in 240 .. 244, text[i + 1] \in T, text[i + 2] \in T, text[i + 3] \in T
  PROVE  Gathered(text, i, 3) = FourCode(text[i], text[i + 1], text[i + 2], text[i + 3])
<1>a. PICK a \in 240 .. 244 : a = text[i]
  BY Zenon
<1>b. PICK b \in T : b = text[i + 1]
  BY Zenon
<1>c. PICK c \in T : c = text[i + 2]
  BY Zenon
<1>d. PICK d \in T : d = text[i + 3]
  BY Zenon
<1>1. Lead(a).bits = a - 240
  BY LeadFour, SMT DEF LeadIs
<1>2. b \in 0 .. 255 /\ c \in 0 .. 255 /\ d \in 0 .. 255
  BY SMT DEF T
<1>3. b % 64 = b - 128 /\ c % 64 = c - 128 /\ d % 64 = d - 128
  BY <1>2, ContinuationExact, SMT
<1>4. Gathered(text, i, 3) = Lead(a).bits * 262144 + (b % 64) * 4096 + (c % 64) * 64 + (d % 64)
  BY <1>a, <1>b, <1>c, <1>d, GatheredCases, SMT
<1>5. Gathered(text, i, 3) = FourCode(a, b, c, d)
  BY <1>1, <1>3, <1>4, SMT DEF FourCode
<1> QED
  BY <1>a, <1>b, <1>c, <1>d, <1>5, Zenon

\* The bytes of text from i on, one to four of them, are those of x in the
\* table.
SpellsOne(text, i, x) == i <= Len(text) /\ text[i] <= 127 /\ x = text[i]
SpellsTwo(text, i, x) ==
    /\ i + 1 <= Len(text)
    /\ Two(text[i], text[i + 1])
    /\ x = TwoCode(text[i], text[i + 1])
SpellsThree(text, i, x) ==
    /\ i + 2 <= Len(text)
    /\ text[i + 1] \in T
    /\ Three(text[i], text[i + 1], text[i + 2])
    /\ x = ThreeCode(text[i], text[i + 1], text[i + 2])
SpellsFour(text, i, x) ==
    /\ i + 3 <= Len(text)
    /\ text[i + 1] \in T
    /\ Four(text[i], text[i + 1], text[i + 2], text[i + 3])
    /\ x = FourCode(text[i], text[i + 1], text[i + 2], text[i + 3])

Spells(text, i, m, x) ==
    \/ m = 1 /\ SpellsOne(text, i, x)
    \/ m = 2 /\ SpellsTwo(text, i, x)
    \/ m = 3 /\ SpellsThree(text, i, x)
    \/ m = 4 /\ SpellsFour(text, i, x)

\* What DecodeUtf8CodePoint looks at.
Follows(text, i, n) == Len(text) - i >= n /\ \A k \in 1 .. n : text[i + k] \div 64 = 2

\* DecodeUtf8CodePoint, as cases without its helpers.
LEMMA DecodeCases ==
  ASSUME NEW text, NEW i
  PROVE  DecodeUtf8CodePoint(text, i) =
            IF /\ IsLead(text[i])
               /\ ~(\/ Len(text) - i < Lead(text[i]).count
                    \/ \E k \in 1 .. Lead(text[i]).count : text[i + k] \div 64 # 2)
               /\ ~(/\ Lead(text[i]).count > 0
                    /\ ~IsCodePoint(Gathered(text, i, Lead(text[i]).count), Lead(text[i]).minimum))
            THEN [valid |-> TRUE, code_point |-> Gathered(text, i, Lead(text[i]).count),
                  offset |-> i + Lead(text[i]).count + 1]
            ELSE Invalid
BY DEF DecodeUtf8CodePoint

Decoded(x, offset) == [valid |-> TRUE, code_point |-> x, offset |-> offset]

\* When DecodeUtf8CodePoint looks at n continuation bytes, it takes those that
\* follow and make a code point.
Taken(text, i, n, minimum) ==
    Follows(text, i, n) /\ (n > 0 => IsCodePoint(Gathered(text, i, n), minimum))

LEMMA DecodeCount ==
  ASSUME NEW text \in Seq(0 .. 255), NEW i \in 1 .. Len(text), NEW n \in 0 .. 3,
         NEW bits, NEW minimum, LeadIs(text[i], n, bits, minimum)
  PROVE  DecodeUtf8CodePoint(text, i) =
            IF Taken(text, i, n, minimum) THEN Decoded(Gathered(text, i, n), i + n + 1) ELSE Invalid
<1>1. PICK len \in Nat : len = Len(text)
  BY SMT
<1>2. Len(text) - i < n <=> ~(Len(text) - i >= n)
  BY <1>1, SMT
<1>3. IsLead(text[i]) /\ Lead(text[i]).count = n /\ Lead(text[i]).minimum = minimum
  BY Zenon DEF LeadIs
<1> DEFINE cut == Len(text) - i < n
           broken == \E k \in 1 .. n : text[i + k] \div 64 # 2
           refused == n > 0 /\ ~IsCodePoint(Gathered(text, i, n), minimum)
<1>4. DecodeUtf8CodePoint(text, i) =
          IF IsLead(text[i]) /\ ~(cut \/ broken) /\ ~refused
          THEN [valid |-> TRUE, code_point |-> Gathered(text, i, n), offset |-> i + n + 1]
          ELSE Invalid
  BY <1>3, DecodeCases, Zenon
<1>5. Follows(text, i, n) <=> ~(cut \/ broken)
  BY <1>2, Zenon DEF Follows
<1> HIDE DEF cut, broken
<1> QED
  BY <1>3, <1>4, <1>5, SMT DEF Decoded, Taken

\* A sequence that passes the checks gives its code point and its end.
LEMMA DecodeTaken ==
  ASSUME NEW text \in Seq(0 .. 255), NEW i \in 1 .. Len(text), NEW n \in 0 .. 3,
         NEW bits, NEW minimum, LeadIs(text[i], n, bits, minimum), Taken(text, i, n, minimum)
  PROVE  DecodeUtf8CodePoint(text, i) = Decoded(Gathered(text, i, n), i + n + 1)
BY DecodeCount, Zenon

LEMMA DecodeRefused ==
  ASSUME NEW text \in Seq(0 .. 255), NEW i \in 1 .. Len(text), NEW n \in 0 .. 3,
         NEW bits, NEW minimum, LeadIs(text[i], n, bits, minimum), ~Taken(text, i, n, minimum)
  PROVE  DecodeUtf8CodePoint(text, i) = Invalid
BY DecodeCount, Zenon

\* The continuation bytes behind i are all there.
LEMMA FollowsExact ==
  ASSUME NEW text \in Seq(0 .. 255), NEW i \in 1 .. Len(text), NEW n \in 0 .. 3
  PROVE  Follows(text, i, n) <=> i + n <= Len(text) /\ \A k \in 1 .. n : text[i + k] \in T
<1>1. PICK len \in Nat : len = Len(text)
  BY SMT
<1>2. Len(text) - i >= n <=> i + n <= Len(text)
  BY <1>1, SMT
<1>3. ASSUME NEW k \in 1 .. n, i + n <= Len(text)
      PROVE  text[i + k] \div 64 = 2 <=> text[i + k] \in T
  <2>1. i + k \in 1 .. Len(text)
    BY <1>1, <1>3, SMT
  <2>2. PICK j \in 1 .. Len(text) : j = i + k
    BY <2>1, Zenon
  <2>3. text[j] \in 0 .. 255
    BY ElementOfSeq, Zenon
  <2>4. text[j] \div 64 = 2 <=> text[j] \in T
    BY <2>3, ContinuationExact, Zenon
  <2> QED
    BY <2>2, <2>4, Zenon
<1> QED
  BY <1>2, <1>3, Zenon DEF Follows

LEMMA FollowsCases ==
  ASSUME NEW text \in Seq(0 .. 255), NEW i \in 1 .. Len(text)
  PROVE  /\ Follows(text, i, 0)
         /\ Follows(text, i, 1) <=> i + 1 <= Len(text) /\ text[i + 1] \in T
         /\ Follows(text, i, 2) <=> i + 2 <= Len(text) /\ text[i + 1] \in T /\ text[i + 2] \in T
         /\ Follows(text, i, 3) <=> /\ i + 3 <= Len(text) /\ text[i + 1] \in T
                                    /\ text[i + 2] \in T /\ text[i + 3] \in T
<1>1. /\ 0 \in 0 .. 3 /\ 1 \in 0 .. 3 /\ 2 \in 0 .. 3 /\ 3 \in 0 .. 3
      /\ 1 .. 0 = {} /\ 1 .. 1 = {1} /\ 1 .. 2 = {1, 2} /\ 1 .. 3 = {1, 2, 3}
  BY SMT
<1>2. PICK len \in Nat : len = Len(text)
  BY SMT
<1>3. i + 0 <= Len(text)
  BY <1>2, SMT
<1>4. Follows(text, i, 0)
  BY <1>1, <1>3, FollowsExact, Zenon
<1>5. Follows(text, i, 1) <=> i + 1 <= Len(text) /\ text[i + 1] \in T
  BY <1>1, FollowsExact, Zenon
<1>6. Follows(text, i, 2) <=> i + 2 <= Len(text) /\ text[i + 1] \in T /\ text[i + 2] \in T
  BY <1>1, FollowsExact, Zenon
<1>7. Follows(text, i, 3) <=> /\ i + 3 <= Len(text) /\ text[i + 1] \in T
                              /\ text[i + 2] \in T /\ text[i + 3] \in T
  BY <1>1, FollowsExact, Zenon
<1> QED
  BY <1>4, <1>5, <1>6, <1>7

LEMMA DecodeOne ==
  ASSUME NEW text \in Seq(0 .. 255), NEW i \in 1 .. Len(text), text[i] \in 0 .. 127
  PROVE  \E x \in ScalarValues :
            SpellsOne(text, i, x) /\ DecodeUtf8CodePoint(text, i) = Decoded(x, i + 1)
<1>1. PICK a \in 0 .. 127 : a = text[i]
  BY Zenon
<1>2. LeadIs(text[i], 0, a, 0)
  BY <1>1, LeadOne, Zenon
<1>3. 0 \in 0 .. 3 /\ ~(0 > 0)
  BY SMT
<1>4. PICK next : next = i + 1 /\ next = i + 0 + 1
  BY SMT
<1>5. a = Gathered(text, i, 0)
  BY <1>1, GatheredOne, Zenon
<1>6. Taken(text, i, 0, 0)
  BY <1>3, FollowsCases, Zenon DEF Taken
<1>7. DecodeUtf8CodePoint(text, i) = Decoded(a, next)
  <2>1. DecodeUtf8CodePoint(text, i) = Decoded(Gathered(text, i, 0), i + 0 + 1)
    BY <1>2, <1>3, <1>6, DecodeTaken, Zenon
  <2> QED
    BY <1>4, <1>5, <2>1, Zenon
<1>8. a \in ScalarValues
  <2>1. a \in Nat /\ ~Surrogate(a) /\ Assigned(a)
    BY SMT DEF Surrogate, Assigned
  <2> QED
    BY <2>1, CodePoint, SMT
<1>9. SpellsOne(text, i, a)
  <2>1. i <= Len(text) /\ a <= 127
    BY SMT
  <2> QED
    BY <1>1, <2>1, Zenon DEF SpellsOne
<1> QED
  BY <1>4, <1>7, <1>8, <1>9, Zenon

LEMMA DecodeTwo ==
  ASSUME NEW text \in Seq(0 .. 255), NEW i \in 1 .. Len(text), text[i] \in 194 .. 223
  PROVE  \/ \E x \in ScalarValues :
               SpellsTwo(text, i, x) /\ DecodeUtf8CodePoint(text, i) = Decoded(x, i + 2)
         \/ DecodeUtf8CodePoint(text, i) = Invalid /\ \A x : ~SpellsTwo(text, i, x)
<1>1. PICK a \in 194 .. 223 : a = text[i]
  BY Zenon
<1>2. PICK p : p = a - 192
  BY Zenon
<1>3. LeadIs(text[i], 1, p, 128)
  BY <1>1, <1>2, LeadTwo, Zenon
<1>4. 1 \in 0 .. 3 /\ 1 > 0
  BY SMT
<1>5. PICK next : next = i + 2 /\ next = i + 1 + 1
  BY SMT
<1>6. PICK b : b = text[i + 1]
  BY Zenon
<1>7. Follows(text, i, 1) <=> i + 1 <= Len(text) /\ b \in T
  BY <1>6, FollowsCases, Zenon
<1>8. CASE Follows(text, i, 1) /\ Two(a, b)
  <2>1. PICK x : x = TwoCode(a, b)
    BY Zenon
  <2>2. x = Gathered(text, i, 1)
    BY <1>1, <1>6, <1>7, <1>8, <2>1, GatheredTwo, Zenon
  <2>3. IsCodePoint(x, 128) /\ x \in ScalarValues
    BY <1>7, <1>8, <2>1, TwoChecked, Zenon
  <2>4. Taken(text, i, 1, 128)
    BY <1>8, <2>2, <2>3, Zenon DEF Taken
  <2>5. DecodeUtf8CodePoint(text, i) = Decoded(x, next)
    <3>1. DecodeUtf8CodePoint(text, i) = Decoded(Gathered(text, i, 1), i + 1 + 1)
      BY <1>3, <1>4, <2>4, DecodeTaken, Zenon
    <3> QED
      BY <1>5, <2>2, <3>1, Zenon
  <2>6. SpellsTwo(text, i, x)
    BY <1>1, <1>6, <1>7, <1>8, <2>1, Zenon DEF SpellsTwo
  <2> QED
    BY <1>5, <2>3, <2>5, <2>6, Zenon
<1>9. CASE ~(Follows(text, i, 1) /\ Two(a, b))
  <2>1. ~Taken(text, i, 1, 128)
    <3>1. CASE Follows(text, i, 1)
      BY <1>1, <1>7, <1>9, <3>1, Zenon DEF Two
    <3>2. CASE ~Follows(text, i, 1)
      BY <3>2 DEF Taken
    <3> QED
      BY <3>1, <3>2
  <2>2. DecodeUtf8CodePoint(text, i) = Invalid
    BY <1>3, <1>4, <2>1, DecodeRefused, Zenon
  <2>3. \A x : ~SpellsTwo(text, i, x)
    BY <1>1, <1>6, <1>7, <1>9, Zenon DEF SpellsTwo, Two
  <2> QED
    BY <2>2, <2>3
<1> QED
  BY <1>8, <1>9


LEMMA DecodeThree ==
  ASSUME NEW text \in Seq(0 .. 255), NEW i \in 1 .. Len(text), text[i] \in 224 .. 239
  PROVE  \/ \E x \in ScalarValues :
               SpellsThree(text, i, x) /\ DecodeUtf8CodePoint(text, i) = Decoded(x, i + 3)
         \/ DecodeUtf8CodePoint(text, i) = Invalid /\ \A x : ~SpellsThree(text, i, x)
<1>1. PICK a \in 224 .. 239 : a = text[i]
  BY Zenon
<1>2. PICK p : p = a - 224
  BY Zenon
<1>3. LeadIs(text[i], 2, p, ThreeMinimum)
  BY <1>1, <1>2, LeadThree, Zenon
<1>4. 2 \in 0 .. 3 /\ 2 > 0
  BY SMT
<1>5. PICK next : next = i + 3 /\ next = i + 2 + 1
  BY SMT
<1>6. PICK b : b = text[i + 1]
  BY Zenon
<1>7. PICK c : c = text[i + 2]
  BY Zenon
<1>8. Follows(text, i, 2) <=> i + 2 <= Len(text) /\ b \in T /\ c \in T
  BY <1>6, <1>7, FollowsCases, Zenon
<1>9. CASE Follows(text, i, 2) /\ Three(a, b, c)
  <2>1. PICK x : x = ThreeCode(a, b, c)
    BY Zenon
  <2>2. x = Gathered(text, i, 2)
    BY <1>1, <1>6, <1>7, <1>8, <1>9, <2>1, GatheredThree, Zenon
  <2>3. IsCodePoint(x, ThreeMinimum) /\ x \in ScalarValues
    BY <1>8, <1>9, <2>1, ThreeChecked, Zenon
  <2>4. Taken(text, i, 2, ThreeMinimum)
    BY <1>9, <2>2, <2>3, Zenon DEF Taken
  <2>5. DecodeUtf8CodePoint(text, i) = Decoded(x, next)
    <3>1. DecodeUtf8CodePoint(text, i) = Decoded(Gathered(text, i, 2), i + 2 + 1)
      BY <1>3, <1>4, <2>4, DecodeTaken, Zenon
    <3> QED
      BY <1>5, <2>2, <3>1, Zenon
  <2>6. SpellsThree(text, i, x)
    BY <1>1, <1>6, <1>7, <1>8, <1>9, <2>1, Zenon DEF SpellsThree
  <2> QED
    BY <1>5, <2>3, <2>5, <2>6, Zenon
<1>10. CASE ~(Follows(text, i, 2) /\ Three(a, b, c))
  <2>1. ~Taken(text, i, 2, ThreeMinimum)
    <3>1. CASE Follows(text, i, 2)
      <4>1. PICK x : x = ThreeCode(a, b, c)
        BY Zenon
      <4>2. x = Gathered(text, i, 2)
        BY <1>1, <1>6, <1>7, <1>8, <3>1, <4>1, GatheredThree, Zenon
      <4>3. ~IsCodePoint(x, ThreeMinimum)
        BY <1>8, <1>10, <3>1, <4>1, ThreeChecked, Zenon
      <4> QED
        BY <1>4, <4>2, <4>3, Zenon DEF Taken
    <3>2. CASE ~Follows(text, i, 2)
      BY <3>2 DEF Taken
    <3> QED
      BY <3>1, <3>2
  <2>2. DecodeUtf8CodePoint(text, i) = Invalid
    BY <1>3, <1>4, <2>1, DecodeRefused, Zenon
  <2>3. \A x : ~SpellsThree(text, i, x)
    BY <1>1, <1>6, <1>7, <1>8, <1>10, Zenon DEF SpellsThree, Three
  <2> QED
    BY <2>2, <2>3
<1> QED
  BY <1>9, <1>10


LEMMA DecodeFour ==
  ASSUME NEW text \in Seq(0 .. 255), NEW i \in 1 .. Len(text), text[i] \in 240 .. 244
  PROVE  \/ \E x \in ScalarValues :
               SpellsFour(text, i, x) /\ DecodeUtf8CodePoint(text, i) = Decoded(x, i + 4)
         \/ DecodeUtf8CodePoint(text, i) = Invalid /\ \A x : ~SpellsFour(text, i, x)
<1>1. PICK a \in 240 .. 244 : a = text[i]
  BY Zenon
<1>2. PICK p : p = a - 240
  BY Zenon
<1>3. LeadIs(text[i], 3, p, FourMinimum)
  BY <1>1, <1>2, LeadFour, Zenon
<1>4. 3 \in 0 .. 3 /\ 3 > 0
  BY SMT
<1>5. PICK next : next = i + 4 /\ next = i + 3 + 1
  BY SMT
<1>6. PICK b : b = text[i + 1]
  BY Zenon
<1>7. PICK c : c = text[i + 2]
  BY Zenon
<1>8. PICK d : d = text[i + 3]
  BY Zenon
<1>9. Follows(text, i, 3) <=> i + 3 <= Len(text) /\ b \in T /\ c \in T /\ d \in T
  BY <1>6, <1>7, <1>8, FollowsCases, Zenon
<1>10. CASE Follows(text, i, 3) /\ Four(a, b, c, d)
  <2>1. PICK x : x = FourCode(a, b, c, d)
    BY Zenon
  <2>2. x = Gathered(text, i, 3)
    BY <1>1, <1>6, <1>7, <1>8, <1>9, <1>10, <2>1, GatheredFour, Zenon
  <2>3. IsCodePoint(x, FourMinimum) /\ x \in ScalarValues
    BY <1>9, <1>10, <2>1, FourChecked, Zenon
  <2>4. Taken(text, i, 3, FourMinimum)
    BY <1>10, <2>2, <2>3, Zenon DEF Taken
  <2>5. DecodeUtf8CodePoint(text, i) = Decoded(x, next)
    <3>1. DecodeUtf8CodePoint(text, i) = Decoded(Gathered(text, i, 3), i + 3 + 1)
      BY <1>3, <1>4, <2>4, DecodeTaken, Zenon
    <3> QED
      BY <1>5, <2>2, <3>1, Zenon
  <2>6. SpellsFour(text, i, x)
    BY <1>1, <1>6, <1>7, <1>8, <1>9, <1>10, <2>1, Zenon DEF SpellsFour
  <2> QED
    BY <1>5, <2>3, <2>5, <2>6, Zenon
<1>11. CASE ~(Follows(text, i, 3) /\ Four(a, b, c, d))
  <2>1. ~Taken(text, i, 3, FourMinimum)
    <3>1. CASE Follows(text, i, 3)
      <4>1. PICK x : x = FourCode(a, b, c, d)
        BY Zenon
      <4>2. x = Gathered(text, i, 3)
        BY <1>1, <1>6, <1>7, <1>8, <1>9, <3>1, <4>1, GatheredFour, Zenon
      <4>3. ~IsCodePoint(x, FourMinimum)
        BY <1>9, <1>11, <3>1, <4>1, FourChecked, Zenon
      <4> QED
        BY <1>4, <4>2, <4>3, Zenon DEF Taken
    <3>2. CASE ~Follows(text, i, 3)
      BY <3>2 DEF Taken
    <3> QED
      BY <3>1, <3>2
  <2>2. DecodeUtf8CodePoint(text, i) = Invalid
    BY <1>3, <1>4, <2>1, DecodeRefused, Zenon
  <2>3. \A x : ~SpellsFour(text, i, x)
    BY <1>1, <1>6, <1>7, <1>8, <1>9, <1>11, Zenon DEF SpellsFour, Four
  <2> QED
    BY <2>2, <2>3
<1> QED
  BY <1>10, <1>11

\* The first bytes of the four lengths are different ones.
Kind(a, m) ==
    \/ m = 1 /\ a \in 0 .. 127
    \/ m = 2 /\ a \in 194 .. 223
    \/ m = 3 /\ a \in 224 .. 239
    \/ m = 4 /\ a \in 240 .. 244

\* The four kinds of first bytes exclude each other.
LEMMA KindUnique ==
  ASSUME NEW a, NEW m, NEW k, Kind(a, m), Kind(a, k)
  PROVE  m = k
BY SMT DEF Kind

LEMMA KindLead ==
  ASSUME NEW a, NEW m, Kind(a, m)
  PROVE  IsLead(a)
BY SMT DEF Kind, IsLead

LEMMA LeadKind ==
  ASSUME NEW a \in 0 .. 255, IsLead(a)
  PROVE  Kind(a, 1) \/ Kind(a, 2) \/ Kind(a, 3) \/ Kind(a, 4)
BY SMT DEF Kind, IsLead

LEMMA KindCases ==
  ASSUME NEW a
  PROVE  /\ Kind(a, 1) <=> a \in 0 .. 127
         /\ Kind(a, 2) <=> a \in 194 .. 223
         /\ Kind(a, 3) <=> a \in 224 .. 239
         /\ Kind(a, 4) <=> a \in 240 .. 244
BY SMT DEF Kind

LEMMA SpellsCases ==
  ASSUME NEW text, NEW i, NEW x
  PROVE  /\ Spells(text, i, 1, x) <=> SpellsOne(text, i, x)
         /\ Spells(text, i, 2, x) <=> SpellsTwo(text, i, x)
         /\ Spells(text, i, 3, x) <=> SpellsThree(text, i, x)
         /\ Spells(text, i, 4, x) <=> SpellsFour(text, i, x)
<1>1. 1 # 2 /\ 1 # 3 /\ 1 # 4 /\ 2 # 3 /\ 2 # 4 /\ 3 # 4
  BY SMT
<1> QED
  BY <1>1, Zenon DEF Spells

LEMMA SpellsLength ==
  ASSUME NEW text, NEW i, NEW m, NEW x, Spells(text, i, m, x)
  PROVE  m = 1 \/ m = 2 \/ m = 3 \/ m = 4
BY Zenon DEF Spells

LEMMA RowKinds ==
  ASSUME NEW a, NEW b, NEW c, NEW d
  PROVE  /\ a \in 0 .. 255 /\ a <= 127 => Kind(a, 1)
         /\ Two(a, b) => Kind(a, 2)
         /\ Three(a, b, c) => Kind(a, 3)
         /\ Four(a, b, c, d) => Kind(a, 4)
<1>1. a \in 0 .. 255 /\ a <= 127 => Kind(a, 1)
  BY SMT DEF Kind
<1>2. Two(a, b) => Kind(a, 2)
  BY SMT DEF Kind, Two
<1>3. Three(a, b, c) => Kind(a, 3)
  BY SMT DEF Kind, Three
<1>4. Four(a, b, c, d) => Kind(a, 4)
  BY SMT DEF Kind, Four
<1> QED
  BY <1>1, <1>2, <1>3, <1>4

LEMMA SpellsKind ==
  ASSUME NEW text \in Seq(0 .. 255), NEW i \in 1 .. Len(text), NEW m, NEW x, Spells(text, i, m, x)
  PROVE  Kind(text[i], m)
<1>1. text[i] \in 0 .. 255
  BY ElementOfSeq, Zenon
<1>2. CASE m = 1
  BY <1>1, <1>2, SpellsCases, RowKinds, Zenon DEF SpellsOne
<1>3. CASE m = 2
  BY <1>3, SpellsCases, RowKinds, Zenon DEF SpellsTwo
<1>4. CASE m = 3
  BY <1>4, SpellsCases, RowKinds, Zenon DEF SpellsThree
<1>5. CASE m = 4
  BY <1>5, SpellsCases, RowKinds, Zenon DEF SpellsFour
<1> QED
  BY <1>2, <1>3, <1>4, <1>5, SpellsLength, Zenon

\* At most one code point is spelled at a place, with one length.
LEMMA SpellsUnique ==
  ASSUME NEW text \in Seq(0 .. 255), NEW i \in 1 .. Len(text), NEW m, NEW x, NEW k, NEW y,
         Spells(text, i, m, x), Spells(text, i, k, y)
  PROVE  m = k /\ x = y
<1>1. m = k
  BY SpellsKind, KindUnique, Zenon
<1>2. Spells(text, i, m, x) /\ Spells(text, i, m, y)
  BY <1>1, Zenon
<1>3. CASE m = 1
  <2>1. SpellsOne(text, i, x) /\ SpellsOne(text, i, y)
    BY <1>2, <1>3, SpellsCases, Zenon
  <2> QED
    BY <1>1, <2>1, Zenon DEF SpellsOne
<1>4. CASE m = 2
  <2>1. SpellsTwo(text, i, x) /\ SpellsTwo(text, i, y)
    BY <1>2, <1>4, SpellsCases, Zenon
  <2> QED
    BY <1>1, <2>1, Zenon DEF SpellsTwo
<1>5. CASE m = 3
  <2>1. SpellsThree(text, i, x) /\ SpellsThree(text, i, y)
    BY <1>2, <1>5, SpellsCases, Zenon
  <2> QED
    BY <1>1, <2>1, Zenon DEF SpellsThree
<1>6. CASE m = 4
  <2>1. SpellsFour(text, i, x) /\ SpellsFour(text, i, y)
    BY <1>2, <1>6, SpellsCases, Zenon
  <2> QED
    BY <1>1, <2>1, Zenon DEF SpellsFour
<1> QED
  BY <1>3, <1>4, <1>5, <1>6, SpellsLength, Zenon

\* DecodeUtf8CodePoint takes what the table lists, and nothing else.
LEMMA DecodeExact ==
  ASSUME NEW text \in Seq(0 .. 255), NEW i \in 1 .. Len(text)
  PROVE  \/ \E m \in 1 .. 4 : \E x \in ScalarValues :
               Spells(text, i, m, x) /\ DecodeUtf8CodePoint(text, i) = Decoded(x, i + m)
         \/ DecodeUtf8CodePoint(text, i) = Invalid /\ \A m, x : ~Spells(text, i, m, x)
<1>1. 1 \in 1 .. 4 /\ 2 \in 1 .. 4 /\ 3 \in 1 .. 4 /\ 4 \in 1 .. 4
  BY SMT
<1>2. text[i] \in 0 .. 255
  BY ElementOfSeq, Zenon
<1>3. ASSUME NEW k, Kind(text[i], k), \A y : ~Spells(text, i, k, y)
      PROVE  \A m, x : ~Spells(text, i, m, x)
  BY <1>3, SpellsKind, KindUnique, Zenon
<1>4. CASE Kind(text[i], 1)
  <2>1. PICK x \in ScalarValues :
           SpellsOne(text, i, x) /\ DecodeUtf8CodePoint(text, i) = Decoded(x, i + 1)
    BY <1>4, KindCases, DecodeOne, Zenon
  <2> QED
    BY <1>1, <2>1, SpellsCases, Zenon
<1>5. CASE Kind(text[i], 2)
  <2>1. text[i] \in 194 .. 223
    BY <1>5, SMT DEF Kind
  <2>2. CASE DecodeUtf8CodePoint(text, i) = Invalid /\ \A x : ~SpellsTwo(text, i, x)
    <3>1. \A y : ~Spells(text, i, 2, y)
      BY <2>2, SpellsCases, Zenon
    <3> QED
      BY <1>3, <1>5, <2>2, <3>1, Zenon
  <2>3. CASE \E x \in ScalarValues :
                SpellsTwo(text, i, x) /\ DecodeUtf8CodePoint(text, i) = Decoded(x, i + 2)
    BY <1>1, <2>3, SpellsCases, Zenon
  <2> QED
    BY <2>1, <2>2, <2>3, DecodeTwo, Zenon
<1>6. CASE Kind(text[i], 3)
  <2>1. text[i] \in 224 .. 239
    BY <1>6, SMT DEF Kind
  <2>2. CASE DecodeUtf8CodePoint(text, i) = Invalid /\ \A x : ~SpellsThree(text, i, x)
    <3>1. \A y : ~Spells(text, i, 3, y)
      BY <2>2, SpellsCases, Zenon
    <3> QED
      BY <1>3, <1>6, <2>2, <3>1, Zenon
  <2>3. CASE \E x \in ScalarValues :
                SpellsThree(text, i, x) /\ DecodeUtf8CodePoint(text, i) = Decoded(x, i + 3)
    BY <1>1, <2>3, SpellsCases, Zenon
  <2> QED
    BY <2>1, <2>2, <2>3, DecodeThree, Zenon
<1>7. CASE Kind(text[i], 4)
  <2>1. text[i] \in 240 .. 244
    BY <1>7, SMT DEF Kind
  <2>2. CASE DecodeUtf8CodePoint(text, i) = Invalid /\ \A x : ~SpellsFour(text, i, x)
    <3>1. \A y : ~Spells(text, i, 4, y)
      BY <2>2, SpellsCases, Zenon
    <3> QED
      BY <1>3, <1>7, <2>2, <3>1, Zenon
  <2>3. CASE \E x \in ScalarValues :
                SpellsFour(text, i, x) /\ DecodeUtf8CodePoint(text, i) = Decoded(x, i + 4)
    BY <1>1, <2>3, SpellsCases, Zenon
  <2> QED
    BY <2>1, <2>2, <2>3, DecodeFour, Zenon
<1>8. CASE ~IsLead(text[i])
  <2>1. DecodeUtf8CodePoint(text, i) = Invalid
    BY <1>8, Zenon DEF DecodeUtf8CodePoint
  <2> QED
    BY <1>8, <2>1, SpellsKind, KindLead, Zenon
<1> QED
  BY <1>2, <1>4, <1>5, <1>6, <1>7, <1>8, LeadKind, Zenon

\* Where a row of the table fits.
Fits(text, i, row) ==
    i + Len(row) <= Len(text) + 1 /\ \A k \in DOMAIN row : text[i + k - 1] \in row[k]

\* A row of the table fits, byte by byte.
LEMMA FitsCases ==
  ASSUME NEW text \in Seq(0 .. 255), NEW i \in 1 .. Len(text), NEW A, NEW B, NEW C, NEW D
  PROVE  /\ Fits(text, i, <<A>>) <=> text[i] \in A
         /\ Fits(text, i, <<A, B>>) <=> i + 1 <= Len(text) /\ text[i] \in A /\ text[i + 1] \in B
         /\ Fits(text, i, <<A, B, C>>) <=> /\ i + 2 <= Len(text)
                                           /\ text[i] \in A /\ text[i + 1] \in B /\ text[i + 2] \in C
         /\ Fits(text, i, <<A, B, C, D>>) <=> /\ i + 3 <= Len(text)
                                              /\ text[i] \in A /\ text[i + 1] \in B
                                              /\ text[i + 2] \in C /\ text[i + 3] \in D
<1>1. PICK len \in Nat : len = Len(text)
  BY SMT
<1>2. /\ i + 1 <= len + 1 <=> TRUE
      /\ i + 2 <= len + 1 <=> i + 1 <= len
      /\ i + 3 <= len + 1 <=> i + 2 <= len
      /\ i + 4 <= len + 1 <=> i + 3 <= len
      /\ i + 1 - 1 = i /\ i + 2 - 1 = i + 1 /\ i + 3 - 1 = i + 2 /\ i + 4 - 1 = i + 3
  BY <1>1, SMT
<1>3. Fits(text, i, <<A>>) <=> text[i] \in A
  <2>1. Len(<<A>>) = 1 /\ DOMAIN <<A>> = {1} /\ <<A>>[1] = A
    BY SMT
  <2> QED
    BY <1>1, <1>2, <2>1, Zenon DEF Fits
<1>4. Fits(text, i, <<A, B>>) <=> i + 1 <= Len(text) /\ text[i] \in A /\ text[i + 1] \in B
  <2>1. Len(<<A, B>>) = 2 /\ DOMAIN <<A, B>> = {1, 2} /\ <<A, B>>[1] = A /\ <<A, B>>[2] = B
    BY SMT
  <2> QED
    BY <1>1, <1>2, <2>1, Zenon DEF Fits
<1>5. Fits(text, i, <<A, B, C>>) <=> /\ i + 2 <= Len(text)
                                     /\ text[i] \in A /\ text[i + 1] \in B /\ text[i + 2] \in C
  <2>1. /\ Len(<<A, B, C>>) = 3 /\ DOMAIN <<A, B, C>> = {1, 2, 3}
        /\ <<A, B, C>>[1] = A /\ <<A, B, C>>[2] = B /\ <<A, B, C>>[3] = C
    BY SMT
  <2> QED
    BY <1>1, <1>2, <2>1, Zenon DEF Fits
<1>6. Fits(text, i, <<A, B, C, D>>) <=> /\ i + 3 <= Len(text)
                                        /\ text[i] \in A /\ text[i + 1] \in B
                                        /\ text[i + 2] \in C /\ text[i + 3] \in D
  <2>1. /\ Len(<<A, B, C, D>>) = 4 /\ DOMAIN <<A, B, C, D>> = {1, 2, 3, 4}
        /\ <<A, B, C, D>>[1] = A /\ <<A, B, C, D>>[2] = B /\ <<A, B, C, D>>[3] = C
        /\ <<A, B, C, D>>[4] = D
    BY SMT
  <2> QED
    BY <1>1, <1>2, <2>1, Zenon DEF Fits
<1> QED
  BY <1>3, <1>4, <1>5, <1>6

\* The sets of the table, after the bytes in them.
Ascii   == 0 .. 127
C2toDF  == 194 .. 223
E0      == {224}
AfterE0 == 160 .. 191
E1toEC  == 225 .. 236
ED      == {237}
AfterED == 128 .. 159
EEtoEF  == 238 .. 239
F0      == {240}
AfterF0 == 144 .. 191
F1toF3  == 241 .. 243
F4      == {244}
AfterF4 == 128 .. 143

LEMMA WellFormedRows ==
  WellFormed = {
      <<Ascii>>, <<C2toDF, T>>,
      <<E0, AfterE0, T>>, <<E1toEC, T, T>>, <<ED, AfterED, T>>, <<EEtoEF, T, T>>,
      <<F0, AfterF0, T, T>>, <<F1toF3, T, T, T>>, <<F4, AfterF4, T, T>> }
BY DEF WellFormed, Ascii, C2toDF, E0, AfterE0, E1toEC, ED, AfterED, EEtoEF, F0, AfterF0, F1toF3,
       F4, AfterF4

LEMMA OneTwoRows ==
  ASSUME NEW a, NEW b
  PROVE  /\ Kind(a, 1) <=> a \in Ascii
         /\ Two(a, b) <=> a \in C2toDF /\ b \in T
BY SMT DEF Kind, Two, Ascii, C2toDF
\* A row of the table and the code points it is for.
LEMMA TableSpells ==
  ASSUME NEW text \in Seq(0 .. 255), NEW i \in 1 .. Len(text)
  PROVE  /\ Kind(text[i], 1) => \E x \in ScalarValues : Spells(text, i, 1, x)
         /\ i + 1 <= Len(text) /\ Two(text[i], text[i + 1])
               => \E x \in ScalarValues : Spells(text, i, 2, x)
         /\ i + 2 <= Len(text) /\ text[i + 1] \in T /\ Three(text[i], text[i + 1], text[i + 2])
               => \E x \in ScalarValues : Spells(text, i, 3, x)
         /\ i + 3 <= Len(text) /\ text[i + 1] \in T /\ Four(text[i], text[i + 1], text[i + 2], text[i + 3])
               => \E x \in ScalarValues : Spells(text, i, 4, x)
<1>1. ASSUME Kind(text[i], 1)
      PROVE  \E x \in ScalarValues : Spells(text, i, 1, x)
  BY <1>1, DecodeOne, KindCases, SpellsCases, Zenon
<1>2. ASSUME i + 1 <= Len(text), Two(text[i], text[i + 1])
      PROVE  \E x \in ScalarValues : Spells(text, i, 2, x)
  <2>1. TwoCode(text[i], text[i + 1]) \in ScalarValues
    BY <1>2, TwoChecked, Zenon DEF Two
  <2>2. SpellsTwo(text, i, TwoCode(text[i], text[i + 1]))
    BY <1>2, Zenon DEF SpellsTwo
  <2> QED
    BY <2>1, <2>2, SpellsCases, Zenon
<1>3. ASSUME i + 2 <= Len(text), text[i + 1] \in T, Three(text[i], text[i + 1], text[i + 2])
      PROVE  \E x \in ScalarValues : Spells(text, i, 3, x)
  <2>1. text[i] \in 224 .. 239 /\ text[i + 2] \in T
    <3>1. Kind(text[i], 3)
      BY <1>3, RowKinds, Zenon
    <3>2. text[i] \in 224 .. 239
      BY <3>1, SMT DEF Kind
    <3> QED
      BY <1>3, <3>2, Zenon DEF Three
  <2>2. ThreeCode(text[i], text[i + 1], text[i + 2]) \in ScalarValues
    BY <1>3, <2>1, ThreeChecked, Zenon
  <2>3. SpellsThree(text, i, ThreeCode(text[i], text[i + 1], text[i + 2]))
    BY <1>3, Zenon DEF SpellsThree
  <2> QED
    BY <2>2, <2>3, SpellsCases, Zenon
<1>4. ASSUME i + 3 <= Len(text), text[i + 1] \in T,
             Four(text[i], text[i + 1], text[i + 2], text[i + 3])
      PROVE  \E x \in ScalarValues : Spells(text, i, 4, x)
  <2>1. text[i] \in 240 .. 244 /\ text[i + 2] \in T /\ text[i + 3] \in T
    <3>1. Kind(text[i], 4)
      BY <1>4, RowKinds, Zenon
    <3>2. text[i] \in 240 .. 244
      BY <3>1, SMT DEF Kind
    <3> QED
      BY <1>4, <3>2, Zenon DEF Four
  <2>2. FourCode(text[i], text[i + 1], text[i + 2], text[i + 3]) \in ScalarValues
    BY <1>4, <2>1, FourChecked, Zenon
  <2>3. SpellsFour(text, i, FourCode(text[i], text[i + 1], text[i + 2], text[i + 3]))
    BY <1>4, Zenon DEF SpellsFour
  <2> QED
    BY <2>2, <2>3, SpellsCases, Zenon
<1> QED
  BY <1>1, <1>2, <1>3, <1>4, SMT

LEMMA ThreeRows ==
  ASSUME NEW a, NEW b, NEW c
  PROVE  b \in T /\ Three(a, b, c) <=>
            \/ a \in E0 /\ b \in AfterE0 /\ c \in T
            \/ a \in E1toEC /\ b \in T /\ c \in T
            \/ a \in ED /\ b \in AfterED /\ c \in T
            \/ a \in EEtoEF /\ b \in T /\ c \in T
BY SMT DEF Three, T, E0, AfterE0, E1toEC, ED, AfterED, EEtoEF

LEMMA FourRows ==
  ASSUME NEW a, NEW b, NEW c, NEW d
  PROVE  b \in T /\ Four(a, b, c, d) <=>
            \/ a \in F0 /\ b \in AfterF0 /\ c \in T /\ d \in T
            \/ a \in F1toF3 /\ b \in T /\ c \in T /\ d \in T
            \/ a \in F4 /\ b \in AfterF4 /\ c \in T /\ d \in T
BY SMT DEF Four, T, F0, AfterF0, F1toF3, F4, AfterF4

\* Where a row of the table fits, a code point is spelled.
LEMMA RowSpells ==
  ASSUME NEW text \in Seq(0 .. 255), NEW i \in 1 .. Len(text),
         NEW row \in WellFormed, Fits(text, i, row)
  PROVE  \E x \in ScalarValues : Spells(text, i, Len(row), x)
<1>1. CASE row = <<Ascii>>
  <2>1. Len(row) = 1
    BY <1>1, SMT
  <2>2. text[i] \in Ascii
    BY <1>1, FitsCases, Zenon
  <2> QED
    BY <2>1, <2>2, OneTwoRows, TableSpells, Zenon
<1>2. CASE row = <<C2toDF, T>>
  <2>1. Len(row) = 2
    BY <1>2, SMT
  <2>2. i + 1 <= Len(text) /\ text[i] \in C2toDF /\ text[i + 1] \in T
    BY <1>2, FitsCases, Zenon
  <2> QED
    BY <2>1, <2>2, OneTwoRows, TableSpells, Zenon
<1>3. CASE row = <<E0, AfterE0, T>>
  <2>1. Len(row) = 3
    BY <1>3, SMT
  <2>2. i + 2 <= Len(text) /\ text[i] \in E0 /\ text[i + 1] \in AfterE0 /\ text[i + 2] \in T
    BY <1>3, FitsCases, Zenon
  <2>3. text[i + 1] \in T /\ Three(text[i], text[i + 1], text[i + 2])
    BY <2>2, ThreeRows, Zenon
  <2> QED
    BY <2>1, <2>2, <2>3, TableSpells, Zenon
<1>4. CASE row = <<E1toEC, T, T>>
  <2>1. Len(row) = 3
    BY <1>4, SMT
  <2>2. i + 2 <= Len(text) /\ text[i] \in E1toEC /\ text[i + 1] \in T /\ text[i + 2] \in T
    BY <1>4, FitsCases, Zenon
  <2>3. text[i + 1] \in T /\ Three(text[i], text[i + 1], text[i + 2])
    BY <2>2, ThreeRows, Zenon
  <2> QED
    BY <2>1, <2>2, <2>3, TableSpells, Zenon
<1>5. CASE row = <<ED, AfterED, T>>
  <2>1. Len(row) = 3
    BY <1>5, SMT
  <2>2. i + 2 <= Len(text) /\ text[i] \in ED /\ text[i + 1] \in AfterED /\ text[i + 2] \in T
    BY <1>5, FitsCases, Zenon
  <2>3. text[i + 1] \in T /\ Three(text[i], text[i + 1], text[i + 2])
    BY <2>2, ThreeRows, Zenon
  <2> QED
    BY <2>1, <2>2, <2>3, TableSpells, Zenon
<1>6. CASE row = <<EEtoEF, T, T>>
  <2>1. Len(row) = 3
    BY <1>6, SMT
  <2>2. i + 2 <= Len(text) /\ text[i] \in EEtoEF /\ text[i + 1] \in T /\ text[i + 2] \in T
    BY <1>6, FitsCases, Zenon
  <2>3. text[i + 1] \in T /\ Three(text[i], text[i + 1], text[i + 2])
    BY <2>2, ThreeRows, Zenon
  <2> QED
    BY <2>1, <2>2, <2>3, TableSpells, Zenon
<1>7. CASE row = <<F0, AfterF0, T, T>>
  <2>1. Len(row) = 4
    BY <1>7, SMT
  <2>2. i + 3 <= Len(text) /\ text[i] \in F0 /\ text[i + 1] \in AfterF0 /\ text[i + 2] \in T /\ text[i + 3] \in T
    BY <1>7, FitsCases, Zenon
  <2>3. text[i + 1] \in T /\ Four(text[i], text[i + 1], text[i + 2], text[i + 3])
    BY <2>2, FourRows, Zenon
  <2> QED
    BY <2>1, <2>2, <2>3, TableSpells, Zenon
<1>8. CASE row = <<F1toF3, T, T, T>>
  <2>1. Len(row) = 4
    BY <1>8, SMT
  <2>2. i + 3 <= Len(text) /\ text[i] \in F1toF3 /\ text[i + 1] \in T /\ text[i + 2] \in T /\ text[i + 3] \in T
    BY <1>8, FitsCases, Zenon
  <2>3. text[i + 1] \in T /\ Four(text[i], text[i + 1], text[i + 2], text[i + 3])
    BY <2>2, FourRows, Zenon
  <2> QED
    BY <2>1, <2>2, <2>3, TableSpells, Zenon
<1>9. CASE row = <<F4, AfterF4, T, T>>
  <2>1. Len(row) = 4
    BY <1>9, SMT
  <2>2. i + 3 <= Len(text) /\ text[i] \in F4 /\ text[i + 1] \in AfterF4 /\ text[i + 2] \in T /\ text[i + 3] \in T
    BY <1>9, FitsCases, Zenon
  <2>3. text[i + 1] \in T /\ Four(text[i], text[i + 1], text[i + 2], text[i + 3])
    BY <2>2, FourRows, Zenon
  <2> QED
    BY <2>1, <2>2, <2>3, TableSpells, Zenon
<1> QED
  BY <1>1, <1>2, <1>3, <1>4, <1>5, <1>6, <1>7, <1>8, <1>9, WellFormedRows, Zenon

\* And conversely.
LEMMA SpellsRow ==
  ASSUME NEW text \in Seq(0 .. 255), NEW i \in 1 .. Len(text), NEW m, NEW x, Spells(text, i, m, x)
  PROVE  \E row \in WellFormed : Len(row) = m /\ Fits(text, i, row)
<1>1. <<Ascii>> \in WellFormed /\ Len(<<Ascii>>) = 1
  <2>1. Len(<<Ascii>>) = 1
    BY SMT
  <2> QED
    BY <2>1, WellFormedRows, Zenon
<1>2. <<C2toDF, T>> \in WellFormed /\ Len(<<C2toDF, T>>) = 2
  <2>1. Len(<<C2toDF, T>>) = 2
    BY SMT
  <2> QED
    BY <2>1, WellFormedRows, Zenon
<1>3. <<E0, AfterE0, T>> \in WellFormed /\ Len(<<E0, AfterE0, T>>) = 3
  <2>1. Len(<<E0, AfterE0, T>>) = 3
    BY SMT
  <2> QED
    BY <2>1, WellFormedRows, Zenon
<1>4. <<E1toEC, T, T>> \in WellFormed /\ Len(<<E1toEC, T, T>>) = 3
  <2>1. Len(<<E1toEC, T, T>>) = 3
    BY SMT
  <2> QED
    BY <2>1, WellFormedRows, Zenon
<1>5. <<ED, AfterED, T>> \in WellFormed /\ Len(<<ED, AfterED, T>>) = 3
  <2>1. Len(<<ED, AfterED, T>>) = 3
    BY SMT
  <2> QED
    BY <2>1, WellFormedRows, Zenon
<1>6. <<EEtoEF, T, T>> \in WellFormed /\ Len(<<EEtoEF, T, T>>) = 3
  <2>1. Len(<<EEtoEF, T, T>>) = 3
    BY SMT
  <2> QED
    BY <2>1, WellFormedRows, Zenon
<1>7. <<F0, AfterF0, T, T>> \in WellFormed /\ Len(<<F0, AfterF0, T, T>>) = 4
  <2>1. Len(<<F0, AfterF0, T, T>>) = 4
    BY SMT
  <2> QED
    BY <2>1, WellFormedRows, Zenon
<1>8. <<F1toF3, T, T, T>> \in WellFormed /\ Len(<<F1toF3, T, T, T>>) = 4
  <2>1. Len(<<F1toF3, T, T, T>>) = 4
    BY SMT
  <2> QED
    BY <2>1, WellFormedRows, Zenon
<1>9. <<F4, AfterF4, T, T>> \in WellFormed /\ Len(<<F4, AfterF4, T, T>>) = 4
  <2>1. Len(<<F4, AfterF4, T, T>>) = 4
    BY SMT
  <2> QED
    BY <2>1, WellFormedRows, Zenon
<1>10. CASE m = 1
  <2>1. SpellsOne(text, i, x)
    BY <1>10, SpellsCases, Zenon
  <2>2. text[i] \in Ascii
    BY <1>10, SpellsKind, OneTwoRows, Zenon
  <2> QED
    BY <1>1, <1>10, <2>2, FitsCases, Zenon
<1>11. CASE m = 2
  <2>1. SpellsTwo(text, i, x)
    BY <1>11, SpellsCases, Zenon
  <2>2. i + 1 <= Len(text) /\ Two(text[i], text[i + 1])
    BY <2>1, Zenon DEF SpellsTwo
  <2>3. text[i] \in C2toDF /\ text[i + 1] \in T
    BY <2>2, OneTwoRows, Zenon
  <2> QED
    BY <1>2, <1>11, <2>2, <2>3, FitsCases, Zenon
<1>12. CASE m = 3
  <2>1. i + 2 <= Len(text) /\ text[i + 1] \in T /\ Three(text[i], text[i + 1], text[i + 2])
    BY <1>12, SpellsCases, Zenon DEF SpellsThree
  <2>2. CASE text[i] \in E0 /\ text[i + 1] \in AfterE0 /\ text[i + 2] \in T
    BY <1>3, <1>12, <2>1, <2>2, FitsCases, Zenon
  <2>3. CASE text[i] \in E1toEC /\ text[i + 1] \in T /\ text[i + 2] \in T
    BY <1>4, <1>12, <2>1, <2>3, FitsCases, Zenon
  <2>4. CASE text[i] \in ED /\ text[i + 1] \in AfterED /\ text[i + 2] \in T
    BY <1>5, <1>12, <2>1, <2>4, FitsCases, Zenon
  <2>5. CASE text[i] \in EEtoEF /\ text[i + 1] \in T /\ text[i + 2] \in T
    BY <1>6, <1>12, <2>1, <2>5, FitsCases, Zenon
  <2>6. \/ text[i] \in E0 /\ text[i + 1] \in AfterE0 /\ text[i + 2] \in T
        \/ text[i] \in E1toEC /\ text[i + 1] \in T /\ text[i + 2] \in T
        \/ text[i] \in ED /\ text[i + 1] \in AfterED /\ text[i + 2] \in T
        \/ text[i] \in EEtoEF /\ text[i + 1] \in T /\ text[i + 2] \in T
    BY <2>1, ThreeRows, Zenon
  <2> QED
    BY <2>2, <2>3, <2>4, <2>5, <2>6, Zenon
<1>13. CASE m = 4
  <2>1. /\ i + 3 <= Len(text) /\ text[i + 1] \in T
        /\ Four(text[i], text[i + 1], text[i + 2], text[i + 3])
    BY <1>13, SpellsCases, Zenon DEF SpellsFour
  <2>2. CASE /\ text[i] \in F0 /\ text[i + 1] \in AfterF0
             /\ text[i + 2] \in T /\ text[i + 3] \in T
    BY <1>7, <1>13, <2>1, <2>2, FitsCases, Zenon
  <2>3. CASE /\ text[i] \in F1toF3 /\ text[i + 1] \in T
             /\ text[i + 2] \in T /\ text[i + 3] \in T
    BY <1>8, <1>13, <2>1, <2>3, FitsCases, Zenon
  <2>4. CASE /\ text[i] \in F4 /\ text[i + 1] \in AfterF4
             /\ text[i + 2] \in T /\ text[i + 3] \in T
    BY <1>9, <1>13, <2>1, <2>4, FitsCases, Zenon
  <2>5. \/ /\ text[i] \in F0 /\ text[i + 1] \in AfterF0
           /\ text[i + 2] \in T /\ text[i + 3] \in T
        \/ /\ text[i] \in F1toF3 /\ text[i + 1] \in T
           /\ text[i + 2] \in T /\ text[i + 3] \in T
        \/ /\ text[i] \in F4 /\ text[i + 1] \in AfterF4
           /\ text[i + 2] \in T /\ text[i + 3] \in T
    <3>1. PICK a, b, c, d : a = text[i] /\ b = text[i + 1] /\ c = text[i + 2] /\ d = text[i + 3]
      BY Zenon
    <3> QED
      BY <2>1, <3>1, FourRows, SMT
  <2> QED
    BY <2>2, <2>3, <2>4, <2>5, Zenon
<1> QED
  BY <1>10, <1>11, <1>12, <1>13, SpellsLength, Zenon

-----------------------------------------------------------------------------
(* The bytes of a code point.                                              *)

Encoded(x) == AppendUtf8(<<>>, x)

\* AppendUtf8 by the length of what it writes.
LEMMA EncodedCases ==
  ASSUME NEW x \in Nat
  PROVE  /\ x <= 127 => Encoded(x) = <<x>>
         /\ x > 127 /\ Short(x) => Encoded(x) = TwoBytes(x)
         /\ ~Short(x) /\ ~Astral(x) => Encoded(x) = ThreeBytes(x)
         /\ Astral(x) => Encoded(x) = FourBytes(x)
<1> DEFINE bytes == IF x <= 127 THEN <<x>>
                    ELSE IF x <= 2047 THEN TwoBytes(x)
                    ELSE IF x <= 65535 THEN ThreeBytes(x) ELSE FourBytes(x)
<1>1. bytes \in Seq(Int)
  <2>1. <<x>> \in Seq(Int)
    BY SMT
  <2>2. TwoBytes(x) \in Seq(Int)
    BY SMT DEF TwoBytes, ContinuationByte
  <2>3. ThreeBytes(x) \in Seq(Int)
    BY SMT DEF ThreeBytes, ContinuationByte
  <2>4. FourBytes(x) \in Seq(Int)
    BY SMT DEF FourBytes, ContinuationByte
  <2> QED
    BY <2>1, <2>2, <2>3, <2>4, SMT
<1>2. Encoded(x) = <<>> \o bytes
  BY DEF Encoded, AppendUtf8, TwoBytes, ThreeBytes, FourBytes
<1>3. Encoded(x) = bytes
  <2> HIDE DEF bytes
  <2> QED
    BY <1>1, <1>2, SMT
<1>4. (Short(x) <=> x <= 2047) /\ (Astral(x) <=> ~(x <= 65535))
  BY SMT DEF Short, Astral
<1> QED
  BY <1>3, <1>4, SMT

LEMMA TwoEncoded ==
  ASSUME NEW a \in 194 .. 223, NEW b \in T
  PROVE  Encoded(TwoCode(a, b)) = <<a, b>>
<1>1. PICK x : x = TwoCode(a, b)
  OBVIOUS
<1>2. x \in Nat /\ 128 <= x /\ x <= 2047 /\ TwoBytes(x) = <<a, b>>
  BY <1>1, TwoParts, SMT
<1>3. x > 127 /\ Short(x)
  BY <1>2, SMT DEF Short
<1>4. Encoded(x) = TwoBytes(x)
  BY <1>2, <1>3, EncodedCases, SMT
<1>5. TwoBytes(x) = <<a, b>>
  BY <1>2, SMT
<1> QED
  BY <1>1, <1>4, <1>5, Zenon

LEMMA ThreeEncoded ==
  ASSUME NEW a \in 224 .. 239, NEW b \in T, NEW c \in T, Three(a, b, c)
  PROVE  Encoded(ThreeCode(a, b, c)) = <<a, b, c>>
<1>1. PICK x : x = ThreeCode(a, b, c)
  OBVIOUS
<1>2. x \in Nat /\ ThreeBytes(x) = <<a, b, c>>
  BY <1>1, ThreeParts, SMT
<1>3. ~Short(x) /\ ~Astral(x)
  BY <1>1, ThreeChecked, Zenon
<1> QED
  BY <1>1, <1>2, <1>3, EncodedCases, Zenon

LEMMA FourEncoded ==
  ASSUME NEW a \in 240 .. 244, NEW b \in T, NEW c \in T, NEW d \in T, Four(a, b, c, d)
  PROVE  Encoded(FourCode(a, b, c, d)) = <<a, b, c, d>>
<1>1. PICK x : x = FourCode(a, b, c, d)
  OBVIOUS
<1>2. x \in Nat /\ FourBytes(x) = <<a, b, c, d>>
  BY <1>1, FourParts, SMT
<1>3. Astral(x)
  BY <1>1, FourChecked, Zenon
<1> QED
  BY <1>1, <1>2, <1>3, EncodedCases, Zenon

\* Six bits at a time.
LEMMA Radix64Digits ==
  ASSUME NEW x \in Nat
  PROVE  \E y \in Nat : \E r \in Nat : r <= 63 /\ x = y * 64 + r
<1>1. x \div 64 \in Nat /\ x % 64 \in Nat /\ x % 64 <= 63 /\ x = (x \div 64) * 64 + (x % 64)
  BY SMT
<1> QED
  BY <1>1, Zenon

\* The bytes that AppendUtf8 puts out are in the table.
ThreeSpelled(x) ==
    \E a \in 224 .. 239 : \E b, c \in T :
       Three(a, b, c) /\ x = ThreeCode(a, b, c)
FourSpelled(x) ==
    \E a \in 240 .. 244 : \E b, c, d \in T :
       Four(a, b, c, d) /\ x = FourCode(a, b, c, d)

LEMMA TwoDigits ==
  ASSUME NEW x \in Nat, x > 127, Short(x)
  PROVE  \E a \in 194 .. 223 : \E b \in T : x = TwoCode(a, b)
<1>1. PICK p \in Nat : \E r \in Nat : r <= 63 /\ x = p * 64 + r
  BY Radix64Digits, Zenon
<1>2. PICK r \in Nat : r <= 63 /\ x = p * 64 + r
  BY <1>1, Zenon
<1>3. PICK a : a = 192 + p
  BY Zenon
<1>4. PICK b : b = 128 + r
  BY Zenon
<1>5. p >= 2 /\ p <= 31
  BY <1>2, SMT DEF Short
<1>6. a \in 194 .. 223
  BY <1>3, <1>5, SMT
<1>7. b \in T
  BY <1>2, <1>4, SMT DEF T
<1>8. x = TwoCode(a, b)
  BY <1>2, <1>3, <1>4, SMT DEF TwoCode
<1> QED
  BY <1>6, <1>7, <1>8, Zenon

LEMMA ThreeDigits ==
  ASSUME NEW x \in ScalarValues, ~Short(x), ~Astral(x)
  PROVE  ThreeSpelled(x)
<1>1. x \in Nat
  BY SMT DEF ScalarValues
<1>2. PICK y \in Nat : \E r \in Nat : r <= 63 /\ x = y * 64 + r
  BY <1>1, Radix64Digits, Zenon
<1>3. PICK r \in Nat : r <= 63 /\ x = y * 64 + r
  BY <1>2, Zenon
<1>4. PICK p \in Nat : \E q \in Nat : q <= 63 /\ y = p * 64 + q
  BY Radix64Digits, Zenon
<1>5. PICK q \in Nat : q <= 63 /\ y = p * 64 + q
  BY <1>4, Zenon
<1>6. PICK a : a = 224 + p
  BY Zenon
<1>7. PICK b : b = 128 + q
  BY Zenon
<1>8. PICK c : c = 128 + r
  BY Zenon
<1>9. p <= 15
  BY <1>3, <1>5, SMT DEF Astral
<1>10. a \in 224 .. 239
  BY <1>6, <1>9, SMT
<1>11. b \in T
  BY <1>5, <1>7, SMT DEF T
<1>12. c \in T
  BY <1>3, <1>8, SMT DEF T
<1>13. x = ThreeCode(a, b, c)
  BY <1>3, <1>5, <1>6, <1>7, <1>8, SMT DEF ThreeCode
<1>14. IsCodePoint(x, ThreeMinimum)
  <2>1. x >= ThreeMinimum /\ ThreeMinimum \in Nat
    BY <1>1, SMT DEF Short, ThreeMinimum
  <2>2. Assigned(x) /\ ~Surrogate(x)
    BY <1>1, <2>1, CodePoint, Zenon
  <2> QED
    BY <1>1, <2>1, <2>2, CodePoint, Zenon
<1>15. Three(a, b, c)
  BY <1>10, <1>11, <1>12, <1>13, <1>14, ThreeChecked, Zenon
<1> QED
  BY <1>10, <1>11, <1>12, <1>13, <1>15, Zenon DEF ThreeSpelled

LEMMA FourDigits ==
  ASSUME NEW x \in ScalarValues, Astral(x)
  PROVE  FourSpelled(x)
<1>1. x \in Nat
  BY SMT DEF ScalarValues
<1>2. PICK y \in Nat : \E s \in Nat : s <= 63 /\ x = y * 64 + s
  BY <1>1, Radix64Digits, Zenon
<1>3. PICK s \in Nat : s <= 63 /\ x = y * 64 + s
  BY <1>2, Zenon
<1>4. PICK z \in Nat : \E r \in Nat : r <= 63 /\ y = z * 64 + r
  BY Radix64Digits, Zenon
<1>5. PICK r \in Nat : r <= 63 /\ y = z * 64 + r
  BY <1>4, Zenon
<1>6. PICK p \in Nat : \E q \in Nat : q <= 63 /\ z = p * 64 + q
  BY Radix64Digits, Zenon
<1>7. PICK q \in Nat : q <= 63 /\ z = p * 64 + q
  BY <1>6, Zenon
<1>8. PICK a : a = 240 + p
  BY Zenon
<1>9. PICK b : b = 128 + q
  BY Zenon
<1>10. PICK c : c = 128 + r
  BY Zenon
<1>11. PICK d : d = 128 + s
  BY Zenon
<1>12. Assigned(x) /\ ~Surrogate(x)
  BY <1>1, CodePoint, Zenon
<1>13. p <= 4
  BY <1>3, <1>5, <1>7, <1>12, SMT DEF Assigned
<1>14. a \in 240 .. 244
  BY <1>8, <1>13, SMT
<1>15. b \in T
  BY <1>7, <1>9, SMT DEF T
<1>16. c \in T
  BY <1>5, <1>10, SMT DEF T
<1>17. d \in T
  BY <1>3, <1>11, SMT DEF T
<1>18. x = FourCode(a, b, c, d)
  BY <1>3, <1>5, <1>7, <1>8, <1>9, <1>10, <1>11, SMT DEF FourCode
<1>19. IsCodePoint(x, FourMinimum)
  <2>1. x >= FourMinimum /\ FourMinimum \in Nat
    BY <1>1, SMT DEF Astral, FourMinimum
  <2> QED
    BY <1>1, <1>12, <2>1, CodePoint, Zenon
<1>20. Four(a, b, c, d)
  BY <1>14, <1>15, <1>16, <1>17, <1>18, <1>19, FourChecked, Zenon
<1> QED
  BY <1>14, <1>15, <1>16, <1>17, <1>18, <1>20, Zenon DEF FourSpelled

\* A stretch of a text, character by character.
LEMMA SubSeqIs ==
  ASSUME NEW S, NEW text \in Seq(S), NEW i \in 1 .. Len(text) + 1, NEW m \in Nat,
         i + m <= Len(text) + 1, NEW s \in Seq(S), Len(s) = m,
         \A k \in 1 .. m : s[k] = text[i + k - 1], NEW j, j = i + m - 1
  PROVE  SubSeq(text, i, j) = s
<1>1. j \in Int /\ i \in Int /\ j - i + 1 = m
  OBVIOUS
<1>2. \A k \in i .. j : text[k] \in S
  BY <1>1
<1>3. /\ SubSeq(text, i, j) \in Seq(S)
      /\ Len(SubSeq(text, i, j)) = IF i <= j THEN j - i + 1 ELSE 0
      /\ \A k \in 1 .. j - i + 1 : SubSeq(text, i, j)[k] = text[i + k - 1]
  BY <1>1, <1>2, SubSeqProperties
<1>4. Len(SubSeq(text, i, j)) = m
  BY <1>1, <1>3
<1>5. \A k \in 1 .. m : SubSeq(text, i, j)[k] = s[k]
  BY <1>1, <1>3
<1> QED
  BY <1>3, <1>4, <1>5, SeqEqual

LEMMA Pieces ==
  ASSUME NEW S, NEW text \in Seq(S), NEW i \in 1 .. Len(text)
  PROVE  /\ SubSeq(text, i, i) = <<text[i]>>
         /\ i + 1 <= Len(text) => SubSeq(text, i, i + 1) = <<text[i], text[i + 1]>>
         /\ i + 2 <= Len(text) => SubSeq(text, i, i + 2) = <<text[i], text[i + 1], text[i + 2]>>
         /\ i + 3 <= Len(text) =>
               SubSeq(text, i, i + 3) = <<text[i], text[i + 1], text[i + 2], text[i + 3]>>
<1>1. ASSUME i <= Len(text)
      PROVE  SubSeq(text, i, i) = <<text[i]>>
  <2>1. PICK s : s = <<text[i]>>
    OBVIOUS
  <2>2. s \in Seq(S) /\ Len(s) = 1 /\ i + 1 <= Len(text) + 1
    BY <1>1, <2>1
  <2>3. \A k \in 1 .. 1 : s[k] = text[i + k - 1]
    BY <1>1, <2>1
  <2>4. PICK j : j = i + 1 - 1 /\ j = i
    OBVIOUS
  <2>5. i \in 1 .. Len(text) + 1 /\ 1 \in Nat
    OBVIOUS
  <2>6. SubSeq(text, i, j) = s
    BY <2>2, <2>3, <2>4, <2>5, SubSeqIs
  <2> QED
    BY <2>1, <2>4, <2>6
<1>2. ASSUME i + 1 <= Len(text)
      PROVE  SubSeq(text, i, i + 1) = <<text[i], text[i + 1]>>
  <2>1. PICK s : s = <<text[i], text[i + 1]>>
    OBVIOUS
  <2>2. s \in Seq(S) /\ Len(s) = 2 /\ i + 2 <= Len(text) + 1
    BY <1>2, <2>1
  <2>3. \A k \in 1 .. 2 : s[k] = text[i + k - 1]
    BY <1>2, <2>1
  <2>4. PICK j : j = i + 2 - 1 /\ j = i + 1
    OBVIOUS
  <2>5. i \in 1 .. Len(text) + 1 /\ 2 \in Nat
    OBVIOUS
  <2>6. SubSeq(text, i, j) = s
    BY <2>2, <2>3, <2>4, <2>5, SubSeqIs
  <2> QED
    BY <2>1, <2>4, <2>6
<1>3. ASSUME i + 2 <= Len(text)
      PROVE  SubSeq(text, i, i + 2) = <<text[i], text[i + 1], text[i + 2]>>
  <2>1. PICK s : s = <<text[i], text[i + 1], text[i + 2]>>
    OBVIOUS
  <2>2. s \in Seq(S) /\ Len(s) = 3 /\ i + 3 <= Len(text) + 1
    BY <1>3, <2>1
  <2>3. \A k \in 1 .. 3 : s[k] = text[i + k - 1]
    BY <1>3, <2>1
  <2>4. PICK j : j = i + 3 - 1 /\ j = i + 2
    OBVIOUS
  <2>5. i \in 1 .. Len(text) + 1 /\ 3 \in Nat
    OBVIOUS
  <2>6. SubSeq(text, i, j) = s
    BY <2>2, <2>3, <2>4, <2>5, SubSeqIs
  <2> QED
    BY <2>1, <2>4, <2>6
<1>4. ASSUME i + 3 <= Len(text)
      PROVE  SubSeq(text, i, i + 3) = <<text[i], text[i + 1], text[i + 2], text[i + 3]>>
  <2>1. PICK s : s = <<text[i], text[i + 1], text[i + 2], text[i + 3]>>
    OBVIOUS
  <2>2. s \in Seq(S) /\ Len(s) = 4 /\ i + 4 <= Len(text) + 1
    BY <1>4, <2>1
  <2>3. \A k \in 1 .. 4 : s[k] = text[i + k - 1]
    BY <1>4, <2>1
  <2>4. PICK j : j = i + 4 - 1 /\ j = i + 3
    OBVIOUS
  <2>5. i \in 1 .. Len(text) + 1 /\ 4 \in Nat
    OBVIOUS
  <2>6. SubSeq(text, i, j) = s
    BY <2>2, <2>3, <2>4, <2>5, SubSeqIs
  <2> QED
    BY <2>1, <2>4, <2>6
<1> QED
  BY <1>1, <1>2, <1>3, <1>4

\* Where text spells x, it has the bytes that AppendUtf8 puts out for x.
LEMMA SpellsBytes ==
  ASSUME NEW text \in Seq(0 .. 255), NEW i \in 1 .. Len(text), NEW m, NEW x, Spells(text, i, m, x)
  PROVE  /\ m \in 1 .. 4
         /\ i + m \in i + 1 .. Len(text) + 1
         /\ Encoded(x) = SubSeq(text, i, i + m - 1)
<1>1. PICK len \in Nat : len = Len(text)
  BY SMT
<1>2. /\ i + 1 - 1 = i /\ i + 2 - 1 = i + 1 /\ i + 3 - 1 = i + 2 /\ i + 4 - 1 = i + 3
      /\ i + 1 \in i + 1 .. len + 1
      /\ i + 1 <= len => i + 2 \in i + 1 .. len + 1
      /\ i + 2 <= len => i + 3 \in i + 1 .. len + 1
      /\ i + 3 <= len => i + 4 \in i + 1 .. len + 1
      /\ 1 \in 1 .. 4 /\ 2 \in 1 .. 4 /\ 3 \in 1 .. 4 /\ 4 \in 1 .. 4
  BY <1>1, SMT
<1>3. Kind(text[i], m)
  BY SpellsKind, Zenon
<1>4. CASE m = 1
  <2>1. SpellsOne(text, i, x)
    BY <1>4, SpellsCases, Zenon
  <2>2. text[i] \in 0 .. 127
    BY <1>3, <1>4, SMT DEF Kind
  <2>3. x \in Nat /\ x <= 127 /\ x = text[i]
    <3>1. x = text[i]
      BY <2>1, Zenon DEF SpellsOne
    <3>2. x \in 0 .. 127
      BY <2>2, <3>1, Zenon
    <3>3. x \in Nat /\ x <= 127
      BY <3>2, SMT
    <3> QED
      BY <3>1, <3>3
  <2>4. Encoded(x) = <<x>>
    BY <2>3, EncodedCases, SMT
  <2> QED
    BY <1>1, <1>2, <1>4, <2>3, <2>4, Pieces, Zenon
<1>5. CASE m = 2
  <2>1. i + 1 <= Len(text) /\ Two(text[i], text[i + 1]) /\ x = TwoCode(text[i], text[i + 1])
    BY <1>5, SpellsCases, Zenon DEF SpellsTwo
  <2>2. Encoded(x) = <<text[i], text[i + 1]>>
    BY <2>1, TwoEncoded, Zenon DEF Two
  <2> QED
    BY <1>1, <1>2, <1>5, <2>1, <2>2, Pieces, Zenon
<1>6. CASE m = 3
  <2>1. /\ i + 2 <= Len(text) /\ text[i + 1] \in T /\ Three(text[i], text[i + 1], text[i + 2])
        /\ x = ThreeCode(text[i], text[i + 1], text[i + 2])
    BY <1>6, SpellsCases, Zenon DEF SpellsThree
  <2>2. text[i] \in 224 .. 239
    BY <1>3, <1>6, SMT DEF Kind
  <2>3. text[i + 2] \in T
    BY <2>1, Zenon DEF Three
  <2>4. Encoded(x) = <<text[i], text[i + 1], text[i + 2]>>
    BY <2>1, <2>2, <2>3, ThreeEncoded, Zenon
  <2> QED
    BY <1>1, <1>2, <1>6, <2>1, <2>4, Pieces, Zenon
<1>7. CASE m = 4
  <2>1. /\ i + 3 <= Len(text) /\ text[i + 1] \in T
        /\ Four(text[i], text[i + 1], text[i + 2], text[i + 3])
        /\ x = FourCode(text[i], text[i + 1], text[i + 2], text[i + 3])
    BY <1>7, SpellsCases, Zenon DEF SpellsFour
  <2>2. text[i] \in 240 .. 244
    BY <1>3, <1>7, SMT DEF Kind
  <2>3. text[i + 2] \in T /\ text[i + 3] \in T
    BY <2>1, Zenon DEF Four
  <2>4. Encoded(x) = <<text[i], text[i + 1], text[i + 2], text[i + 3]>>
    BY <2>1, <2>2, <2>3, FourEncoded, Zenon
  <2> QED
    BY <1>1, <1>2, <1>7, <2>1, <2>4, Pieces, Zenon
<1> QED
  BY <1>4, <1>5, <1>6, <1>7, SpellsLength, Zenon

\* And the other way round: these bytes spell x, whatever follows.
LEMMA JoinedOne ==
  ASSUME NEW S, NEW a \in S, NEW r \in Seq(S), NEW u, u = <<a>>
  PROVE  /\ u \in Seq(S) /\ Len(u) = 1
         /\ u \o r \in Seq(S) /\ 1 <= Len(u \o r)
         /\ (u \o r)[1] = a
OBVIOUS

LEMMA JoinedTwo ==
  ASSUME NEW S, NEW a \in S, NEW b \in S, NEW r \in Seq(S), NEW u, u = <<a, b>>
  PROVE  /\ u \in Seq(S) /\ Len(u) = 2
         /\ u \o r \in Seq(S) /\ 1 + 1 <= Len(u \o r)
         /\ (u \o r)[1] = a /\ (u \o r)[1 + 1] = b
OBVIOUS

LEMMA JoinedThree ==
  ASSUME NEW S, NEW a \in S, NEW b \in S, NEW c \in S, NEW r \in Seq(S), NEW u, u = <<a, b, c>>
  PROVE  /\ u \in Seq(S) /\ Len(u) = 3
         /\ u \o r \in Seq(S) /\ 1 + 2 <= Len(u \o r)
         /\ (u \o r)[1] = a /\ (u \o r)[1 + 1] = b /\ (u \o r)[1 + 2] = c
OBVIOUS

LEMMA JoinedFour ==
  ASSUME NEW S, NEW a \in S, NEW b \in S, NEW c \in S, NEW d \in S, NEW r \in Seq(S), NEW u, u = <<a, b, c, d>>
  PROVE  /\ u \in Seq(S) /\ Len(u) = 4
         /\ u \o r \in Seq(S) /\ 1 + 3 <= Len(u \o r)
         /\ (u \o r)[1] = a /\ (u \o r)[1 + 1] = b /\ (u \o r)[1 + 2] = c /\ (u \o r)[1 + 3] = d
OBVIOUS

Byte == 0 .. 255

Coded(x) ==
    /\ Encoded(x) \in Seq(Byte)
    /\ Len(Encoded(x)) \in 1 .. 4
    /\ \A r \in Seq(Byte) : Spells(Encoded(x) \o r, 1, Len(Encoded(x)), x)

LEMMA AreBytes ==
  /\ \A a \in T : a \in Byte
  /\ \A a \in 0 .. 127 : a \in Byte /\ a <= 127
  /\ \A a \in 194 .. 223 : a \in Byte
  /\ \A a \in 224 .. 239 : a \in Byte
  /\ \A a \in 240 .. 244 : a \in Byte
  /\ 1 \in 1 .. 4 /\ 2 \in 1 .. 4 /\ 3 \in 1 .. 4 /\ 4 \in 1 .. 4
BY SMT DEF T, Byte

LEMMA OneCoded ==
  ASSUME NEW x \in 0 .. 127
  PROVE  Coded(x)
<1>1. Encoded(x) = <<x>>
  <2>1. x \in Nat /\ x <= 127
    BY SMT
  <2> QED
    BY <2>1, EncodedCases, SMT
<1>2. x \in Byte /\ <<>> \in Seq(Byte)
  BY AreBytes, EmptySeq, Zenon
<1>3. PICK u : u = <<x>>
  BY Zenon
<1>4. u \in Seq(Byte) /\ Len(u) = 1
  BY <1>2, <1>3, JoinedOne, Zenon
<1>5. ASSUME NEW r \in Seq(Byte)
      PROVE  Spells(u \o r, 1, 1, x)
  <2>1. 1 <= Len(u \o r) /\ (u \o r)[1] = x
    BY <1>2, <1>3, JoinedOne, SMT
  <2>2. SpellsOne(u \o r, 1, x)
    BY <2>1, AreBytes, Zenon DEF SpellsOne
  <2> QED
    BY <2>2, SpellsCases, Zenon
<1> QED
  BY <1>1, <1>3, <1>4, <1>5, AreBytes, Zenon DEF Coded

LEMMA TwoCoded ==
  ASSUME NEW a \in 194 .. 223, NEW b \in T, NEW x, x = TwoCode(a, b)
  PROVE  Coded(x)
<1>1. Encoded(x) = <<a, b>>
  <2>1. Encoded(TwoCode(a, b)) = <<a, b>>
    BY TwoEncoded, Zenon
  <2> QED
    BY <2>1
<1>2. a \in Byte /\ b \in Byte /\ <<>> \in Seq(Byte)
  <2>1. a \in Byte /\ b \in Byte
    BY SMT DEF Byte, T
  <2> QED
    BY <2>1, EmptySeq, Zenon
<1>3. PICK u : u = <<a, b>>
  BY Zenon
<1>4. u \in Seq(Byte) /\ Len(u) = 2
  BY <1>2, <1>3, JoinedTwo, Zenon
<1>5. ASSUME NEW r \in Seq(Byte)
      PROVE  Spells(u \o r, 1, 2, x)
  <2>1. 1 + 1 <= Len(u \o r) /\ (u \o r)[1] = a /\ (u \o r)[1 + 1] = b
    BY <1>2, <1>3, JoinedTwo, SMT
  <2>2. SpellsTwo(u \o r, 1, x)
    BY <2>1, Zenon DEF SpellsTwo, Two
  <2> QED
    BY <2>2, SpellsCases, Zenon
<1> QED
  BY <1>1, <1>3, <1>4, <1>5, AreBytes, Zenon DEF Coded

LEMMA ThreeCoded ==
  ASSUME NEW a \in 224 .. 239, NEW b \in T, NEW c \in T, Three(a, b, c), NEW x, x = ThreeCode(a, b, c)
  PROVE  Coded(x)
<1>1. Encoded(x) = <<a, b, c>>
  <2>1. Encoded(ThreeCode(a, b, c)) = <<a, b, c>>
    BY ThreeEncoded, Zenon
  <2> QED
    BY <2>1
<1>2. a \in Byte /\ b \in Byte /\ c \in Byte /\ <<>> \in Seq(Byte)
  <2>1. a \in Byte /\ b \in Byte /\ c \in Byte
    BY SMT DEF Byte, T
  <2> QED
    BY <2>1, EmptySeq, Zenon
<1>3. PICK u : u = <<a, b, c>>
  BY Zenon
<1>4. u \in Seq(Byte) /\ Len(u) = 3
  BY <1>2, <1>3, JoinedThree, Zenon
<1>5. ASSUME NEW r \in Seq(Byte)
      PROVE  Spells(u \o r, 1, 3, x)
  <2>1. 1 + 2 <= Len(u \o r) /\ (u \o r)[1] = a /\ (u \o r)[1 + 1] = b /\ (u \o r)[1 + 2] = c
    BY <1>2, <1>3, JoinedThree, SMT
  <2>2. SpellsThree(u \o r, 1, x)
    BY <2>1, Zenon DEF SpellsThree
  <2> QED
    BY <2>2, SpellsCases, Zenon
<1> QED
  BY <1>1, <1>3, <1>4, <1>5, AreBytes, Zenon DEF Coded

LEMMA FourCoded ==
  ASSUME NEW a \in 240 .. 244, NEW b \in T, NEW c \in T, NEW d \in T, Four(a, b, c, d), NEW x, x = FourCode(a, b, c, d)
  PROVE  Coded(x)
<1>1. Encoded(x) = <<a, b, c, d>>
  <2>1. Encoded(FourCode(a, b, c, d)) = <<a, b, c, d>>
    BY FourEncoded, Zenon
  <2> QED
    BY <2>1
<1>2. a \in Byte /\ b \in Byte /\ c \in Byte /\ d \in Byte /\ <<>> \in Seq(Byte)
  <2>1. a \in Byte /\ b \in Byte /\ c \in Byte /\ d \in Byte
    BY SMT DEF Byte, T
  <2> QED
    BY <2>1, EmptySeq, Zenon
<1>3. PICK u : u = <<a, b, c, d>>
  BY Zenon
<1>4. u \in Seq(Byte) /\ Len(u) = 4
  BY <1>2, <1>3, JoinedFour, Zenon
<1>5. ASSUME NEW r \in Seq(Byte)
      PROVE  Spells(u \o r, 1, 4, x)
  <2>1. 1 + 3 <= Len(u \o r) /\ (u \o r)[1] = a /\ (u \o r)[1 + 1] = b /\ (u \o r)[1 + 2] = c /\ (u \o r)[1 + 3] = d
    BY <1>2, <1>3, JoinedFour, SMT
  <2>2. SpellsFour(u \o r, 1, x)
    BY <2>1, Zenon DEF SpellsFour
  <2> QED
    BY <2>2, SpellsCases, Zenon
<1> QED
  BY <1>1, <1>3, <1>4, <1>5, AreBytes, Zenon DEF Coded

\* What AppendUtf8 writes spells the code point it was given.
LEMMA ScalarCoded ==
  ASSUME NEW x \in ScalarValues
  PROVE  Coded(x)
<1>1. x \in Nat
  BY SMT DEF ScalarValues
<1>2. CASE x <= 127
  <2>1. x \in 0 .. 127
    BY <1>1, <1>2, SMT
  <2> QED
    BY <2>1, OneCoded, Zenon
<1>3. CASE x > 127 /\ Short(x)
  BY <1>1, <1>3, TwoDigits, TwoCoded, Zenon
<1>4. CASE ~Short(x) /\ ~Astral(x)
  <2>1. PICK a \in 224 .. 239 : \E b, c \in T : Three(a, b, c) /\ x = ThreeCode(a, b, c)
    BY <1>4, ThreeDigits, Zenon DEF ThreeSpelled
  <2>2. PICK b \in T, c \in T : Three(a, b, c) /\ x = ThreeCode(a, b, c)
    BY <2>1, Zenon
  <2> QED
    BY <2>2, ThreeCoded, Zenon
<1>5. CASE Astral(x)
  <2>1. PICK a \in 240 .. 244 : \E b, c, d \in T : Four(a, b, c, d) /\ x = FourCode(a, b, c, d)
    BY <1>5, FourDigits, Zenon DEF FourSpelled
  <2>2. PICK b \in T, c \in T, d \in T : Four(a, b, c, d) /\ x = FourCode(a, b, c, d)
    BY <2>1, Zenon
  <2> QED
    BY <2>2, FourCoded, Zenon
<1>6. x <= 127 \/ (x > 127 /\ Short(x)) \/ (~Short(x) /\ ~Astral(x)) \/ Astral(x)
  BY <1>1, SMT DEF Short, Astral
<1> QED
  BY <1>2, <1>3, <1>4, <1>5, <1>6, Zenon

LEMMA ScalarBytes ==
  ASSUME NEW x \in ScalarValues
  PROVE  /\ Encoded(x) \in Seq(0 .. 255)
         /\ Len(Encoded(x)) \in 1 .. 4
         /\ \A r \in Seq(0 .. 255) : Spells(Encoded(x) \o r, 1, Len(Encoded(x)), x)
BY ScalarCoded, Zenon DEF Coded, Byte

\* DecodeUtf8CodePoint reads back what AppendUtf8 has put out.
LEMMA DecodeEncoded ==
  ASSUME NEW x \in ScalarValues, NEW r \in Seq(0 .. 255)
  PROVE  /\ Encoded(x) \o r \in Seq(0 .. 255)
         /\ 1 \in 1 .. Len(Encoded(x) \o r)
         /\ DecodeUtf8CodePoint(Encoded(x) \o r, 1) = Decoded(x, 1 + Len(Encoded(x)))
<1>1. PICK u \in Seq(0 .. 255) : u = Encoded(x) /\ Len(u) \in 1 .. 4
  BY ScalarBytes, Zenon
<1>2. PICK v : v = u \o r
  BY Zenon
<1>3. v \in Seq(0 .. 255) /\ Len(v) = Len(u) + Len(r)
  BY <1>2, ConcatProperties, Zenon
<1>4. 1 \in 1 .. Len(v)
  <2>1. PICK l \in Nat : l = Len(r)
    BY LenProperties, Zenon
  <2>2. PICK k \in 1 .. 4 : k = Len(u)
    BY <1>1, Zenon
  <2> QED
    BY <1>3, <2>1, <2>2, SMT
<1>5. Spells(v, 1, Len(u), x)
  BY <1>1, <1>2, ScalarBytes, Zenon
<1>6. \E m \in 1 .. 4 : \E y \in ScalarValues :
         Spells(v, 1, m, y) /\ DecodeUtf8CodePoint(v, 1) = Decoded(y, 1 + m)
  BY <1>3, <1>4, <1>5, DecodeExact, Zenon
<1>7. DecodeUtf8CodePoint(v, 1) = Decoded(x, 1 + Len(u))
  BY <1>3, <1>4, <1>5, <1>6, SpellsUnique, Zenon
<1> QED
  BY <1>1, <1>2, <1>3, <1>4, <1>7, Zenon

-----------------------------------------------------------------------------
(* StringToWstring as a walk.                                              *)

\* A route has one walk only.
LEMMA WalkUnique ==
  ASSUME NEW n \in Nat, NEW S, NEW piece, NEW next, IsRoute(n, piece, next, S),
         NEW f, NEW g, IsWalk(f, n, piece, next), IsWalk(g, n, piece, next)
  PROVE  \A i \in 1 .. n + 1 : g[i] = f[i]
<1>1. 0 \in Nat /\ n + 0 = n /\ \A i \in 1 .. n + 1 : i + 0 = i
  OBVIOUS
<1>2. \A i \in 1 .. n : next[i] \in Nat
  BY DEF IsRoute
<1>3. Ahead(n, 0, piece, next, piece, next)
  BY <1>1, <1>2 DEF Ahead
<1>4. SameWay(f, n, piece, next, g, 0, piece, next)
  BY <1>1, <1>3 DEF SameWay
<1>5. Agree(f, n, g, 0)
  BY <1>1, <1>4, WalkShift, Zenon
<1> QED
  BY <1>1, <1>5 DEF Agree

\* What a walk has put out, step by step.
WalkStep(f, i, piece, next) ==
    f[i] = IF next[i] # 0 THEN Prepend(piece[i], f[next[i]]) ELSE Invalid

LEMMA WalkSteps ==
  ASSUME NEW n \in Nat, NEW piece, NEW next, NEW f, IsWalk(f, n, piece, next)
  PROVE  /\ f[n + 1] = NoUnits
         /\ \A i \in 1 .. n : WalkStep(f, i, piece, next)
BY DEF IsWalk, WalkStep

DecodePiece(text, size) ==
    [i \in 1 .. Len(text) |->
        IF DecodeUtf8CodePoint(text, i).valid
        THEN Units(DecodeUtf8CodePoint(text, i).code_point, size) ELSE <<>>]
DecodeNext(text) ==
    [i \in 1 .. Len(text) |->
        IF DecodeUtf8CodePoint(text, i).valid THEN DecodeUtf8CodePoint(text, i).offset ELSE 0]

\* The units of a code point are wide characters.
LEMMA UnitsTyped ==
  ASSUME NEW x \in Nat, NEW size
  PROVE  Units(x, size) \in Seq(Nat)
<1>1. <<x>> \in Seq(Nat)
  BY SMT
<1>2. ASSUME x > 65535
      PROVE  <<HIGH_SURROGATE_FIRST + (x - 65536) \div 1024,
               LOW_SURROGATE_FIRST + ((x - 65536) % 1024)>> \in Seq(Nat)
  <2>1. PICK d \in Nat : d = x - 65536
    BY <1>2, SMT
  <2>2. HIGH_SURROGATE_FIRST + d \div 1024 \in Nat /\ LOW_SURROGATE_FIRST + (d % 1024) \in Nat
    BY SMT DEF HIGH_SURROGATE_FIRST, LOW_SURROGATE_FIRST
  <2>3. PICK a \in Nat, b \in Nat :
           a = HIGH_SURROGATE_FIRST + d \div 1024 /\ b = LOW_SURROGATE_FIRST + (d % 1024)
    BY <2>2, SMT
  <2>4. <<a, b>> \in Seq(Nat)
    BY SMT
  <2> QED
    BY <2>1, <2>3, <2>4, SMT
<1> QED
  BY <1>1, <1>2, SMT DEF Units

\* What one round of the loop does.
DecodesTo(text, size, i, m, x) ==
    /\ m \in 1 .. 4
    /\ x \in ScalarValues
    /\ i + m \in i + 1 .. Len(text) + 1
    /\ Spells(text, i, m, x)
    /\ DecodePiece(text, size)[i] = Units(x, size)
    /\ DecodeNext(text)[i] = i + m

Undecoded(text, size, i) ==
    /\ DecodePiece(text, size)[i] = <<>>
    /\ DecodeNext(text)[i] = 0
    /\ \A m, x : ~Spells(text, i, m, x)

\* A round of StringToWstring either gives up or puts out a piece and gets on.
LEMMA DecodeRound ==
  ASSUME NEW text \in Seq(0 .. 255), NEW size, NEW i \in 1 .. Len(text)
  PROVE  Undecoded(text, size, i) \/ \E m, x : DecodesTo(text, size, i, m, x)
<1>1. /\ DecodePiece(text, size)[i] = IF DecodeUtf8CodePoint(text, i).valid
                                      THEN Units(DecodeUtf8CodePoint(text, i).code_point, size)
                                      ELSE <<>>
      /\ DecodeNext(text)[i] = IF DecodeUtf8CodePoint(text, i).valid
                               THEN DecodeUtf8CodePoint(text, i).offset ELSE 0
  BY Zenon DEF DecodePiece, DecodeNext
<1>2. CASE DecodeUtf8CodePoint(text, i) = Invalid /\ \A m, x : ~Spells(text, i, m, x)
  <2>1. ~Invalid.valid
    BY DEF Invalid
  <2> QED
    BY <1>1, <1>2, <2>1, Zenon DEF Undecoded
<1>3. ASSUME NEW m \in 1 .. 4, NEW x \in ScalarValues, Spells(text, i, m, x),
             DecodeUtf8CodePoint(text, i) = Decoded(x, i + m)
      PROVE  DecodesTo(text, size, i, m, x)
  <2>1. Decoded(x, i + m).valid /\ Decoded(x, i + m).code_point = x /\ Decoded(x, i + m).offset = i + m
    BY DEF Decoded
  <2>2. i + m \in i + 1 .. Len(text) + 1
    BY <1>3, SpellsBytes, Zenon
  <2> QED
    BY <1>1, <1>3, <2>1, <2>2, Zenon DEF DecodesTo
<1> QED
  BY <1>2, <1>3, DecodeExact, Zenon

LEMMA DecodeRoute ==
  ASSUME NEW text \in Seq(0 .. 255), NEW size
  PROVE  IsRoute(Len(text), DecodePiece(text, size), DecodeNext(text), Nat)
<1>1. Len(text) \in Nat
  BY LenProperties, Zenon
<1>2. ASSUME NEW i \in 1 .. Len(text)
      PROVE  /\ DecodePiece(text, size)[i] \in Seq(Nat)
             /\ DecodeNext(text)[i] \in 0 .. Len(text) + 1
             /\ DecodeNext(text)[i] # 0 => DecodeNext(text)[i] \in i + 1 .. Len(text) + 1
  <2>1. CASE Undecoded(text, size, i)
    <3>1. <<>> \in Seq(Nat) /\ 0 \in 0 .. Len(text) + 1
      BY <1>1
    <3> QED
      BY <2>1, <3>1, Zenon DEF Undecoded
  <2>2. ASSUME NEW m, NEW x, DecodesTo(text, size, i, m, x)
        PROVE  /\ DecodePiece(text, size)[i] \in Seq(Nat)
               /\ DecodeNext(text)[i] \in 0 .. Len(text) + 1
               /\ DecodeNext(text)[i] # 0 => DecodeNext(text)[i] \in i + 1 .. Len(text) + 1
    <3>1. x \in Nat
      BY <2>2, Zenon DEF DecodesTo, ScalarValues
    <3>2. PICK j : j = i + m /\ j \in i + 1 .. Len(text) + 1
      BY <2>2, Zenon DEF DecodesTo
    <3>3. j \in 0 .. Len(text) + 1
      BY <1>1, <3>2
    <3> QED
      BY <2>2, <3>1, <3>2, <3>3, UnitsTyped, Zenon DEF DecodesTo
  <2> QED
    BY <2>1, <2>2, DecodeRound, Zenon
<1>3. DecodePiece(text, size) \in [1 .. Len(text) -> Seq(Nat)]
  BY <1>2, Zenon DEF DecodePiece
<1>4. DecodeNext(text) \in [1 .. Len(text) -> 0 .. Len(text) + 1]
  BY <1>2, Zenon DEF DecodeNext
<1> QED
  BY <1>2, <1>3, <1>4, Zenon DEF IsRoute

IsDecoding(f, text, size) ==
    IsWalk(f, Len(text), DecodePiece(text, size), DecodeNext(text))

\* The recursive function of StringToWstring is a walk.
LEMMA DecodeFromIs ==
  ASSUME NEW text \in Seq(0 .. 255), NEW size
  PROVE  \E f \in [1 .. Len(text) + 1 -> Results(Nat)] :
            IsDecoding(f, text, size) /\ DecodeFrom(text, size) = f[1]
<1> DEFINE n == Len(text)
           I == 1 .. n + 1
           value(f, i) == IF i > n THEN NoUnits
                          ELSE LET d == DecodeUtf8CodePoint(text, i)
                               IN  IF d.valid THEN Prepend(Units(d.code_point, size), f[d.offset])
                                   ELSE Invalid
           from == CHOOSE f : f = [i \in I |-> value(f, i)]
<1>1. n \in Nat
  BY LenProperties, Zenon
<1>2. IsRoute(n, DecodePiece(text, size), DecodeNext(text), Nat)
  BY DecodeRoute, Zenon
<1>3. PICK f \in [I -> Results(Nat)] : IsDecoding(f, text, size)
  BY <1>1, <1>2, WalkExists, Zenon DEF IsDecoding
<1>4. ASSUME NEW g, NEW i \in I
      PROVE  value(g, i) = IF i > n THEN NoUnits
                           ELSE IF DecodeNext(text)[i] # 0
                           THEN Prepend(DecodePiece(text, size)[i], g[DecodeNext(text)[i]])
                           ELSE Invalid
  <2>1. CASE i > n
    BY <2>1, Zenon
  <2>2. CASE ~(i > n)
    <3>1. i \in 1 .. n
      BY <1>1, <2>2
    <3>2. DecodeNext(text)[i] = IF DecodeUtf8CodePoint(text, i).valid
                                THEN DecodeUtf8CodePoint(text, i).offset ELSE 0
      BY <3>1, Zenon DEF DecodeNext
    <3>3. DecodePiece(text, size)[i] = IF DecodeUtf8CodePoint(text, i).valid
                                       THEN Units(DecodeUtf8CodePoint(text, i).code_point, size)
                                       ELSE <<>>
      BY <3>1, Zenon DEF DecodePiece
    <3>4. CASE DecodeUtf8CodePoint(text, i).valid
      <4>1. DecodeNext(text)[i] # 0
        <5>1. \E m, x : DecodesTo(text, size, i, m, x)
          <6>1. ~Undecoded(text, size, i)
            <7>1. DecodeUtf8CodePoint(text, i) # Invalid
              BY <3>4 DEF Invalid
            <7> QED
              BY <3>1, <7>1, DecodeExact, Zenon DEF Undecoded
          <6> QED
            BY <3>1, <6>1, DecodeRound, Zenon
        <5>2. PICK j : j = DecodeNext(text)[i] /\ j \in i + 1 .. Len(text) + 1
          BY <5>1, Zenon DEF DecodesTo
        <5> QED
          BY <1>1, <3>1, <5>2
      <4> QED
        BY <2>2, <3>2, <3>3, <3>4, <4>1, Zenon
    <3>5. CASE ~DecodeUtf8CodePoint(text, i).valid
      BY <2>2, <3>2, <3>5, Zenon
    <3> QED
      BY <3>4, <3>5
  <2> QED
    BY <2>1, <2>2
<1>5. DecodeFrom(text, size) = from[1]
  BY Zenon DEF DecodeFrom
<1> HIDE DEF value
<1>6. \A i \in I : f[i] = value(f, i)
  BY <1>3, <1>4, Zenon DEF IsDecoding, IsWalk
<1>7. f = [i \in I |-> value(f, i)]
  BY <1>6
<1>8. from = [i \in I |-> value(from, i)]
  BY <1>7, Zenon
<1> HIDE DEF from
<1>9. \A i \in I : from[i] = value(from, i)
  BY <1>8
<1>10. IsDecoding(from, text, size)
  BY <1>4, <1>9, Zenon DEF IsDecoding, IsWalk
<1>11. 1 \in I
  BY <1>1
<1>12. from[1] = f[1]
  <2>1. IsWalk(f, n, DecodePiece(text, size), DecodeNext(text))
    BY <1>3, Zenon DEF IsDecoding
  <2>2. IsWalk(from, n, DecodePiece(text, size), DecodeNext(text))
    BY <1>10, Zenon DEF IsDecoding
  <2> HIDE DEF n
  <2>3. \A i \in 1 .. n + 1 : from[i] = f[i]
    BY <1>1, <1>2, <2>1, <2>2, WalkUnique
  <2> QED
    BY <1>11, <2>3, Zenon
<1> QED
  BY <1>3, <1>5, <1>12, Zenon

\* What is in front of a text does not change how it is read: text from i on
\* is like more from j on.
Same(text, i, more, j) ==
    /\ i <= Len(text) <=> j <= Len(more)
    /\ more[j] = text[i]
    /\ i + 1 <= Len(text) <=> j + 1 <= Len(more)
    /\ i + 2 <= Len(text) <=> j + 2 <= Len(more)
    /\ i + 3 <= Len(text) <=> j + 3 <= Len(more)
    /\ i + 1 <= Len(text) => more[j + 1] = text[i + 1]
    /\ i + 2 <= Len(text) => more[j + 2] = text[i + 2]
    /\ i + 3 <= Len(text) => more[j + 3] = text[i + 3]

LEMMA Shifted ==
  ASSUME NEW S, NEW u \in Seq(S), NEW r \in Seq(S), NEW i \in 1 .. Len(r),
         NEW j, j = i + Len(u), NEW v, v = u \o r
  PROVE  v \in Seq(S) /\ j \in 1 .. Len(v) /\ Same(r, i, v, j) /\ Same(v, j, r, i)
<1>1. PICK k \in Nat : k = Len(u)
  BY LenProperties
<1>2. PICK n \in Nat : n = Len(r)
  BY LenProperties
<1>3. v \in Seq(S) /\ Len(v) = k + n
  BY <1>1, <1>2, ConcatProperties
<1>4. \A q \in 1 .. n : v[q + k] = r[q]
  BY <1>1, <1>2
<1>5. j \in 1 .. k + n
  BY <1>1, <1>2
<1>6. v[j] = r[i]
  BY <1>1, <1>2, <1>4
<1>7. ASSUME NEW q \in Nat
      PROVE  /\ i + q <= n <=> j + q <= k + n
             /\ i + q <= n => v[j + q] = r[i + q]
  <2>1. i + q <= n <=> j + q <= k + n
    BY <1>1
  <2>2. ASSUME i + q <= n
        PROVE  v[j + q] = r[i + q]
    <3>1. PICK p \in 1 .. n : p = i + q /\ p + k = j + q
      BY <1>1, <2>2
    <3> QED
      BY <1>4, <3>1
  <2> QED
    BY <2>1, <2>2
<1>8. i <= n <=> j <= k + n
  BY <1>1
<1>9. 1 \in Nat /\ 2 \in Nat /\ 3 \in Nat
  OBVIOUS
<1>10. Same(r, i, v, j)
  BY <1>2, <1>3, <1>6, <1>7, <1>8, <1>9, Zenon DEF Same
<1>11. Same(v, j, r, i)
  BY <1>10, Zenon DEF Same
<1> QED
  BY <1>3, <1>5, <1>10, <1>11

\* What is spelled does not depend on what comes before or behind.
LEMMA SpellsSame ==
  ASSUME NEW S, NEW text \in Seq(S), NEW i \in 1 .. Len(text), NEW more, NEW j,
         Same(text, i, more, j), NEW m, NEW x, Spells(text, i, m, x)
  PROVE  Spells(more, j, m, x)
<1>1. PICK n \in Nat : n = Len(text)
  BY LenProperties, Zenon
<1>2. /\ i + 2 <= n => i + 1 <= n
      /\ i + 3 <= n => i + 1 <= n /\ i + 2 <= n
  BY <1>1, SMT
<1>3. CASE m = 1 /\ SpellsOne(text, i, x)
  BY <1>3, Zenon DEF Spells, SpellsOne, Same
<1>4. CASE m = 2 /\ SpellsTwo(text, i, x)
  BY <1>4, Zenon DEF Spells, SpellsTwo, Same
<1>5. CASE m = 3 /\ SpellsThree(text, i, x)
  <2>1. i + 2 <= Len(text) /\ i + 1 <= Len(text)
    BY <1>1, <1>2, <1>5, Zenon DEF SpellsThree
  <2>2. /\ j + 2 <= Len(more) /\ more[j] = text[i]
        /\ more[j + 1] = text[i + 1] /\ more[j + 2] = text[i + 2]
    BY <2>1, Zenon DEF Same
  <2> QED
    BY <1>5, <2>2, Zenon DEF Spells, SpellsThree
<1>6. CASE m = 4 /\ SpellsFour(text, i, x)
  <2>1. i + 3 <= Len(text) /\ i + 2 <= Len(text) /\ i + 1 <= Len(text)
    BY <1>1, <1>2, <1>6, Zenon DEF SpellsFour
  <2>2. /\ j + 3 <= Len(more) /\ more[j] = text[i]
        /\ more[j + 1] = text[i + 1] /\ more[j + 2] = text[i + 2] /\ more[j + 3] = text[i + 3]
    BY <2>1, Zenon DEF Same
  <2> QED
    BY <1>6, <2>2, Zenon DEF Spells, SpellsFour
<1> QED
  BY <1>3, <1>4, <1>5, <1>6, Zenon DEF Spells

\* Nor does what the decoder does there.
LEMMA DecodeSame ==
  ASSUME NEW text \in Seq(0 .. 255), NEW more \in Seq(0 .. 255), NEW size,
         NEW i \in 1 .. Len(text), NEW j \in 1 .. Len(more),
         Same(text, i, more, j), Same(more, j, text, i)
  PROVE  \/ \E m, x : DecodesTo(text, size, i, m, x) /\ DecodesTo(more, size, j, m, x)
         \/ Undecoded(text, size, i) /\ Undecoded(more, size, j)
<1>1. CASE Undecoded(text, size, i)
  <2>1. ASSUME NEW m, NEW x
        PROVE  ~Spells(more, j, m, x)
    <3>1. SUFFICES ASSUME Spells(more, j, m, x)
                   PROVE  FALSE
      OBVIOUS
    <3>2. Spells(text, i, m, x)
      BY <3>1, SpellsSame, Zenon
    <3> QED
      BY <1>1, <3>2, Zenon DEF Undecoded
  <2>2. ~\E m, x : DecodesTo(more, size, j, m, x)
    BY <2>1, Zenon DEF DecodesTo
  <2> QED
    BY <1>1, <2>2, DecodeRound, Zenon
<1>2. ASSUME NEW m, NEW x, DecodesTo(text, size, i, m, x)
      PROVE  DecodesTo(more, size, j, m, x)
  <2>1. Spells(more, j, m, x)
    <3>1. Spells(text, i, m, x)
      BY <1>2, Zenon DEF DecodesTo
    <3> QED
      BY <3>1, SpellsSame, Zenon
  <2>2. ~Undecoded(more, size, j)
    BY <2>1, Zenon DEF Undecoded
  <2>3. PICK k, y : DecodesTo(more, size, j, k, y)
    BY <2>2, DecodeRound, Zenon
  <2>4. Spells(more, j, k, y)
    BY <2>3, Zenon DEF DecodesTo
  <2>5. k = m /\ y = x
    BY <2>1, <2>4, SpellsUnique, Zenon
  <2> QED
    BY <2>3, <2>5, Zenon
<1> QED
  BY <1>1, <1>2, DecodeRound, Zenon

\* StringToWstring reads one code point and goes on behind it.
LEMMA DecodeJoin ==
  ASSUME NEW x \in ScalarValues, NEW r \in Seq(0 .. 255), NEW size
  PROVE  DecodeFrom(Encoded(x) \o r, size) = Prepend(Units(x, size), DecodeFrom(r, size))
<1>1. PICK u \in Seq(0 .. 255) : u = Encoded(x) /\ Len(u) \in 1 .. 4
  BY ScalarBytes, Zenon
<1>2. PICK v : v = u \o r
  BY Zenon
<1>3. v \in Seq(0 .. 255) /\ Len(v) = Len(u) + Len(r)
  BY <1>2, ConcatProperties, Zenon
<1>4. PICK k \in 1 .. 4 : k = Len(u)
  BY <1>1, Zenon
<1>5. PICK n \in Nat : n = Len(r)
  BY LenProperties, Zenon
<1>6. n + k = Len(v) /\ k \in Nat /\ 1 \in 1 .. Len(v) /\ 1 + k # 0 /\ 1 \in 1 .. n + 1
  BY <1>3, <1>4, <1>5, SMT
<1>7. PICK f \in [1 .. Len(r) + 1 -> Results(Nat)] :
         IsDecoding(f, r, size) /\ DecodeFrom(r, size) = f[1]
  BY DecodeFromIs, Zenon
<1>8. PICK g \in [1 .. Len(v) + 1 -> Results(Nat)] :
         IsDecoding(g, v, size) /\ DecodeFrom(v, size) = g[1]
  BY <1>3, DecodeFromIs, Zenon
<1>9. ASSUME NEW i \in 1 .. n
      PROVE  /\ DecodePiece(v, size)[i + k] = DecodePiece(r, size)[i]
             /\ DecodeNext(v)[i + k] = IF DecodeNext(r)[i] = 0 THEN 0 ELSE DecodeNext(r)[i] + k
  <2>1. PICK j : j = i + Len(u)
    BY Zenon
  <2>2. j \in 1 .. Len(v) /\ Same(r, i, v, j) /\ Same(v, j, r, i)
    <3>1. i \in 1 .. Len(r)
      BY <1>5, Zenon
    <3>2. PICK S : S = 0 .. 255
      BY Zenon
    <3>3. u \in Seq(S) /\ r \in Seq(S)
      BY <3>2, Zenon
    <3> QED
      BY <1>2, <2>1, <3>1, <3>3, Shifted, ZenonT(60)
  <2>3. CASE Undecoded(r, size, i) /\ Undecoded(v, size, j)
    BY <1>4, <2>1, <2>3, Zenon DEF Undecoded
  <2>4. ASSUME NEW m, NEW y, DecodesTo(r, size, i, m, y), DecodesTo(v, size, j, m, y)
        PROVE  /\ DecodePiece(v, size)[j] = DecodePiece(r, size)[i]
               /\ DecodeNext(v)[j] = DecodeNext(r)[i] + k
               /\ DecodeNext(r)[i] # 0
    <3>1. /\ DecodePiece(v, size)[j] = DecodePiece(r, size)[i]
          /\ DecodeNext(v)[j] = j + m /\ DecodeNext(r)[i] = i + m /\ m \in 1 .. 4
      BY <2>4, Zenon DEF DecodesTo
    <3>2. PICK q \in 1 .. 4 : q = m
      BY <3>1, Zenon
    <3>3. j = i + k
      BY <1>4, <2>1, Zenon
    <3>4. j + q = (i + q) + k /\ i + q # 0
      BY <3>3, SMT
    <3> QED
      BY <3>1, <3>2, <3>4, Zenon
  <2>5. CASE \E m, y : DecodesTo(r, size, i, m, y) /\ DecodesTo(v, size, j, m, y)
    BY <1>4, <2>1, <2>4, <2>5, Zenon
  <2> QED
    BY <1>3, <1>5, <2>2, <2>3, <2>5, DecodeSame, Zenon
<1>10. g[1 + k] = f[1]
  <2>1. IsWalk(f, n, DecodePiece(r, size), DecodeNext(r))
    BY <1>5, <1>7, Zenon DEF IsDecoding
  <2>2. IsWalk(g, n + k, DecodePiece(v, size), DecodeNext(v))
    BY <1>6, <1>8, Zenon DEF IsDecoding
  <2>3. IsRoute(n, DecodePiece(r, size), DecodeNext(r), Nat)
    BY <1>5, DecodeRoute, Zenon
  <2>4. PICK p, t : p = DecodePiece(r, size) /\ t = DecodeNext(r)
    BY Zenon
  <2>5. PICK pp, tt : pp = DecodePiece(v, size) /\ tt = DecodeNext(v)
    BY Zenon
  <2>6. SameWay(f, n, p, t, g, k, pp, tt)
    BY <1>9, <2>1, <2>2, <2>3, <2>4, <2>5, Zenon DEF Ahead, SameWay
  <2>7. PICK j \in Nat : j = k
    BY <1>6
  <2>8. \A i \in 1 .. n + 1 : g[i + j] = f[i]
    <3>1. SameWay(f, n, p, t, g, j, pp, tt)
      BY <2>6, <2>7, Zenon
    <3>2. Agree(f, n, g, j)
      BY <3>1, WalkShift, Zenon
    <3> QED
      BY <3>2, Zenon DEF Agree
  <2> QED
    BY <1>6, <2>7, <2>8, Zenon
<1>11. g[1] = Prepend(Units(x, size), g[1 + k])
  <2>1. DecodeUtf8CodePoint(v, 1) = Decoded(x, 1 + k)
    BY <1>1, <1>2, <1>4, DecodeEncoded, Zenon
  <2>2. Decoded(x, 1 + k).valid /\ Decoded(x, 1 + k).code_point = x /\ Decoded(x, 1 + k).offset = 1 + k
    BY DEF Decoded
  <2>3. DecodePiece(v, size)[1] = Units(x, size) /\ DecodeNext(v)[1] = 1 + k
    <3>1. DecodeUtf8CodePoint(v, 1).valid /\ DecodeUtf8CodePoint(v, 1).code_point = x
          /\ DecodeUtf8CodePoint(v, 1).offset = 1 + k
      BY <2>1, <2>2, Zenon
    <3>2. DecodePiece(v, size)[1] = IF DecodeUtf8CodePoint(v, 1).valid
                                    THEN Units(DecodeUtf8CodePoint(v, 1).code_point, size) ELSE <<>>
      BY <1>6, Zenon DEF DecodePiece
    <3>3. DecodeNext(v)[1] = IF DecodeUtf8CodePoint(v, 1).valid
                             THEN DecodeUtf8CodePoint(v, 1).offset ELSE 0
      BY <1>6, Zenon DEF DecodeNext
    <3> QED
      BY <3>1, <3>2, <3>3, Zenon
  <2>4. PICK l \in Nat : l = Len(v) /\ 1 \in 1 .. l /\ 1 \in 1 .. l + 1 /\ ~(1 > l)
    <3>1. Len(v) \in Nat
      BY <1>3, LenProperties, Zenon
    <3>2. \A l \in Nat : 1 \in 1 .. l => 1 \in 1 .. l + 1 /\ ~(1 > l)
      BY SMT
    <3> QED
      BY <1>6, <3>1, <3>2, Zenon
  <2>5. g[1] = IF DecodeNext(v)[1] # 0 THEN Prepend(DecodePiece(v, size)[1], g[DecodeNext(v)[1]]) ELSE Invalid
    <3>1. IsWalk(g, l, DecodePiece(v, size), DecodeNext(v))
      BY <1>8, <2>4, Zenon DEF IsDecoding
    <3>2. g[1] = IF 1 > l THEN NoUnits
                 ELSE IF DecodeNext(v)[1] # 0
                 THEN Prepend(DecodePiece(v, size)[1], g[DecodeNext(v)[1]]) ELSE Invalid
      BY <2>4, <3>1, Zenon DEF IsWalk
    <3> QED
      BY <2>4, <3>2, Zenon
  <2> QED
    BY <1>6, <2>3, <2>5, Zenon
<1> QED
  BY <1>1, <1>2, <1>7, <1>8, <1>10, <1>11, Zenon

-----------------------------------------------------------------------------
(* One code point in a wide string.                                        *)

\* What a wchar_t of two or four bytes can hold of what a text needs.
WideUnits(size) == {u \in Nat : size = 2 => ~Astral(u)}

\* The ranges of surrogates and of what is none.
LEMMA SurrogateCases ==
  ASSUME NEW a
  PROVE  /\ IsHighSurrogate(a) => a \in Nat /\ ~Astral(a) /\ ~IsLowSurrogate(a)
         /\ IsLowSurrogate(a) => a \in Nat /\ ~Astral(a) /\ ~IsHighSurrogate(a)
         /\ a \in Nat /\ ~Astral(a) => a <= MAX_UNICODE_CODE_POINT
         /\ a \in Nat => ~(a > MAX_UNICODE_CODE_POINT) \/ ~(a <= MAX_UNICODE_CODE_POINT)
         /\ a \in Nat => a > MAX_UNICODE_CODE_POINT \/ a <= MAX_UNICODE_CODE_POINT
<1>1. ASSUME IsHighSurrogate(a)
      PROVE  a \in Nat /\ ~Astral(a) /\ ~IsLowSurrogate(a)
  BY <1>1, SMT DEF IsHighSurrogate, IsLowSurrogate, Astral, HIGH_SURROGATE_FIRST, HIGH_SURROGATE_LAST,
           LOW_SURROGATE_FIRST, LOW_SURROGATE_LAST
<1>2. ASSUME IsLowSurrogate(a)
      PROVE  a \in Nat /\ ~Astral(a) /\ ~IsHighSurrogate(a)
  BY <1>2, SMT DEF IsHighSurrogate, IsLowSurrogate, Astral, HIGH_SURROGATE_FIRST, HIGH_SURROGATE_LAST,
           LOW_SURROGATE_FIRST, LOW_SURROGATE_LAST
<1>3. a \in Nat => /\ ~Astral(a) => a <= MAX_UNICODE_CODE_POINT
                   /\ ~(a > MAX_UNICODE_CODE_POINT) \/ ~(a <= MAX_UNICODE_CODE_POINT)
                   /\ a > MAX_UNICODE_CODE_POINT \/ a <= MAX_UNICODE_CODE_POINT
  BY SMT DEF Astral, MAX_UNICODE_CODE_POINT
<1> QED
  BY <1>1, <1>2, <1>3, Zenon

LEMMA UnitsCases ==
  ASSUME NEW x \in Nat, NEW size \in {2, 4}
  PROVE  /\ size = 4 \/ ~Astral(x) => Units(x, size) = <<x>>
         /\ size = 2 /\ Astral(x) =>
               Units(x, size) = <<HIGH_SURROGATE_FIRST + (x - 65536) \div 1024,
                                  LOW_SURROGATE_FIRST + ((x - 65536) % 1024)>>
<1>1. x <= 65535 <=> ~Astral(x)
  BY SMT DEF Astral
<1>2. size = 4 <=> ~(size = 2)
  BY SMT
<1> QED
  BY <1>1, <1>2, SMT DEF Units

LEMMA UnitsOne ==
  ASSUME NEW x \in Nat, NEW size \in {2, 4}, size = 4 \/ ~Astral(x)
  PROVE  Units(x, size) = <<x>>
BY UnitsCases, SMT

\* A pair and its ten bits each.
LEMMA PairNumber ==
  ASSUME NEW p \in Nat, NEW q \in Nat, p <= 1023, q <= 1023, NEW x, x = 65536 + p * 1024 + q
  PROVE  /\ x \in Nat /\ x > 65535 /\ x <= 1114111
         /\ (x - 65536) \div 1024 = p /\ (x - 65536) % 1024 = q
BY SMT

\* A pair of surrogates makes the code point whose units it is.
LEMMA SurrogatePair ==
  ASSUME NEW a, NEW b, IsHighSurrogate(a), IsLowSurrogate(b)
  PROVE  /\ Pair(a, b) \in ScalarValues
         /\ Astral(Pair(a, b))
         /\ Units(Pair(a, b), 2) = <<a, b>>
<1>1. PICK p \in Nat : p <= 1023 /\ a = 55296 + p
  <2>1. a - 55296 \in Nat /\ a - 55296 <= 1023 /\ a = 55296 + (a - 55296)
    BY SMT DEF IsHighSurrogate, HIGH_SURROGATE_FIRST, HIGH_SURROGATE_LAST
  <2> QED
    BY <2>1, SMT
<1>2. PICK q \in Nat : q <= 1023 /\ b = 56320 + q
  <2>1. b - 56320 \in Nat /\ b - 56320 <= 1023 /\ b = 56320 + (b - 56320)
    BY SMT DEF IsLowSurrogate, LOW_SURROGATE_FIRST, LOW_SURROGATE_LAST
  <2> QED
    BY <2>1, SMT
<1>3. PICK x : x = Pair(a, b)
  BY SMT
<1>4. x = 65536 + p * 1024 + q
  BY <1>1, <1>2, <1>3, SMT DEF Pair, HIGH_SURROGATE_FIRST, LOW_SURROGATE_FIRST
<1>5. /\ x \in Nat /\ x > 65535 /\ x <= 1114111
      /\ (x - 65536) \div 1024 = p /\ (x - 65536) % 1024 = q
  BY <1>1, <1>2, <1>4, PairNumber, SMT
<1>6. Astral(x)
  BY <1>5, SMT DEF Astral
<1>7. x \in ScalarValues
  BY <1>5, SMT DEF ScalarValues, MAX_UNICODE_CODE_POINT, IsHighSurrogate, IsLowSurrogate,
     HIGH_SURROGATE_LAST, LOW_SURROGATE_LAST, HIGH_SURROGATE_FIRST, LOW_SURROGATE_FIRST
<1>8. Units(x, 2) = <<HIGH_SURROGATE_FIRST + (x - 65536) \div 1024,
                      LOW_SURROGATE_FIRST + ((x - 65536) % 1024)>>
  BY <1>5, <1>6, UnitsCases, SMT
<1>9. HIGH_SURROGATE_FIRST + (x - 65536) \div 1024 = a
  BY <1>1, <1>5, SMT DEF HIGH_SURROGATE_FIRST
<1>10. LOW_SURROGATE_FIRST + ((x - 65536) % 1024) = b
  BY <1>2, <1>5, SMT DEF LOW_SURROGATE_FIRST
<1>11. Units(x, 2) = <<a, b>>
  BY <1>8, <1>9, <1>10, SMT
<1> QED
  BY <1>3, <1>6, <1>7, <1>11, SMT

LEMMA PairExists ==
  ASSUME NEW x \in ScalarValues, Astral(x)
  PROVE  \E a, b : IsHighSurrogate(a) /\ IsLowSurrogate(b) /\ x = Pair(a, b)
<1>1. PICK d \in Nat : d <= 1048575 /\ x = 65536 + d
  <2>1. x \in Nat /\ x <= 1114111 /\ x > 65535
    BY SMT DEF ScalarValues, MAX_UNICODE_CODE_POINT, Astral
  <2>2. x - 65536 \in Nat /\ x - 65536 <= 1048575 /\ x = 65536 + (x - 65536)
    BY <2>1, SMT
  <2> QED
    BY <2>2, SMT
<1>2. /\ d \div 1024 \in Nat /\ d \div 1024 <= 1023 /\ d % 1024 \in Nat /\ d % 1024 <= 1023
      /\ d = (d \div 1024) * 1024 + (d % 1024)
  BY <1>1, SMT
<1>3. PICK p \in Nat, q \in Nat : p <= 1023 /\ q <= 1023 /\ d = p * 1024 + q
  BY <1>2, SMT
<1>4. PICK a, b : a = 55296 + p /\ b = 56320 + q
  BY SMT
<1>5. IsHighSurrogate(a) /\ IsLowSurrogate(b)
  BY <1>3, <1>4, SMT DEF IsHighSurrogate, IsLowSurrogate,
     HIGH_SURROGATE_LAST, LOW_SURROGATE_LAST, HIGH_SURROGATE_FIRST, LOW_SURROGATE_FIRST
<1>6. x = Pair(a, b)
  BY <1>1, <1>3, <1>4, SMT DEF Pair, HIGH_SURROGATE_FIRST, LOW_SURROGATE_FIRST
<1> QED
  BY <1>5, <1>6, SMT

\* The m units of text from i on stand for x.
OneUnit(text, size, i, x) == x = text[i] /\ x \in ScalarValues /\ (size = 4 \/ ~Astral(x))
TwoUnits(text, size, i, x) ==
    /\ size = 2 /\ i + 1 <= Len(text)
    /\ IsHighSurrogate(text[i]) /\ IsLowSurrogate(text[i + 1])
    /\ x = Pair(text[i], text[i + 1])
UnitsAt(text, size, i, m, x) ==
    \/ m = 1 /\ OneUnit(text, size, i, x)
    \/ m = 2 /\ TwoUnits(text, size, i, x)

WideRead(x, m) == [valid |-> TRUE, code_point |-> x, units |-> m]

\* The code point that begins at i of a wide string, by the width of wchar_t.
LEMMA WideCases ==
  ASSUME NEW text, NEW i, NEW size
  PROVE  WideCodePoint(text, i, size) =
            IF size = 2 /\ IsHighSurrogate(text[i])
            THEN IF i < Len(text) /\ IsLowSurrogate(text[i + 1])
                 THEN WideRead(Pair(text[i], text[i + 1]), 2) ELSE Invalid
            ELSE IF \/ IsLowSurrogate(text[i])
                    \/ size = 4 /\ (IsHighSurrogate(text[i]) \/ text[i] > MAX_UNICODE_CODE_POINT)
            THEN Invalid ELSE WideRead(text[i], 1)
BY Zenon DEF WideCodePoint, WideRead

\* A code point is taken exactly where its units are.
LEMMA UnitsExact ==
  ASSUME NEW size \in {2, 4}, NEW text \in Seq(WideUnits(size)), NEW i \in 1 .. Len(text)
  PROVE  \/ \E m \in 1 .. 2 : \E x \in ScalarValues :
               UnitsAt(text, size, i, m, x) /\ WideCodePoint(text, i, size) = WideRead(x, m)
         \/ WideCodePoint(text, i, size) = Invalid /\ \A m, x : ~UnitsAt(text, size, i, m, x)
<1>1. text[i] \in Nat /\ (size = 2 => ~Astral(text[i]))
  <2>1. text[i] \in WideUnits(size)
    BY ElementOfSeq, Zenon
  <2> QED
    BY <2>1, Zenon DEF WideUnits
<1>2. i < Len(text) <=> i + 1 <= Len(text)
  <2>1. PICK n \in Nat : n = Len(text)
    BY LenProperties, Zenon
  <2> QED
    BY <2>1, SMT
<1>3. 1 \in 1 .. 2 /\ 2 \in 1 .. 2 /\ (size = 2 \/ size = 4) /\ ~(2 = 4)
  BY SMT
<1>4. text[i] \in ScalarValues =>
         ~IsHighSurrogate(text[i]) /\ ~IsLowSurrogate(text[i]) /\ text[i] <= MAX_UNICODE_CODE_POINT
  BY Zenon DEF ScalarValues
<1>5. CASE size = 2 /\ IsHighSurrogate(text[i]) /\ i + 1 <= Len(text) /\ IsLowSurrogate(text[i + 1])
  <2>1. PICK x \in ScalarValues : x = Pair(text[i], text[i + 1])
    BY <1>5, SurrogatePair, Zenon
  <2>2. WideCodePoint(text, i, size) = WideRead(x, 2)
    BY <1>2, <1>5, <2>1, WideCases, Zenon
  <2>3. UnitsAt(text, size, i, 2, x)
    BY <1>5, <2>1, Zenon DEF UnitsAt, TwoUnits
  <2> QED
    BY <1>3, <2>2, <2>3, Zenon
<1>6. CASE size = 2 /\ IsHighSurrogate(text[i]) /\ ~(i + 1 <= Len(text) /\ IsLowSurrogate(text[i + 1]))
  <2>1. WideCodePoint(text, i, size) = Invalid
    BY <1>2, <1>6, WideCases, Zenon
  <2>2. \A m, x : ~UnitsAt(text, size, i, m, x)
    BY <1>4, <1>6, Zenon DEF UnitsAt, OneUnit, TwoUnits
  <2> QED
    BY <2>1, <2>2, Zenon
<1>7. CASE IsLowSurrogate(text[i])
  <2>1. ~IsHighSurrogate(text[i])
    BY <1>7, SurrogateCases, Zenon
  <2>2. WideCodePoint(text, i, size) = Invalid
    BY <1>7, <2>1, WideCases, Zenon
  <2>3. \A m, x : ~UnitsAt(text, size, i, m, x)
    BY <1>4, <1>7, <2>1, Zenon DEF UnitsAt, OneUnit, TwoUnits
  <2> QED
    BY <2>2, <2>3, Zenon
<1>8. CASE size = 4 /\ (IsHighSurrogate(text[i]) \/ text[i] > MAX_UNICODE_CODE_POINT)
  <2>1. WideCodePoint(text, i, size) = Invalid
    BY <1>3, <1>8, WideCases, Zenon
  <2>2. text[i] \notin ScalarValues
    BY <1>1, <1>4, <1>8, SurrogateCases, Zenon
  <2>3. \A m, x : ~UnitsAt(text, size, i, m, x)
    BY <1>3, <1>8, <2>2, Zenon DEF UnitsAt, OneUnit, TwoUnits
  <2> QED
    BY <2>1, <2>3, Zenon
<1>9. CASE /\ ~IsLowSurrogate(text[i]) /\ ~IsHighSurrogate(text[i])
           /\ ~(size = 4 /\ text[i] > MAX_UNICODE_CODE_POINT)
  <2>1. text[i] \in ScalarValues
    BY <1>1, <1>3, <1>9, SurrogateCases, Zenon DEF ScalarValues
  <2>2. WideCodePoint(text, i, size) = WideRead(text[i], 1)
    BY <1>9, WideCases, Zenon
  <2>3. UnitsAt(text, size, i, 1, text[i])
    BY <1>1, <1>3, <2>1, Zenon DEF UnitsAt, OneUnit
  <2> QED
    BY <1>3, <2>1, <2>2, <2>3, Zenon
<1> QED
  BY <1>3, <1>5, <1>6, <1>7, <1>8, <1>9, Zenon

\* At most one code point has its units at a place.
LEMMA UnitsUnique ==
  ASSUME NEW text, NEW size, NEW i, NEW m, NEW x, NEW k, NEW y,
         UnitsAt(text, size, i, m, x), UnitsAt(text, size, i, k, y)
  PROVE  m = k /\ x = y
<1>1. text[i] \in ScalarValues => ~IsHighSurrogate(text[i])
  BY Zenon DEF ScalarValues
<1> QED
  BY <1>1, Zenon DEF UnitsAt, OneUnit, TwoUnits

\* They are what Units gives for x.
LEMMA UnitsAtAre ==
  ASSUME NEW size \in {2, 4}, NEW text \in Seq(WideUnits(size)), NEW i \in 1 .. Len(text),
         NEW m, NEW x, UnitsAt(text, size, i, m, x)
  PROVE  /\ m \in 1 .. 2 /\ x \in ScalarValues
         /\ i + m \in i + 1 .. Len(text) + 1
         /\ Units(x, size) = SubSeq(text, i, i + m - 1)
<1>1. PICK n \in Nat : n = Len(text)
  BY LenProperties, Zenon
<1>2. CASE m = 1 /\ OneUnit(text, size, i, x)
  <2>1. x \in ScalarValues /\ x \in Nat
    BY <1>2, Zenon DEF OneUnit, ScalarValues
  <2>2. Units(x, size) = <<text[i]>>
    BY <1>2, <2>1, UnitsOne, Zenon DEF OneUnit
  <2>3. SubSeq(text, i, i) = <<text[i]>>
    BY Pieces, Zenon
  <2>4. m \in 1 .. 2 /\ i + m \in i + 1 .. Len(text) + 1 /\ i + m - 1 = i
    BY <1>1, <1>2, SMT
  <2> QED
    BY <2>1, <2>2, <2>3, <2>4, Zenon
<1>3. CASE m = 2 /\ TwoUnits(text, size, i, x)
  <2>1. /\ x \in ScalarValues /\ i + 1 <= Len(text)
        /\ Units(x, size) = <<text[i], text[i + 1]>>
    BY <1>3, SurrogatePair, Zenon DEF TwoUnits
  <2>2. SubSeq(text, i, i + 1) = <<text[i], text[i + 1]>>
    BY <2>1, Pieces, Zenon
  <2>3. m \in 1 .. 2 /\ i + m \in i + 1 .. Len(text) + 1 /\ i + m - 1 = i + 1
    BY <1>1, <1>3, <2>1, SMT
  <2> QED
    BY <2>1, <2>2, <2>3, Zenon
<1> QED
  BY <1>2, <1>3, Zenon DEF UnitsAt

\* What Units gives for a scalar value is read as that value.
LEMMA ScalarUnits ==
  ASSUME NEW size \in {2, 4}, NEW x \in ScalarValues
  PROVE  /\ Units(x, size) \in Seq(WideUnits(size))
         /\ Len(Units(x, size)) \in 1 .. 2
         /\ \A r \in Seq(WideUnits(size)) :
               UnitsAt(Units(x, size) \o r, size, 1, Len(Units(x, size)), x)
<1>1. x \in Nat
  BY Zenon DEF ScalarValues
<1>2. (size = 2 \/ size = 4) /\ 1 \in 1 .. 2 /\ 2 \in 1 .. 2 /\ ~(2 = 4)
  BY SMT
<1>3. PICK S : S = WideUnits(size)
  BY Zenon
<1>4. CASE size = 4 \/ ~Astral(x)
  <2>1. PICK u : u = <<x>> /\ Units(x, size) = u
    BY <1>1, <1>4, UnitsOne, Zenon
  <2>2. x \in S
    BY <1>1, <1>2, <1>3, <1>4, Zenon DEF WideUnits
  <2>3. ASSUME NEW r \in Seq(S)
        PROVE  u \in Seq(S) /\ Len(u) = 1 /\ (u \o r)[1] = x
    <3>1. u \in Seq(S) /\ Len(u) = 1
      BY <2>1, <2>2, JoinedOne, Zenon
    <3>2. (u \o r)[1] = x
      BY <2>1, <2>2, JoinedOne, SMT
    <3> QED
      BY <3>1, <3>2
  <2>4. <<>> \in Seq(S)
    BY EmptySeq, Zenon
  <2>5. ASSUME NEW r \in Seq(S)
        PROVE  UnitsAt(u \o r, size, 1, 1, x)
    BY <1>4, <2>3, <2>5, Zenon DEF UnitsAt, OneUnit
  <2> QED
    BY <1>2, <1>3, <2>1, <2>3, <2>4, <2>5, Zenon
<1>5. CASE size = 2 /\ Astral(x)
  <2>1. PICK a, b : IsHighSurrogate(a) /\ IsLowSurrogate(b) /\ x = Pair(a, b)
    BY <1>5, PairExists, Zenon
  <2>2. PICK u : u = <<a, b>> /\ Units(x, size) = u
    BY <1>5, <2>1, SurrogatePair, Zenon
  <2>3. a \in S /\ b \in S
    BY <1>3, <2>1, SurrogateCases, Zenon DEF WideUnits
  <2>4. ASSUME NEW r \in Seq(S)
        PROVE  /\ u \in Seq(S) /\ Len(u) = 2 /\ 1 + 1 <= Len(u \o r)
               /\ (u \o r)[1] = a /\ (u \o r)[1 + 1] = b
    <3>1. u \in Seq(S) /\ Len(u) = 2
      BY <2>2, <2>3, JoinedTwo, Zenon
    <3>2. 1 + 1 <= Len(u \o r) /\ (u \o r)[1] = a /\ (u \o r)[1 + 1] = b
      BY <2>2, <2>3, JoinedTwo, SMT
    <3> QED
      BY <3>1, <3>2
  <2>5. <<>> \in Seq(S)
    BY EmptySeq, Zenon
  <2>6. ASSUME NEW r \in Seq(S)
        PROVE  UnitsAt(u \o r, size, 1, 2, x)
    BY <1>5, <2>1, <2>4, <2>6, Zenon DEF UnitsAt, TwoUnits
  <2> QED
    BY <1>2, <1>3, <2>2, <2>4, <2>5, <2>6, Zenon
<1> QED
  BY <1>2, <1>4, <1>5, Zenon

-----------------------------------------------------------------------------
(* WstringToString as a walk.                                              *)

EncodePiece(text, size) ==
    [i \in 1 .. Len(text) |->
        IF WideCodePoint(text, i, size).valid
        THEN Encoded(WideCodePoint(text, i, size).code_point) ELSE <<>>]
EncodeNext(text, size) ==
    [i \in 1 .. Len(text) |->
        IF WideCodePoint(text, i, size).valid THEN i + WideCodePoint(text, i, size).units ELSE 0]

\* What one round of the loop does.
EncodesTo(text, size, i, m, x) ==
    /\ m \in 1 .. 2
    /\ x \in ScalarValues
    /\ i + m \in i + 1 .. Len(text) + 1
    /\ UnitsAt(text, size, i, m, x)
    /\ EncodePiece(text, size)[i] = Encoded(x)
    /\ EncodeNext(text, size)[i] = i + m

Unencoded(text, size, i) ==
    /\ EncodePiece(text, size)[i] = <<>>
    /\ EncodeNext(text, size)[i] = 0
    /\ \A m, x : ~UnitsAt(text, size, i, m, x)

LEMMA EncodeValues ==
  ASSUME NEW size, NEW text, NEW i \in 1 .. Len(text)
  PROVE  /\ EncodePiece(text, size)[i] = IF WideCodePoint(text, i, size).valid
                                         THEN Encoded(WideCodePoint(text, i, size).code_point)
                                         ELSE <<>>
         /\ EncodeNext(text, size)[i] = IF WideCodePoint(text, i, size).valid
                                        THEN i + WideCodePoint(text, i, size).units ELSE 0
BY Zenon DEF EncodePiece, EncodeNext

\* A round of WstringToString either gives up or writes a code point and gets on.
LEMMA EncodeRound ==
  ASSUME NEW size \in {2, 4}, NEW text \in Seq(WideUnits(size)), NEW i \in 1 .. Len(text)
  PROVE  Unencoded(text, size, i) \/ \E m, x : EncodesTo(text, size, i, m, x)
<1>1. CASE WideCodePoint(text, i, size) = Invalid /\ \A m, x : ~UnitsAt(text, size, i, m, x)
  <2>1. ~Invalid.valid
    BY DEF Invalid
  <2> QED
    BY <1>1, <2>1, EncodeValues, Zenon DEF Unencoded
<1>2. ASSUME NEW m \in 1 .. 2, NEW x \in ScalarValues, UnitsAt(text, size, i, m, x),
             WideCodePoint(text, i, size) = WideRead(x, m)
      PROVE  EncodesTo(text, size, i, m, x)
  <2>1. WideRead(x, m).valid /\ WideRead(x, m).code_point = x /\ WideRead(x, m).units = m
    BY DEF WideRead
  <2>2. i + m \in i + 1 .. Len(text) + 1
    BY <1>2, UnitsAtAre, Zenon
  <2>3. EncodePiece(text, size)[i] = Encoded(x) /\ EncodeNext(text, size)[i] = i + m
    <3>1. /\ WideCodePoint(text, i, size).valid /\ WideCodePoint(text, i, size).code_point = x
          /\ WideCodePoint(text, i, size).units = m
      BY <1>2, <2>1, Zenon
    <3>2. /\ EncodePiece(text, size)[i] = IF WideCodePoint(text, i, size).valid
                                         THEN Encoded(WideCodePoint(text, i, size).code_point)
                                         ELSE <<>>
          /\ EncodeNext(text, size)[i] = IF WideCodePoint(text, i, size).valid
                                         THEN i + WideCodePoint(text, i, size).units ELSE 0
      BY EncodeValues, Zenon
    <3> QED
      BY <3>1, <3>2, Zenon
  <2> QED
    BY <1>2, <2>2, <2>3, Zenon DEF EncodesTo
<1> QED
  BY <1>1, <1>2, UnitsExact, Zenon

LEMMA EncodeRoute ==
  ASSUME NEW size \in {2, 4}, NEW text \in Seq(WideUnits(size))
  PROVE  IsRoute(Len(text), EncodePiece(text, size), EncodeNext(text, size), Byte)
<1>1. Len(text) \in Nat
  BY LenProperties, Zenon
<1>2. ASSUME NEW i \in 1 .. Len(text)
      PROVE  /\ EncodePiece(text, size)[i] \in Seq(Byte)
             /\ EncodeNext(text, size)[i] \in 0 .. Len(text) + 1
             /\ EncodeNext(text, size)[i] # 0 => EncodeNext(text, size)[i] \in i + 1 .. Len(text) + 1
  <2>1. CASE Unencoded(text, size, i)
    <3>1. <<>> \in Seq(Byte) /\ 0 \in 0 .. Len(text) + 1
      BY <1>1
    <3> QED
      BY <2>1, <3>1, Zenon DEF Unencoded
  <2>2. ASSUME NEW m, NEW x, EncodesTo(text, size, i, m, x)
        PROVE  /\ EncodePiece(text, size)[i] \in Seq(Byte)
               /\ EncodeNext(text, size)[i] \in 0 .. Len(text) + 1
               /\ EncodeNext(text, size)[i] # 0 => EncodeNext(text, size)[i] \in i + 1 .. Len(text) + 1
    <3>1. Encoded(x) \in Seq(Byte)
      BY <2>2, ScalarBytes, Zenon DEF EncodesTo, Byte
    <3>2. PICK j : j = i + m /\ j \in i + 1 .. Len(text) + 1
      BY <2>2, Zenon DEF EncodesTo
    <3>3. j \in 0 .. Len(text) + 1
      BY <1>1, <3>2
    <3> QED
      BY <2>2, <3>1, <3>2, <3>3, Zenon DEF EncodesTo
  <2> QED
    BY <2>1, <2>2, EncodeRound, Zenon
<1>3. EncodePiece(text, size) \in [1 .. Len(text) -> Seq(Byte)]
  BY <1>2, Zenon DEF EncodePiece
<1>4. EncodeNext(text, size) \in [1 .. Len(text) -> 0 .. Len(text) + 1]
  BY <1>2, Zenon DEF EncodeNext
<1> QED
  BY <1>2, <1>3, <1>4, Zenon DEF IsRoute

IsEncoding(f, text, size) ==
    IsWalk(f, Len(text), EncodePiece(text, size), EncodeNext(text, size))

\* The recursive function of WstringToString is a walk.
LEMMA EncodeFromIs ==
  ASSUME NEW size \in {2, 4}, NEW text \in Seq(WideUnits(size))
  PROVE  \E f \in [1 .. Len(text) + 1 -> Results(Byte)] :
            IsEncoding(f, text, size) /\ EncodeFrom(text, size) = f[1]
<1> DEFINE n == Len(text)
           I == 1 .. n + 1
           value(f, i) == IF i > n THEN NoUnits
                          ELSE LET w == WideCodePoint(text, i, size)
                               IN  IF w.valid
                                   THEN Prepend(AppendUtf8(<<>>, w.code_point), f[i + w.units])
                                   ELSE Invalid
           from == CHOOSE f : f = [i \in I |-> value(f, i)]
<1>1. n \in Nat
  BY LenProperties, Zenon
<1>2. IsRoute(n, EncodePiece(text, size), EncodeNext(text, size), Byte)
  BY EncodeRoute, Zenon
<1>3. PICK f \in [I -> Results(Byte)] : IsEncoding(f, text, size)
  BY <1>1, <1>2, WalkExists, Zenon DEF IsEncoding
<1>4. ASSUME NEW g, NEW i \in I
      PROVE  value(g, i) = IF i > n THEN NoUnits
                           ELSE IF EncodeNext(text, size)[i] # 0
                           THEN Prepend(EncodePiece(text, size)[i], g[EncodeNext(text, size)[i]])
                           ELSE Invalid
  <2>1. CASE i > n
    BY <2>1, Zenon
  <2>2. CASE ~(i > n)
    <3>1. i \in 1 .. n
      BY <1>1, <2>2
    <3>2. /\ EncodePiece(text, size)[i] = IF WideCodePoint(text, i, size).valid
                                          THEN AppendUtf8(<<>>, WideCodePoint(text, i, size).code_point)
                                          ELSE <<>>
          /\ EncodeNext(text, size)[i] = IF WideCodePoint(text, i, size).valid
                                         THEN i + WideCodePoint(text, i, size).units ELSE 0
      BY <3>1, EncodeValues, Zenon DEF Encoded
    <3>3. CASE WideCodePoint(text, i, size).valid
      <4>1. EncodeNext(text, size)[i] # 0
        <5>1. \E m, x : EncodesTo(text, size, i, m, x)
          <6>1. ~Unencoded(text, size, i)
            <7>1. WideCodePoint(text, i, size) # Invalid
              BY <3>3 DEF Invalid
            <7> QED
              BY <3>1, <7>1, UnitsExact, Zenon DEF Unencoded
          <6> QED
            BY <3>1, <6>1, EncodeRound, Zenon
        <5>2. PICK j : j = EncodeNext(text, size)[i] /\ j \in i + 1 .. Len(text) + 1
          BY <5>1, Zenon DEF EncodesTo
        <5> QED
          BY <1>1, <3>1, <5>2
      <4> QED
        BY <2>2, <3>2, <3>3, <4>1, Zenon
    <3>4. CASE ~WideCodePoint(text, i, size).valid
      BY <2>2, <3>2, <3>4, Zenon
    <3> QED
      BY <3>3, <3>4
  <2> QED
    BY <2>1, <2>2
<1>5. EncodeFrom(text, size) = from[1]
  BY Zenon DEF EncodeFrom
<1> HIDE DEF value
<1>6. \A i \in I : f[i] = value(f, i)
  BY <1>3, <1>4, Zenon DEF IsEncoding, IsWalk
<1>7. f = [i \in I |-> value(f, i)]
  BY <1>6
<1>8. from = [i \in I |-> value(from, i)]
  BY <1>7, Zenon
<1> HIDE DEF from
<1>9. \A i \in I : from[i] = value(from, i)
  BY <1>8
<1>10. IsEncoding(from, text, size)
  BY <1>4, <1>9, Zenon DEF IsEncoding, IsWalk
<1>11. 1 \in I
  BY <1>1
<1>12. from[1] = f[1]
  <2>1. IsWalk(f, n, EncodePiece(text, size), EncodeNext(text, size))
    BY <1>3, Zenon DEF IsEncoding
  <2>2. IsWalk(from, n, EncodePiece(text, size), EncodeNext(text, size))
    BY <1>10, Zenon DEF IsEncoding
  <2> HIDE DEF n
  <2>3. \A i \in 1 .. n + 1 : from[i] = f[i]
    BY <1>1, <1>2, <2>1, <2>2, WalkUnique
  <2> QED
    BY <1>11, <2>3, Zenon
<1> QED
  BY <1>3, <1>5, <1>12, Zenon

LEMMA UnitsAtSame ==
  ASSUME NEW text, NEW i, NEW more, NEW j, NEW size,
         Same(text, i, more, j), NEW m, NEW x, UnitsAt(text, size, i, m, x)
  PROVE  UnitsAt(more, size, j, m, x)
BY Zenon DEF UnitsAt, OneUnit, TwoUnits, Same

\* What the encoder does at a place depends on the text from there only.
LEMMA EncodeSame ==
  ASSUME NEW size \in {2, 4}, NEW text \in Seq(WideUnits(size)), NEW more \in Seq(WideUnits(size)),
         NEW i \in 1 .. Len(text), NEW j \in 1 .. Len(more),
         Same(text, i, more, j), Same(more, j, text, i)
  PROVE  \/ \E m, x : EncodesTo(text, size, i, m, x) /\ EncodesTo(more, size, j, m, x)
         \/ Unencoded(text, size, i) /\ Unencoded(more, size, j)
<1>1. CASE Unencoded(text, size, i)
  <2>1. ASSUME NEW m, NEW x
        PROVE  ~UnitsAt(more, size, j, m, x)
    <3>1. SUFFICES ASSUME UnitsAt(more, size, j, m, x)
                   PROVE  FALSE
      OBVIOUS
    <3>2. UnitsAt(text, size, i, m, x)
      BY <3>1, UnitsAtSame, Zenon
    <3> QED
      BY <1>1, <3>2, Zenon DEF Unencoded
  <2>2. ~\E m, x : EncodesTo(more, size, j, m, x)
    BY <2>1, Zenon DEF EncodesTo
  <2> QED
    BY <1>1, <2>2, EncodeRound, Zenon
<1>2. ASSUME NEW m, NEW x, EncodesTo(text, size, i, m, x)
      PROVE  EncodesTo(more, size, j, m, x)
  <2>1. UnitsAt(more, size, j, m, x)
    <3>1. UnitsAt(text, size, i, m, x)
      BY <1>2, Zenon DEF EncodesTo
    <3> QED
      BY <3>1, UnitsAtSame, Zenon
  <2>2. ~Unencoded(more, size, j)
    BY <2>1, Zenon DEF Unencoded
  <2>3. PICK k, y : EncodesTo(more, size, j, k, y)
    BY <2>2, EncodeRound, Zenon
  <2>4. UnitsAt(more, size, j, k, y)
    BY <2>3, Zenon DEF EncodesTo
  <2>5. k = m /\ y = x
    BY <2>1, <2>4, UnitsUnique, Zenon
  <2> QED
    BY <2>3, <2>5, Zenon
<1> QED
  BY <1>1, <1>2, EncodeRound, Zenon

\* WstringToString reads one code point and goes on behind it.
LEMMA EncodeJoin ==
  ASSUME NEW size \in {2, 4}, NEW x \in ScalarValues, NEW r \in Seq(WideUnits(size))
  PROVE  EncodeFrom(Units(x, size) \o r, size) = Prepend(Encoded(x), EncodeFrom(r, size))
<1>1. PICK u \in Seq(WideUnits(size)) :
         /\ u = Units(x, size) /\ Len(u) \in 1 .. 2
         /\ UnitsAt(u \o r, size, 1, Len(u), x)
  BY ScalarUnits, Zenon
<1>2. PICK v : v = u \o r
  BY Zenon
<1>3. v \in Seq(WideUnits(size)) /\ Len(v) = Len(u) + Len(r)
  BY <1>2, ConcatProperties, Zenon
<1>4. PICK k \in 1 .. 2 : k = Len(u)
  BY <1>1, Zenon
<1>5. PICK n \in Nat : n = Len(r)
  BY LenProperties, Zenon
<1>6. n + k = Len(v) /\ k \in Nat /\ 1 \in 1 .. Len(v) /\ 1 + k # 0 /\ 1 \in 1 .. n + 1
  BY <1>3, <1>4, <1>5, SMT
<1>7. PICK f \in [1 .. Len(r) + 1 -> Results(Byte)] :
         IsEncoding(f, r, size) /\ EncodeFrom(r, size) = f[1]
  BY EncodeFromIs, Zenon
<1>8. PICK g \in [1 .. Len(v) + 1 -> Results(Byte)] :
         IsEncoding(g, v, size) /\ EncodeFrom(v, size) = g[1]
  BY <1>3, EncodeFromIs, Zenon
<1>9. ASSUME NEW i \in 1 .. n
      PROVE  /\ EncodePiece(v, size)[i + k] = EncodePiece(r, size)[i]
             /\ EncodeNext(v, size)[i + k] =
                   IF EncodeNext(r, size)[i] = 0 THEN 0 ELSE EncodeNext(r, size)[i] + k
  <2>1. PICK j : j = i + Len(u)
    BY Zenon
  <2>2. j \in 1 .. Len(v) /\ Same(r, i, v, j) /\ Same(v, j, r, i) /\ i \in 1 .. Len(r)
    <3>1. i \in 1 .. Len(r)
      BY <1>5, Zenon
    <3> QED
      BY <1>2, <2>1, <3>1, Shifted, Zenon
  <2>3. CASE Unencoded(r, size, i) /\ Unencoded(v, size, j)
    BY <1>4, <2>1, <2>3, Zenon DEF Unencoded
  <2>4. ASSUME NEW m, NEW y, EncodesTo(r, size, i, m, y), EncodesTo(v, size, j, m, y)
        PROVE  /\ EncodePiece(v, size)[j] = EncodePiece(r, size)[i]
               /\ EncodeNext(v, size)[j] = EncodeNext(r, size)[i] + k
               /\ EncodeNext(r, size)[i] # 0
    <3>1. /\ EncodePiece(v, size)[j] = EncodePiece(r, size)[i]
          /\ EncodeNext(v, size)[j] = j + m /\ EncodeNext(r, size)[i] = i + m /\ m \in 1 .. 2
      BY <2>4, Zenon DEF EncodesTo
    <3>2. PICK q \in 1 .. 2 : q = m
      BY <3>1, Zenon
    <3>3. j = i + k
      BY <1>4, <2>1, Zenon
    <3>4. j + q = (i + q) + k /\ i + q # 0
      BY <3>3, SMT
    <3> QED
      BY <3>1, <3>2, <3>4, Zenon
  <2>5. CASE \E m, y : EncodesTo(r, size, i, m, y) /\ EncodesTo(v, size, j, m, y)
    BY <1>4, <2>1, <2>4, <2>5, Zenon
  <2> QED
    BY <1>3, <1>5, <2>2, <2>3, <2>5, EncodeSame, Zenon
<1>10. g[1 + k] = f[1]
  <2>1. IsWalk(f, n, EncodePiece(r, size), EncodeNext(r, size))
    BY <1>5, <1>7, Zenon DEF IsEncoding
  <2>2. IsWalk(g, n + k, EncodePiece(v, size), EncodeNext(v, size))
    BY <1>6, <1>8, Zenon DEF IsEncoding
  <2>3. IsRoute(n, EncodePiece(r, size), EncodeNext(r, size), Byte)
    BY <1>5, EncodeRoute, Zenon
  <2>4. PICK p, t : p = EncodePiece(r, size) /\ t = EncodeNext(r, size)
    BY Zenon
  <2>5. PICK pp, tt : pp = EncodePiece(v, size) /\ tt = EncodeNext(v, size)
    BY Zenon
  <2>6. SameWay(f, n, p, t, g, k, pp, tt)
    BY <1>9, <2>1, <2>2, <2>3, <2>4, <2>5, Zenon DEF Ahead, SameWay
  <2>7. PICK j \in Nat : j = k
    BY <1>6
  <2>8. \A i \in 1 .. n + 1 : g[i + j] = f[i]
    <3>1. SameWay(f, n, p, t, g, j, pp, tt)
      BY <2>6, <2>7, Zenon
    <3>2. Agree(f, n, g, j)
      BY <3>1, WalkShift, Zenon
    <3> QED
      BY <3>2, Zenon DEF Agree
  <2> QED
    BY <1>6, <2>7, <2>8, Zenon
<1>11. g[1] = Prepend(Encoded(x), g[1 + k])
  <2>1. EncodePiece(v, size)[1] = Encoded(x) /\ EncodeNext(v, size)[1] = 1 + k
    <3>1. UnitsAt(v, size, 1, k, x)
      BY <1>1, <1>2, <1>4, Zenon
    <3>2. PICK m, y : EncodesTo(v, size, 1, m, y)
      BY <1>3, <1>6, <3>1, EncodeRound, Zenon DEF Unencoded
    <3>3. m = k /\ y = x
      BY <3>1, <3>2, UnitsUnique, Zenon DEF EncodesTo
    <3> QED
      BY <3>2, <3>3, Zenon DEF EncodesTo
  <2>2. PICK l \in Nat : l = Len(v) /\ 1 \in 1 .. l /\ 1 \in 1 .. l + 1 /\ ~(1 > l)
    <3>1. Len(v) \in Nat
      BY <1>3, LenProperties, Zenon
    <3>2. \A l \in Nat : 1 \in 1 .. l => 1 \in 1 .. l + 1 /\ ~(1 > l)
      BY SMT
    <3> QED
      BY <1>6, <3>1, <3>2, Zenon
  <2>3. g[1] = IF EncodeNext(v, size)[1] # 0
               THEN Prepend(EncodePiece(v, size)[1], g[EncodeNext(v, size)[1]]) ELSE Invalid
    <3>1. IsWalk(g, l, EncodePiece(v, size), EncodeNext(v, size))
      BY <1>8, <2>2, Zenon DEF IsEncoding
    <3>2. g[1] = IF 1 > l THEN NoUnits
                 ELSE IF EncodeNext(v, size)[1] # 0
                 THEN Prepend(EncodePiece(v, size)[1], g[EncodeNext(v, size)[1]]) ELSE Invalid
      BY <2>2, <3>1, Zenon DEF IsWalk
    <3> QED
      BY <2>2, <3>2, Zenon
  <2> QED
    BY <1>6, <2>1, <2>3, Zenon
<1> QED
  BY <1>1, <1>2, <1>7, <1>8, <1>10, <1>11, Zenon

-----------------------------------------------------------------------------
(* There and back again.                                                   *)

\* back undoes what the walk puts out for text[i .. next[i] - 1].
Undoes(back, n, text, piece, next, S) ==
    \A i \in 1 .. n : next[i] # 0 =>
        \A r \in Seq(S) : back[piece[i] \o r] = Prepend(SubSeq(text, i, next[i] - 1), back[r])

Valid(text) == [valid |-> TRUE, text |-> text]

LEMMA ValidFields ==
  ASSUME NEW text
  PROVE  Valid(text).valid /\ Valid(text).text = text
BY DEF Valid

\* The rest of a text is its next piece and what follows.
LEMMA RestSplit ==
  ASSUME NEW S, NEW text \in Seq(S), NEW n \in Nat, n = Len(text), NEW i \in 1 .. n, NEW j \in i + 1 .. n + 1
  PROVE  SubSeq(text, i, j - 1) \o SubSeq(text, j, n) = SubSeq(text, i, n)
<1>1. PICK k \in i .. n : k = j - 1 /\ k + 1 = j
  <2>1. j - 1 \in i .. n /\ (j - 1) + 1 = j
    OBVIOUS
  <2> QED
    BY <2>1
<1>2. SubSeq(text, i, k) \o SubSeq(text, k + 1, n) = SubSeq(text, i, n)
  <2>1. i \in 1 .. Len(text) + 1 /\ k \in i - 1 .. Len(text) /\ n \in k .. Len(text)
    BY <1>1
  <2> QED
    BY <2>1, ConcatAdjacentSubSeq
<1> QED
  BY <1>1, <1>2

\* A conversion that undoes each piece of a walk undoes the walk.
LEMMA RoundTrip ==
  ASSUME NEW A, NEW S, NEW text \in Seq(A), NEW n \in Nat, n = Len(text),
         NEW piece, NEW next, IsRoute(n, piece, next, S),
         NEW f \in [1 .. n + 1 -> Results(S)], IsWalk(f, n, piece, next),
         NEW back, back[<<>>] = NoUnits, Undoes(back, n, text, piece, next, S)
  PROVE  \A i \in 1 .. n + 1 :
            f[i].valid => f[i].text \in Seq(S) /\ back[f[i].text] = Valid(SubSeq(text, i, n))
<1> DEFINE K == {i \in 1 .. n + 1 :
                    f[i].valid => f[i].text \in Seq(S) /\ back[f[i].text] = Valid(SubSeq(text, i, n))}
<1>1. n + 1 \in K
  <2>1. f[n + 1] = NoUnits
    BY WalkSteps, Zenon
  <2>2. NoUnits.text = <<>> /\ NoUnits = Valid(<<>>)
    BY DEF NoUnits, Valid
  <2>3. <<>> \in Seq(S) /\ SubSeq(text, n + 1, n) = <<>> /\ n + 1 \in 1 .. n + 1
    BY SubSeqEmpty
  <2> QED
    BY <2>1, <2>2, <2>3
<1>2. ASSUME NEW i \in 1 .. n, \A j \in i + 1 .. n + 1 : j \in K
      PROVE  i \in K
  <2>1. i \in 1 .. n + 1
    OBVIOUS
  <2>2. f[i] = IF next[i] # 0 THEN Prepend(piece[i], f[next[i]]) ELSE Invalid
    <3>1. WalkStep(f, i, piece, next)
      BY WalkSteps, Zenon
    <3> QED
      BY <3>1, Zenon DEF WalkStep
  <2>3. CASE next[i] = 0
    <3>1. ~f[i].valid
      BY <2>2, <2>3 DEF Invalid
    <3> QED
      BY <2>1, <3>1
  <2>4. CASE next[i] # 0
    <3>1. PICK j : j = next[i] /\ j \in i + 1 .. n + 1
      BY <2>4 DEF IsRoute
    <3>2. f[j] \in Results(S) /\ piece[i] \in Seq(S)
      <4>1. j \in 1 .. n + 1
        BY <3>1
      <4> QED
        BY <4>1, Zenon DEF IsRoute
    <3>3. f[i] = Prepend(piece[i], f[j])
      BY <2>2, <2>4, <3>1, Zenon
    <3>4. ASSUME f[i].valid
          PROVE  f[i].text \in Seq(S) /\ back[f[i].text] = Valid(SubSeq(text, i, n))
      <4>1. f[j].valid /\ f[i].text = piece[i] \o f[j].text
        <5>1. Prepend(piece[i], f[j]).valid
          BY <3>3, <3>4, Zenon
        <5>2. Prepend(piece[i], f[j]).valid <=> f[j].valid
          BY <3>2, PrependTyped
        <5>3. f[j].valid => Prepend(piece[i], f[j]).text = piece[i] \o f[j].text
          BY PrependValid, Zenon
        <5> QED
          BY <3>3, <5>1, <5>2, <5>3, Zenon
      <4>2. f[j].text \in Seq(S) /\ back[f[j].text] = Valid(SubSeq(text, j, n))
        BY <1>2, <3>1, <4>1
      <4>3. piece[i] \o f[j].text \in Seq(S)
        BY <3>2, <4>2, ConcatProperties, Zenon
      <4>4. back[f[i].text] = Prepend(SubSeq(text, i, j - 1), Valid(SubSeq(text, j, n)))
        <5>1. PICK r \in Seq(S) : r = f[j].text
          BY <4>2, Zenon
        <5>2. back[piece[i] \o r] = Prepend(SubSeq(text, i, next[i] - 1), back[r])
          BY <2>4, Zenon DEF Undoes
        <5>3. back[piece[i] \o r] = Prepend(SubSeq(text, i, j - 1), back[r])
          BY <3>1, <5>2, Zenon
        <5> QED
          BY <4>1, <4>2, <5>1, <5>3, Zenon
      <4>5. back[f[i].text] = Valid(SubSeq(text, i, j - 1) \o SubSeq(text, j, n))
        BY <4>4, ValidFields, Zenon DEF Prepend, Valid
      <4> QED
        BY <3>1, <4>1, <4>3, <4>5, RestSplit, Zenon
    <3> QED
      BY <2>1, <3>4
  <2> QED
    BY <2>3, <2>4
<1>3. 1 .. n + 1 \subseteq K
  <2> HIDE DEF K
  <2> QED
    BY <1>1, <1>2, DownInduction
<1> QED
  BY <1>3

\* A walk arrives when it gives up nowhere on its way.
LEMMA WalkValid ==
  ASSUME NEW n \in Nat, NEW S, NEW piece, NEW next, IsRoute(n, piece, next, S),
         NEW f \in [1 .. n + 1 -> Results(S)], IsWalk(f, n, piece, next), NEW i \in 1 .. n
  PROVE  f[i].valid <=> next[i] # 0 /\ f[next[i]].valid
<1>1. f[i] = IF next[i] # 0 THEN Prepend(piece[i], f[next[i]]) ELSE Invalid
  <2>1. WalkStep(f, i, piece, next)
    BY WalkSteps, Zenon
  <2> QED
    BY <2>1, Zenon DEF WalkStep
<1>2. CASE next[i] = 0
  BY <1>1, <1>2 DEF Invalid
<1>3. CASE next[i] # 0
  <2>1. PICK j : j = next[i] /\ j \in 1 .. n + 1
    BY <1>3 DEF IsRoute
  <2>2. f[j] \in Results(S) /\ piece[i] \in Seq(S)
    BY <2>1, Zenon DEF IsRoute
  <2>3. f[i] = Prepend(piece[i], f[j])
    BY <1>1, <1>3, <2>1, Zenon
  <2>4. f[i].valid <=> f[j].valid
    <3>1. Prepend(piece[i], f[j]).valid <=> f[j].valid
      BY <2>2, PrependTyped
    <3> QED
      BY <2>3, <3>1, Zenon
  <2> QED
    BY <1>3, <2>1, <2>4
<1> QED
  BY <1>2, <1>3

LEMMA EmptyWalks ==
  ASSUME NEW size
  PROVE  /\ DecodeFrom(<<>>, size) = NoUnits
         /\ size \in {2, 4} => EncodeFrom(<<>>, size) = NoUnits
<1>1. PICK e : e = <<>>
  BY Zenon
<1>2. Len(e) = 0 /\ \A S : e \in Seq(S)
  BY <1>1, EmptySeq, Zenon
<1>3. 1 \in 1 .. 0 + 1 /\ 1 > 0
  BY SMT
<1>4. DecodeFrom(e, size) = NoUnits
  <2>1. e \in Seq(0 .. 255)
    BY <1>2, Zenon
  <2>2. PICK f : IsDecoding(f, e, size) /\ DecodeFrom(e, size) = f[1]
    BY <2>1, DecodeFromIs, Zenon
  <2>3. IsWalk(f, 0, DecodePiece(e, size), DecodeNext(e))
    BY <1>2, <2>2, Zenon DEF IsDecoding
  <2>4. f[1] = NoUnits
    BY <1>3, <2>3, Zenon DEF IsWalk
  <2> QED
    BY <2>2, <2>4, Zenon
<1>5. ASSUME size \in {2, 4}
      PROVE  EncodeFrom(e, size) = NoUnits
  <2>1. e \in Seq(WideUnits(size))
    BY <1>2, Zenon
  <2>2. PICK f : IsEncoding(f, e, size) /\ EncodeFrom(e, size) = f[1]
    BY <1>5, <2>1, EncodeFromIs, Zenon
  <2>3. IsWalk(f, 0, EncodePiece(e, size), EncodeNext(e, size))
    BY <1>2, <2>2, Zenon DEF IsEncoding
  <2>4. f[1] = NoUnits
    BY <1>3, <2>3, Zenon DEF IsWalk
  <2> QED
    BY <2>2, <2>4, Zenon
<1> QED
  BY <1>1, <1>4, <1>5, Zenon

-----------------------------------------------------------------------------
(* IsUtf8, without its recursion.                                          *)

\* From i on, text consists of rows of the table.
Rows(text, U, i) ==
    i > Len(text) \/ \E row \in WellFormed : Fits(text, i, row) /\ U[i + Len(row)]

LEMMA RowsBack ==
  ASSUME NEW text \in Seq(0 .. 255), NEW i \in 1 .. Len(text), NEW row \in WellFormed, Fits(text, i, row)
  PROVE  i + Len(row) \in i + 1 .. Len(text) + 1
BY RowSpells, SpellsBytes, Zenon

\* The recursion in IsUtf8 may be unfolded.
LEMMA IsUtf8Is ==
  ASSUME NEW text \in Seq(0 .. 255)
  PROVE  \E U : /\ IsUtf8(text) <=> U[1]
                /\ \A i \in 1 .. Len(text) + 1 : U[i] <=> Rows(text, U, i)
<1> DEFINE n == Len(text)
           I == 1 .. n + 1
           V == BOOLEAN
           from == CHOOSE f : f = [i \in I |-> Rows(text, f, i)]
           body == [f \in [I -> V] |-> [i \in I |-> Rows(text, f, i)]]
<1>1. n \in Nat
  BY LenProperties, Zenon
<1>2. \A i \in I : ~(i > n) => i \in 1 .. n
  BY <1>1
<1>3. body \in [[I -> V] -> [I -> V]]
  <2>1. \A f : \A i \in I : Rows(text, f, i) \in V
    BY Zenon DEF Rows
  <2> HIDE DEF I, V
  <2> QED
    BY <2>1, Zenon
<1>4. ASSUME NEW f \in [I -> V], NEW g \in [I -> V], NEW i \in I,
             \A j \in i + 1 .. n + 1 : f[j] = g[j]
      PROVE  body[f][i] = body[g][i]
  <2>1. Rows(text, f, i) <=> Rows(text, g, i)
    <3>1. CASE i > n
      BY <3>1, Zenon DEF Rows
    <3>2. CASE ~(i > n)
      <4>1. i \in 1 .. Len(text)
        BY <1>2, <3>2, Zenon
      <4>2. \A row \in WellFormed : Fits(text, i, row) => f[i + Len(row)] = g[i + Len(row)]
        BY <1>4, <4>1, RowsBack, Zenon
      <4> QED
        BY <4>2, Zenon DEF Rows
    <3> QED
      BY <3>1, <3>2
  <2>2. Rows(text, f, i) = Rows(text, g, i)
    <3>1. Rows(text, f, i) \in BOOLEAN /\ Rows(text, g, i) \in BOOLEAN
      BY Zenon DEF Rows
    <3> QED
      BY <2>1, <3>1
  <2> HIDE DEF I, V
  <2> QED
    BY <2>2, Zenon
<1>5. V # {}
  OBVIOUS
<1>6. IsBackward(body, n, V)
  <2> HIDE DEF body, V, n
  <2> QED
    BY <1>3, <1>4, <1>5, Zenon DEF IsBackward
<1>7. PICK f \in [I -> V] : f = body[f]
  <2> HIDE DEF body, V, n
  <2> QED
    BY <1>1, <1>6, BackwardRecursion DEF HasFixedPoint
<1>8. f = [i \in I |-> Rows(text, f, i)]
  <2> HIDE DEF I, V
  <2> QED
    BY <1>7, Zenon
<1>9. from = [i \in I |-> Rows(text, from, i)]
  BY <1>8, Zenon
<1>10. IsUtf8(text) = from[1]
  BY Zenon DEF IsUtf8, Rows, Fits
<1> HIDE DEF from
<1>11. \A i \in I : from[i] = Rows(text, from, i)
  BY <1>9, Zenon
<1> QED
  BY <1>10, <1>11, Zenon

\* IsUtf8 goes from one spelled code point to the next.
LEMMA Utf8Steps ==
  ASSUME NEW text \in Seq(0 .. 255), NEW U,
         \A i \in 1 .. Len(text) + 1 : U[i] <=> Rows(text, U, i)
  PROVE  /\ U[Len(text) + 1]
         /\ \A i \in 1 .. Len(text) : U[i] <=> \E m, x : Spells(text, i, m, x) /\ U[i + m]
<1>1. PICK n \in Nat : n = Len(text)
  BY LenProperties, Zenon
<1>2. n + 1 \in 1 .. n + 1 /\ n + 1 > n /\ \A i \in 1 .. n : i \in 1 .. n + 1 /\ ~(i > n)
  BY <1>1
<1>3. U[n + 1]
  BY <1>1, <1>2, Zenon DEF Rows
<1>4. ASSUME NEW i \in 1 .. n
      PROVE  U[i] <=> \E m, x : Spells(text, i, m, x) /\ U[i + m]
  <2>1. i \in 1 .. Len(text)
    BY <1>1, Zenon
  <2>2. U[i] <=> \E row \in WellFormed : Fits(text, i, row) /\ U[i + Len(row)]
    BY <1>1, <1>2, Zenon DEF Rows
  <2>3. ASSUME NEW row \in WellFormed, Fits(text, i, row), U[i + Len(row)]
        PROVE  \E m, x : Spells(text, i, m, x) /\ U[i + m]
    BY <2>1, <2>3, RowSpells, Zenon
  <2>4. ASSUME NEW m, NEW x, Spells(text, i, m, x), U[i + m]
        PROVE  \E row \in WellFormed : Fits(text, i, row) /\ U[i + Len(row)]
    BY <2>1, <2>4, SpellsRow, Zenon
  <2> QED
    BY <2>2, <2>3, <2>4, Zenon
<1> QED
  BY <1>1, <1>3, <1>4, Zenon

-----------------------------------------------------------------------------
(* StringToWstring takes exactly UTF-8.                                    *)

\* The conversion succeeds for what the table allows and nothing else.
LEMMA DecodeValid ==
  ASSUME NEW text \in Seq(0 .. 255), NEW size
  PROVE  DecodeFrom(text, size).valid <=> IsUtf8(text)
<1>1. PICK n \in Nat : n = Len(text)
  BY LenProperties, Zenon
<1>2. PICK f \in [1 .. n + 1 -> Results(Nat)] :
         IsDecoding(f, text, size) /\ DecodeFrom(text, size) = f[1]
  BY <1>1, DecodeFromIs, Zenon
<1>3. PICK U : /\ IsUtf8(text) <=> U[1]
               /\ \A i \in 1 .. Len(text) + 1 : U[i] <=> Rows(text, U, i)
  BY IsUtf8Is, Zenon
<1>4. /\ U[n + 1]
      /\ \A i \in 1 .. n : U[i] <=> \E m, x : Spells(text, i, m, x) /\ U[i + m]
  BY <1>1, <1>3, Utf8Steps, Zenon
<1>5. PICK piece, next : piece = DecodePiece(text, size) /\ next = DecodeNext(text)
  BY Zenon
<1>6. IsRoute(n, piece, next, Nat) /\ IsWalk(f, n, piece, next)
  BY <1>1, <1>2, <1>5, DecodeRoute, Zenon DEF IsDecoding
<1> DEFINE K == {i \in 1 .. n + 1 : f[i].valid <=> U[i]}
<1>7. n + 1 \in K
  <2>1. f[n + 1] = NoUnits
    BY <1>6, WalkSteps, Zenon
  <2>2. f[n + 1].valid
    BY <2>1 DEF NoUnits
  <2>3. n + 1 \in 1 .. n + 1
    OBVIOUS
  <2> QED
    BY <1>4, <2>2, <2>3, Zenon
<1>8. ASSUME NEW i \in 1 .. n, \A j \in i + 1 .. n + 1 : j \in K
      PROVE  i \in K
  <2>1. i \in 1 .. n + 1
    OBVIOUS
  <2>2. f[i].valid <=> next[i] # 0 /\ f[next[i]].valid
    BY <1>2, <1>6, WalkValid
  <2>3. CASE Undecoded(text, size, i)
    <3>1. next[i] = 0
      BY <1>5, <2>3, Zenon DEF Undecoded
    <3>2. ~U[i]
      BY <1>4, <2>3, Zenon DEF Undecoded
    <3> QED
      BY <2>1, <2>2, <3>1, <3>2, Zenon
  <2>4. ASSUME NEW m, NEW x, DecodesTo(text, size, i, m, x)
        PROVE  i \in K
    <3>1. PICK j : j = i + m /\ j \in i + 1 .. n + 1 /\ next[i] = j
      BY <1>1, <1>5, <2>4, Zenon DEF DecodesTo
    <3>2. j # 0
      BY <3>1
    <3>3. f[j].valid <=> U[j]
      BY <1>8, <3>1, Zenon
    <3>4. U[i] <=> U[j]
      <4>1. Spells(text, i, m, x)
        BY <2>4, Zenon DEF DecodesTo
      <4>2. \A k, y : Spells(text, i, k, y) => k = m
        <5>1. i \in 1 .. Len(text)
          BY <1>1, Zenon
        <5> QED
          BY <4>1, <5>1, SpellsUnique, Zenon
      <4>3. ASSUME U[j]
            PROVE  U[i]
        <5>1. U[i + m]
          BY <3>1, <4>3, Zenon
        <5> QED
          BY <1>4, <4>1, <5>1, Zenon
      <4>4. ASSUME U[i]
            PROVE  U[j]
        <5>1. PICK k, y : Spells(text, i, k, y) /\ U[i + k]
          BY <1>4, <4>4, Zenon
        <5> QED
          BY <3>1, <4>2, <5>1, Zenon
      <4> QED
        BY <4>3, <4>4
    <3> QED
      BY <2>1, <2>2, <3>1, <3>2, <3>3, <3>4, Zenon
  <2>5. Undecoded(text, size, i) \/ \E m, x : DecodesTo(text, size, i, m, x)
    BY <1>1, DecodeRound, Zenon
  <2> QED
    BY <2>3, <2>4, <2>5, Zenon
<1>9. 1 .. n + 1 \subseteq K
  <2> HIDE DEF K
  <2> QED
    BY <1>7, <1>8, DownInduction
<1>10. f[1].valid <=> U[1]
  BY <1>9
<1> QED
  BY <1>2, <1>3, <1>10, Zenon

\* And what it returns are the same characters.
LEMMA DecodeBack ==
  ASSUME NEW size \in {2, 4}, NEW text \in Seq(0 .. 255), DecodeFrom(text, size).valid
  PROVE  EncodeFrom(DecodeFrom(text, size).text, size) = Valid(text)
<1>1. PICK n \in Nat : n = Len(text)
  BY LenProperties, Zenon
<1>2. PICK f \in [1 .. n + 1 -> Results(Nat)] :
         IsDecoding(f, text, size) /\ DecodeFrom(text, size) = f[1]
  BY <1>1, DecodeFromIs, Zenon
<1>3. PICK piece, next : piece = DecodePiece(text, size) /\ next = DecodeNext(text)
  BY Zenon
<1>4. IsRoute(n, piece, next, Nat) /\ IsWalk(f, n, piece, next)
  BY <1>1, <1>2, <1>3, DecodeRoute, Zenon DEF IsDecoding
<1>5. PICK S : S = WideUnits(size)
  BY Zenon
<1>6. ASSUME NEW i \in 1 .. n
      PROVE  \/ piece[i] = <<>> /\ next[i] = 0
             \/ \E x \in ScalarValues :
                   /\ piece[i] = Units(x, size)
                   /\ SubSeq(text, i, next[i] - 1) = Encoded(x)
  <2>1. i \in 1 .. Len(text)
    BY <1>1, Zenon
  <2>2. CASE Undecoded(text, size, i)
    BY <1>3, <2>2, Zenon DEF Undecoded
  <2>3. ASSUME NEW m, NEW x, DecodesTo(text, size, i, m, x)
        PROVE  x \in ScalarValues /\ piece[i] = Units(x, size) /\ SubSeq(text, i, next[i] - 1) = Encoded(x)
    <3>1. Encoded(x) = SubSeq(text, i, i + m - 1)
      BY <2>1, <2>3, SpellsBytes, Zenon DEF DecodesTo
    <3>2. x \in ScalarValues /\ DecodePiece(text, size)[i] = Units(x, size) /\ DecodeNext(text)[i] = i + m
      BY <2>3, Zenon DEF DecodesTo
    <3>3. next[i] = i + m /\ piece[i] = Units(x, size)
      BY <1>3, <3>2, Zenon
    <3>4. next[i] - 1 = i + m - 1
      <4>1. PICK k \in 1 .. 4 : k = m
        BY <2>3, Zenon DEF DecodesTo
      <4> QED
        BY <3>3, <4>1
    <3> QED
      BY <3>1, <3>2, <3>3, <3>4, Zenon
  <2> QED
    BY <2>1, <2>2, <2>3, DecodeRound, Zenon
<1>7. IsRoute(n, piece, next, S)
  <2>1. ASSUME NEW i \in 1 .. n
        PROVE  piece[i] \in Seq(S)
    <3>1. <<>> \in Seq(S)
      BY EmptySeq, Zenon
    <3> QED
      BY <1>5, <1>6, <3>1, ScalarUnits, Zenon
  <2>2. piece \in [1 .. n -> Seq(S)]
    <3>1. DOMAIN piece = 1 .. n /\ piece = [i \in 1 .. n |-> piece[i]]
      BY <1>4, Zenon DEF IsRoute
    <3> QED
      BY <2>1, <3>1, Zenon
  <2> QED
    BY <1>4, <2>2, Zenon DEF IsRoute
<1>8. PICK g \in [1 .. n + 1 -> Results(S)] : IsWalk(g, n, piece, next)
  BY <1>7, WalkExists, Zenon
<1>9. g[1] = f[1] /\ 1 \in 1 .. n + 1
  <2>1. \A i \in 1 .. n + 1 : g[i] = f[i]
    BY <1>4, <1>8, WalkUnique
  <2>2. 1 \in 1 .. n + 1
    OBVIOUS
  <2> QED
    BY <2>1, <2>2, Zenon
<1>10. PICK back : back = [r \in Seq(S) |-> EncodeFrom(r, size)]
  BY Zenon
<1>11. back[<<>>] = NoUnits
  <2>1. <<>> \in Seq(S)
    BY EmptySeq, Zenon
  <2> QED
    BY <1>10, <2>1, EmptyWalks, Zenon
<1>12. Undoes(back, n, text, piece, next, S)
  <2>1. ASSUME NEW i \in 1 .. n, next[i] # 0, NEW r \in Seq(S)
        PROVE  back[piece[i] \o r] = Prepend(SubSeq(text, i, next[i] - 1), back[r])
    <3>1. PICK x \in ScalarValues :
             piece[i] = Units(x, size) /\ SubSeq(text, i, next[i] - 1) = Encoded(x)
      BY <1>6, <2>1, Zenon
    <3>2. EncodeFrom(Units(x, size) \o r, size) = Prepend(Encoded(x), EncodeFrom(r, size))
      BY <1>5, EncodeJoin, Zenon
    <3>3. Units(x, size) \o r \in Seq(S)
      BY <1>5, ScalarUnits, ConcatProperties, Zenon
    <3>4. back[Units(x, size) \o r] = EncodeFrom(Units(x, size) \o r, size)
          /\ back[r] = EncodeFrom(r, size)
      BY <1>10, <3>3, Zenon
    <3> QED
      BY <3>1, <3>2, <3>4, Zenon
  <2> QED
    BY <2>1, Zenon DEF Undoes
<1>13. g[1].valid => g[1].text \in Seq(S) /\ back[g[1].text] = Valid(SubSeq(text, 1, n))
  BY <1>1, <1>7, <1>8, <1>9, <1>11, <1>12, RoundTrip
<1>14. SubSeq(text, 1, n) = text
  BY <1>1, SubSeqFull, Zenon
<1>15. g[1].text \in Seq(S) /\ back[g[1].text] = Valid(text) /\ g[1].text = DecodeFrom(text, size).text
  BY <1>2, <1>9, <1>13, <1>14, Zenon
<1> QED
  BY <1>10, <1>15, Zenon

-----------------------------------------------------------------------------
(* WstringToString takes exactly the well-formed wide strings.             *)

\* IsWide from position i on.
High(text, k) == k \in DOMAIN text /\ IsHighSurrogate(text[k])
Low(text, k)  == k \in DOMAIN text /\ IsLowSurrogate(text[k])
WideAt(text, size, i, j) ==
    /\ size = 4 => text[j] \in ScalarValues
    /\ size = 2 => (High(text, j) => Low(text, j + 1)) /\ (Low(text, j) => j > i /\ High(text, j - 1))
WideRest(text, size, i) == \A j \in DOMAIN text : j >= i => WideAt(text, size, i, j)

\* The ranges of IsWide.
HighUnits     == 55296 .. 56319
LowUnits      == 56320 .. 57343
BelowUnits    == 0 .. 55295
AboveUnits    == 57344 .. LastCodePoint

LEMMA UnitRanges ==
  ASSUME NEW u \in Nat
  PROVE  /\ u \in HighUnits <=> IsHighSurrogate(u)
         /\ u \in LowUnits <=> IsLowSurrogate(u)
         /\ u \in BelowUnits \/ u \in AboveUnits <=> u \in ScalarValues
<1>1. /\ u \in HighUnits <=> 55296 <= u /\ u <= 56319
      /\ u \in LowUnits <=> 56320 <= u /\ u <= 57343
      /\ u \in BelowUnits <=> u <= 55295
      /\ u \in AboveUnits <=> 57344 <= u /\ u <= 1114111
  <2>1. u \in HighUnits <=> 55296 <= u /\ u <= 56319
    BY SMT DEF HighUnits
  <2>2. u \in LowUnits <=> 56320 <= u /\ u <= 57343
    BY SMT DEF LowUnits
  <2>3. u \in BelowUnits <=> u <= 55295
    <3>1. PICK b \in Nat : b = 55295
      BY SMT
    <3>2. BelowUnits = 0 .. b
      BY <3>1, SMT DEF BelowUnits
    <3>3. u \in 0 .. b <=> u <= b
      BY SMT
    <3>4. u \in BelowUnits <=> u <= b
      BY <3>2, <3>3, Zenon
    <3> QED
      BY <3>1, <3>4, SMT
  <2>4. u \in AboveUnits <=> 57344 <= u /\ u <= 1114111
    <3>1. PICK a \in Nat : a = 57344
      BY SMT
    <3>2. AboveUnits = a .. LastCodePoint
      BY <3>1, SMT DEF AboveUnits
    <3>3. LastCodePoint \in Nat /\ LastCodePoint = 1114111
      BY SMT DEF LastCodePoint
    <3>4. u \in a .. LastCodePoint <=> a <= u /\ u <= LastCodePoint
      BY <3>3, SMT
    <3>5. u \in AboveUnits <=> a <= u /\ u <= LastCodePoint
      BY <3>2, <3>4, Zenon
    <3> QED
      BY <3>1, <3>3, <3>5, SMT
  <2> QED
    BY <2>1, <2>2, <2>3, <2>4, SMT
<1>2. /\ IsHighSurrogate(u) <=> 55296 <= u /\ u <= 56319
      /\ IsLowSurrogate(u) <=> 56320 <= u /\ u <= 57343
  BY SMT DEF IsHighSurrogate, IsLowSurrogate,
     HIGH_SURROGATE_LAST, LOW_SURROGATE_LAST, HIGH_SURROGATE_FIRST, LOW_SURROGATE_FIRST
<1>3. u \in ScalarValues <=> u <= 1114111 /\ ~IsHighSurrogate(u) /\ ~IsLowSurrogate(u)
  BY SMT DEF ScalarValues, MAX_UNICODE_CODE_POINT
<1>4. (u <= 55295 \/ (57344 <= u /\ u <= 1114111)) <=>
          (u <= 1114111 /\ ~(55296 <= u /\ u <= 56319) /\ ~(56320 <= u /\ u <= 57343))
  BY SMT
<1>5. (u \in BelowUnits \/ u \in AboveUnits) <=> u \in ScalarValues
  BY <1>1, <1>2, <1>3, <1>4, SMT
<1> QED
  BY <1>1, <1>2, <1>5, SMT

\* IsWide goes from one code point to the next.
LEMMA IsWideIs ==
  ASSUME NEW size \in {2, 4}, NEW text \in Seq(Nat)
  PROVE  IsWide(text, size) <=> WideRest(text, size, 1)
<1>1. PICK n \in Nat : n = Len(text) /\ DOMAIN text = 1 .. n
  BY LenProperties, Zenon
<1>2. \A j \in DOMAIN text : text[j] \in Nat
  BY <1>1, ElementOfSeq, Zenon
<1> DEFINE high(k) == k \in DOMAIN text /\ text[k] \in HighUnits
           low(k)  == k \in DOMAIN text /\ text[k] \in LowUnits
           Here(i) == /\ size = 4 => text[i] \in BelowUnits \/ text[i] \in AboveUnits
                      /\ size = 2 => (high(i) => low(i + 1)) /\ (low(i) => high(i - 1))
<1>3. IsWide(text, size) <=> \A i \in DOMAIN text : Here(i)
  BY SMT DEF IsWide, HighUnits, LowUnits, BelowUnits, AboveUnits
<1>4. \A k : (high(k) <=> High(text, k)) /\ (low(k) <=> Low(text, k))
  BY <1>2, UnitRanges, Zenon DEF High, Low
<1> HIDE DEF high, low
<1>5. ASSUME NEW j \in DOMAIN text
      PROVE  Here(j) <=> WideAt(text, size, 1, j)
  <2>1. High(text, j - 1) => j > 1
    BY <1>1 DEF High
  <2>2. text[j] \in BelowUnits \/ text[j] \in AboveUnits <=> text[j] \in ScalarValues
    BY <1>2, UnitRanges, Zenon
  <2>3. /\ high(j) <=> High(text, j)
        /\ low(j) <=> Low(text, j)
        /\ low(j + 1) <=> Low(text, j + 1)
        /\ high(j - 1) <=> High(text, j - 1)
    BY <1>4, Zenon
  <2> QED
    BY <2>1, <2>2, <2>3, Zenon DEF WideAt
<1>6. \A j \in DOMAIN text : j >= 1
  BY <1>1
<1> HIDE DEF Here
<1> QED
  BY <1>3, <1>5, <1>6, Zenon DEF WideRest

\* One code point more in front.
LEMMA WideStep ==
  ASSUME NEW size \in {2, 4}, NEW text \in Seq(WideUnits(size)), NEW i \in 1 .. Len(text),
         NEW m, NEW x, UnitsAt(text, size, i, m, x), NEW k, k = i + m
  PROVE  WideRest(text, size, i) <=> WideRest(text, size, k)
<1>1. PICK n \in Nat : n = Len(text) /\ DOMAIN text = 1 .. n
  BY LenProperties, Zenon
<1>2. \A a : /\ IsHighSurrogate(a) => ~IsLowSurrogate(a) /\ a \notin ScalarValues
             /\ IsLowSurrogate(a) => a \notin ScalarValues
  BY SurrogateCases, Zenon DEF ScalarValues
<1>3. ~(2 = 4) /\ (size = 2 \/ size = 4)
  BY SMT
<1>4. CASE size = 4
  <2>1. m = 1 /\ text[i] \in ScalarValues
    BY <1>3, <1>4, Zenon DEF UnitsAt, OneUnit, TwoUnits
  <2>2. \A l : \A j : WideAt(text, size, l, j) <=> text[j] \in ScalarValues
    BY <1>3, <1>4, Zenon DEF WideAt
  <2>3. \A j \in DOMAIN text : j >= i <=> j = i \/ j >= k
    BY <1>1, <2>1
  <2> QED
    BY <2>1, <2>2, <2>3, Zenon DEF WideRest
<1>5. CASE size = 2 /\ m = 1 /\ OneUnit(text, size, i, x)
  <2>1. ~High(text, i) /\ ~Low(text, i)
    BY <1>2, <1>5, Zenon DEF OneUnit, High, Low
  <2>2. \A j \in DOMAIN text : j >= i <=> j = i \/ j >= k
    BY <1>1, <1>5
  <2>3. WideAt(text, size, i, i)
    BY <1>3, <1>5, <2>1, Zenon DEF WideAt
  <2>4. ASSUME NEW j \in DOMAIN text, j >= k
        PROVE  WideAt(text, size, i, j) <=> WideAt(text, size, k, j)
    <3>1. High(text, j - 1) => j - 1 # i
      BY <2>1, Zenon
    <3>2. j > i /\ (j - 1 # i => j > k)
      BY <1>1, <1>5, <2>4
    <3> QED
      BY <1>3, <1>5, <3>1, <3>2, Zenon DEF WideAt
  <2> QED
    BY <2>2, <2>3, <2>4, Zenon DEF WideRest
<1>6. CASE size = 2 /\ m = 2 /\ TwoUnits(text, size, i, x)
  <2>1. PICK h : h = i + 1 /\ h \in DOMAIN text
    BY <1>1, <1>6 DEF TwoUnits
  <2>2. /\ High(text, i) /\ ~Low(text, i) /\ Low(text, h) /\ ~High(text, h)
    <3>1. i \in DOMAIN text
      BY <1>1
    <3> QED
      BY <1>2, <1>6, <2>1, <3>1, Zenon DEF TwoUnits, High, Low
  <2>3. \A j \in DOMAIN text : j >= i <=> j = i \/ j = h \/ j >= k
    BY <1>1, <1>6, <2>1
  <2>4. WideAt(text, size, i, i) /\ WideAt(text, size, i, h)
    <3>1. h > i /\ h - 1 = i
      BY <2>1
    <3> QED
      BY <1>3, <1>6, <2>1, <2>2, <3>1, Zenon DEF WideAt
  <2>5. ASSUME NEW j \in DOMAIN text, j >= k
        PROVE  WideAt(text, size, i, j) <=> WideAt(text, size, k, j)
    <3>1. High(text, j - 1) => j - 1 # h
      BY <2>2, Zenon
    <3>2. j > i /\ (j - 1 # h => j > k)
      BY <1>1, <1>6, <2>1, <2>5
    <3> QED
      BY <1>3, <1>6, <3>1, <3>2, Zenon DEF WideAt
  <2> QED
    BY <2>3, <2>4, <2>5, Zenon DEF WideRest
<1> QED
  BY <1>3, <1>4, <1>5, <1>6, Zenon DEF UnitsAt

\* Where no code point starts, the rest is not well-formed.
LEMMA WideStop ==
  ASSUME NEW size \in {2, 4}, NEW text \in Seq(WideUnits(size)), NEW i \in 1 .. Len(text),
         \A m, x : ~UnitsAt(text, size, i, m, x)
  PROVE  ~WideRest(text, size, i)
<1>1. PICK n \in Nat : n = Len(text) /\ DOMAIN text = 1 .. n
  BY LenProperties, Zenon
<1>2. text[i] \in Nat /\ (size = 2 => ~Astral(text[i]))
  <2>1. text[i] \in WideUnits(size)
    BY ElementOfSeq, Zenon
  <2> QED
    BY <2>1, Zenon DEF WideUnits
<1>3. i \in DOMAIN text /\ i >= i /\ ~(i > i)
  BY <1>1
<1>4. SUFFICES ASSUME WideAt(text, size, i, i)
               PROVE  FALSE
  BY <1>3, Zenon DEF WideRest
<1>5. ~(2 = 4) /\ (size = 2 \/ size = 4)
  BY SMT
<1>6. CASE size = 4
  <2>1. UnitsAt(text, size, i, 1, text[i])
    BY <1>4, <1>6, Zenon DEF WideAt, UnitsAt, OneUnit
  <2> QED
    BY <2>1, Zenon
<1>7. CASE size = 2
  <2>1. ~Low(text, i) /\ (High(text, i) => Low(text, i + 1))
    BY <1>3, <1>4, <1>7, Zenon DEF WideAt
  <2>2. CASE IsHighSurrogate(text[i])
    <3>1. i + 1 \in DOMAIN text /\ IsLowSurrogate(text[i + 1])
      BY <1>3, <2>1, <2>2, Zenon DEF High, Low
    <3>2. i + 1 <= Len(text)
      BY <1>1, <3>1
    <3>3. UnitsAt(text, size, i, 2, Pair(text[i], text[i + 1]))
      BY <1>7, <2>2, <3>1, <3>2, Zenon DEF UnitsAt, TwoUnits
    <3> QED
      BY <3>3, Zenon
  <2>3. CASE ~IsHighSurrogate(text[i])
    <3>1. ~IsLowSurrogate(text[i])
      BY <1>3, <2>1, Zenon DEF Low
    <3>2. text[i] \in ScalarValues
      BY <1>2, <1>7, <2>3, <3>1, SurrogateCases, Zenon DEF ScalarValues
    <3>3. UnitsAt(text, size, i, 1, text[i])
      BY <1>2, <1>7, <3>2, Zenon DEF UnitsAt, OneUnit
    <3> QED
      BY <3>3, Zenon
  <2> QED
    BY <2>2, <2>3
<1> QED
  BY <1>5, <1>6, <1>7

\* The conversion succeeds for strings without lone surrogates and nothing else.
LEMMA EncodeValid ==
  ASSUME NEW size \in {2, 4}, NEW text \in Seq(WideUnits(size))
  PROVE  EncodeFrom(text, size).valid <=> IsWide(text, size)
<1>1. PICK n \in Nat : n = Len(text) /\ DOMAIN text = 1 .. n
  BY LenProperties, Zenon
<1>2. PICK f \in [1 .. n + 1 -> Results(Byte)] :
         IsEncoding(f, text, size) /\ EncodeFrom(text, size) = f[1]
  BY <1>1, EncodeFromIs, Zenon
<1>3. PICK piece, next : piece = EncodePiece(text, size) /\ next = EncodeNext(text, size)
  BY Zenon
<1>4. IsRoute(n, piece, next, Byte) /\ IsWalk(f, n, piece, next)
  BY <1>1, <1>2, <1>3, EncodeRoute, Zenon DEF IsEncoding
<1> DEFINE K == {i \in 1 .. n + 1 : f[i].valid <=> WideRest(text, size, i)}
<1>5. n + 1 \in K
  <2>1. f[n + 1] = NoUnits
    BY <1>4, WalkSteps, Zenon
  <2>2. f[n + 1].valid
    BY <2>1 DEF NoUnits
  <2>3. n + 1 \in 1 .. n + 1 /\ \A j \in DOMAIN text : ~(j >= n + 1)
    BY <1>1
  <2> QED
    BY <2>2, <2>3, Zenon DEF WideRest
<1>6. ASSUME NEW i \in 1 .. n, \A j \in i + 1 .. n + 1 : j \in K
      PROVE  i \in K
  <2>1. i \in 1 .. n + 1
    OBVIOUS
  <2>2. f[i].valid <=> next[i] # 0 /\ f[next[i]].valid
    BY <1>2, <1>4, WalkValid
  <2>3. i \in 1 .. Len(text)
    BY <1>1, Zenon
  <2>4. CASE Unencoded(text, size, i)
    <3>1. next[i] = 0
      BY <1>3, <2>4, Zenon DEF Unencoded
    <3>2. ~WideRest(text, size, i)
      BY <2>3, <2>4, WideStop, Zenon DEF Unencoded
    <3> QED
      BY <2>1, <2>2, <3>1, <3>2, Zenon
  <2>5. ASSUME NEW m, NEW x, EncodesTo(text, size, i, m, x)
        PROVE  i \in K
    <3>1. PICK j : j = i + m /\ j \in i + 1 .. n + 1 /\ next[i] = j
      BY <1>1, <1>3, <2>5, Zenon DEF EncodesTo
    <3>2. j # 0
      BY <3>1
    <3>3. f[j].valid <=> WideRest(text, size, j)
      BY <1>6, <3>1, Zenon
    <3>4. WideRest(text, size, i) <=> WideRest(text, size, j)
      <4>1. UnitsAt(text, size, i, m, x)
        BY <2>5, Zenon DEF EncodesTo
      <4> QED
        BY <2>3, <3>1, <4>1, WideStep, Zenon
    <3> QED
      BY <2>1, <2>2, <3>1, <3>2, <3>3, <3>4, Zenon
  <2> QED
    BY <2>3, <2>4, <2>5, EncodeRound, Zenon
<1>7. 1 .. n + 1 \subseteq K
  <2> HIDE DEF K
  <2> QED
    BY <1>5, <1>6, DownInduction
<1>8. f[1].valid <=> WideRest(text, size, 1)
  BY <1>7
<1>9. text \in Seq(Nat)
  <2>1. \A u \in WideUnits(size) : u \in Nat
    BY Zenon DEF WideUnits
  <2> HIDE DEF K
  <2> QED
    BY <2>1
<1> QED
  BY <1>2, <1>8, <1>9, IsWideIs, Zenon

\* What it writes is UTF-8 and is converted back to the string.
LEMMA EncodeBack ==
  ASSUME NEW size \in {2, 4}, NEW text \in Seq(WideUnits(size)), EncodeFrom(text, size).valid
  PROVE  /\ EncodeFrom(text, size).text \in Seq(Byte)
         /\ DecodeFrom(EncodeFrom(text, size).text, size) = Valid(text)
<1>1. PICK n \in Nat : n = Len(text)
  BY LenProperties, Zenon
<1>2. PICK f \in [1 .. n + 1 -> Results(Byte)] :
         IsEncoding(f, text, size) /\ EncodeFrom(text, size) = f[1]
  BY <1>1, EncodeFromIs, Zenon
<1>3. PICK piece, next : piece = EncodePiece(text, size) /\ next = EncodeNext(text, size)
  BY Zenon
<1>4. IsRoute(n, piece, next, Byte) /\ IsWalk(f, n, piece, next)
  BY <1>1, <1>2, <1>3, EncodeRoute, Zenon DEF IsEncoding
<1>5. ASSUME NEW i \in 1 .. n, next[i] # 0
      PROVE  \E x \in ScalarValues :
                piece[i] = Encoded(x) /\ SubSeq(text, i, next[i] - 1) = Units(x, size)
  <2>1. i \in 1 .. Len(text)
    BY <1>1, Zenon
  <2>2. ~Unencoded(text, size, i)
    BY <1>3, <1>5, Zenon DEF Unencoded
  <2>3. PICK m, x : EncodesTo(text, size, i, m, x)
    BY <2>1, <2>2, EncodeRound, Zenon
  <2>4. Units(x, size) = SubSeq(text, i, i + m - 1)
    <3>1. UnitsAt(text, size, i, m, x)
      BY <2>3, Zenon DEF EncodesTo
    <3> QED
      BY <2>1, <3>1, UnitsAtAre, Zenon
  <2>5. /\ x \in ScalarValues /\ EncodePiece(text, size)[i] = Encoded(x)
        /\ EncodeNext(text, size)[i] = i + m
    BY <2>3, Zenon DEF EncodesTo
  <2>6. next[i] = i + m /\ piece[i] = Encoded(x)
    BY <1>3, <2>5, Zenon
  <2>7. next[i] - 1 = i + m - 1
    <3>1. PICK k \in 1 .. 2 : k = m
      BY <2>3, Zenon DEF EncodesTo
    <3> QED
      BY <2>6, <3>1
  <2> QED
    BY <2>4, <2>5, <2>6, <2>7, Zenon
<1>6. PICK back : back = [r \in Seq(Byte) |-> DecodeFrom(r, size)]
  BY Zenon
<1>7. back[<<>>] = NoUnits
  <2>1. <<>> \in Seq(Byte)
    BY EmptySeq, Zenon
  <2> QED
    BY <1>6, <2>1, EmptyWalks, Zenon
<1>8. Undoes(back, n, text, piece, next, Byte)
  <2>1. ASSUME NEW i \in 1 .. n, next[i] # 0, NEW r \in Seq(Byte)
        PROVE  back[piece[i] \o r] = Prepend(SubSeq(text, i, next[i] - 1), back[r])
    <3>1. PICK x \in ScalarValues :
             piece[i] = Encoded(x) /\ SubSeq(text, i, next[i] - 1) = Units(x, size)
      BY <1>5, <2>1, Zenon
    <3>2. DecodeFrom(Encoded(x) \o r, size) = Prepend(Units(x, size), DecodeFrom(r, size))
      BY DecodeJoin, Zenon DEF Byte
    <3>3. Encoded(x) \o r \in Seq(Byte)
      BY ScalarBytes, ConcatProperties, Zenon DEF Byte
    <3>4. back[Encoded(x) \o r] = DecodeFrom(Encoded(x) \o r, size)
          /\ back[r] = DecodeFrom(r, size)
      BY <1>6, <3>3, Zenon
    <3> QED
      BY <3>1, <3>2, <3>4, Zenon
  <2> QED
    BY <2>1, Zenon DEF Undoes
<1>9. f[1].valid => f[1].text \in Seq(Byte) /\ back[f[1].text] = Valid(SubSeq(text, 1, n))
  <2>1. 1 \in 1 .. n + 1
    OBVIOUS
  <2> QED
    BY <1>1, <1>2, <1>4, <1>7, <1>8, <2>1, RoundTrip
<1>10. SubSeq(text, 1, n) = text
  BY <1>1, SubSeqFull, Zenon
<1> QED
  BY <1>2, <1>6, <1>9, <1>10, Zenon

-----------------------------------------------------------------------------
(* The inputs.                                                             *)

\* An input is made of the characters of its kind.
InputOver == \/ kind = "node" /\ input \in Nodes
             \/ kind \in DOMAIN Alphabet /\ input \in Seq(Alphabet[kind])

\* The input is over its alphabet.
LEMMA InputInvariant == Spec => []InputOver
<1>1. Init => InputOver
  BY EmptySeq, Zenon DEF Init, InputOver
<1>2. InputOver /\ [Next]_<<kind, input>> => InputOver'
  <2>1. ASSUME InputOver, Next
        PROVE  InputOver'
    <3>1. kind \in DOMAIN Alphabet /\ kind' = kind
      BY <2>1, Zenon DEF Next
    <3>2. PICK c \in Alphabet[kind] : input' = Append(input, c)
      BY <2>1, Zenon DEF Next
    <3>3. input \in Seq(Alphabet[kind])
      BY <2>1, <3>1, AlphabetAssumption, Zenon DEF InputOver
    <3>4. input' \in Seq(Alphabet[kind])
      BY <3>2, <3>3, AppendProperties, Zenon
    <3> QED
      BY <3>1, <3>4, Zenon DEF InputOver
  <2>2. ASSUME InputOver, UNCHANGED <<kind, input>>
        PROVE  InputOver'
    BY <2>2, Zenon DEF InputOver
  <2> QED
    BY <2>1, <2>2
<1> QED
  BY <1>1, <1>2, PTL DEF Spec

LEMMA SeqSubset ==
  ASSUME NEW A, NEW B, A \subseteq B, NEW s \in Seq(A)
  PROVE  s \in Seq(B)
OBVIOUS

-----------------------------------------------------------------------------
(* IsPattern, without its recursion.                                       *)

\* From i on, the pattern is a character or %% or a directive, and then what
\* F says of the rest.
PatternFrom(pattern, F, i) ==
    LET n == Len(pattern)
        is(j, c) == j <= n /\ pattern[j] = c
    IN  \/ i > n
        \/ i <= n /\ ~is(i, "%") /\ F[i + 1]
        \/ is(i, "%") /\ is(i + 1, "%") /\ F[i + 2]
        \/ /\ is(i, "%") /\ i < n /\ pattern[i + 1] \in Directives
           /\ \/ ~is(i + 2, LeftBrace) /\ F[i + 2]
              \/ /\ is(i + 2, LeftBrace)
                 /\ \E j \in i + 4 .. n : /\ is(j, RightBrace)
                                          /\ \A k \in i + 3 .. j - 1 : ~is(k, RightBrace)
                                          /\ F[j + 1]

\* The recursion in IsPattern may be unfolded.
LEMMA IsPatternIs ==
  ASSUME NEW C, NEW pattern \in Seq(C)
  PROVE  \E F : /\ IsPattern(pattern) <=> F[1]
                /\ \A i \in 1 .. Len(pattern) + 1 : F[i] <=> PatternFrom(pattern, F, i)
<1> DEFINE n == Len(pattern)
           I == 1 .. n + 1
           V == BOOLEAN
           from == CHOOSE f : f = [i \in I |-> PatternFrom(pattern, f, i)]
           body == [f \in [I -> V] |-> [i \in I |-> PatternFrom(pattern, f, i)]]
<1>1. n \in Nat
  BY LenProperties, Zenon
<1>2. ASSUME NEW f, NEW g, NEW i \in I, \A j \in i + 1 .. n + 1 : f[j] = g[j],
             PatternFrom(pattern, f, i)
      PROVE  PatternFrom(pattern, g, i)
  <2>1. i <= n => i + 1 \in i + 1 .. n + 1
    BY <1>1
  <2>2. i + 1 <= n => i + 2 \in i + 1 .. n + 1
    BY <1>1
  <2>3. i < n => i + 2 \in i + 1 .. n + 1
    BY <1>1
  <2>4. \A j \in i + 4 .. n : j + 1 \in i + 1 .. n + 1
    BY <1>1
  <2> HIDE DEF I
  <2> QED
    BY <1>2, <2>1, <2>2, <2>3, <2>4, Zenon DEF PatternFrom
<1>3. \A f, i : PatternFrom(pattern, f, i) \in V
  BY Zenon DEF PatternFrom
<1>4. body \in [[I -> V] -> [I -> V]]
  <2> HIDE DEF I, V
  <2> QED
    BY <1>3, Zenon
<1>5. ASSUME NEW f \in [I -> V], NEW g \in [I -> V], NEW i \in I,
             \A j \in i + 1 .. n + 1 : f[j] = g[j]
      PROVE  body[f][i] = body[g][i]
  <2>1. \A j \in i + 1 .. n + 1 : g[j] = f[j]
    BY <1>5, Zenon
  <2>2. PatternFrom(pattern, f, i) <=> PatternFrom(pattern, g, i)
    <3> HIDE DEF I, V, n
    <3> QED
      BY <1>2, <1>5, <2>1, Zenon
  <2>3. PatternFrom(pattern, f, i) = PatternFrom(pattern, g, i)
    <3>1. PatternFrom(pattern, f, i) \in BOOLEAN /\ PatternFrom(pattern, g, i) \in BOOLEAN
      BY Zenon DEF PatternFrom
    <3> QED
      BY <2>2, <3>1
  <2> HIDE DEF I, V
  <2> QED
    BY <2>3, Zenon
<1>6. V # {}
  OBVIOUS
<1>7. IsBackward(body, n, V)
  <2> HIDE DEF body, V, n
  <2> QED
    BY <1>4, <1>5, <1>6, Zenon DEF IsBackward
<1>8. PICK f \in [I -> V] : f = body[f]
  <2> HIDE DEF body, V, n
  <2> QED
    BY <1>1, <1>7, BackwardRecursion DEF HasFixedPoint
<1>9. f = [i \in I |-> PatternFrom(pattern, f, i)]
  <2> HIDE DEF I, V
  <2> QED
    BY <1>8, Zenon
<1>10. from = [i \in I |-> PatternFrom(pattern, from, i)]
  BY <1>9, Zenon
<1>11. IsPattern(pattern) = from[1]
  BY Zenon DEF IsPattern, PatternFrom
<1> HIDE DEF from
<1>12. \A i \in I : from[i] = PatternFrom(pattern, from, i)
  BY <1>10, Zenon
<1> QED
  BY <1>11, <1>12, Zenon

\* F tells of each position whether a pattern begins there.
Reads(F, pattern) == \A i \in 1 .. Len(pattern) + 1 : F[i] <=> PatternFrom(pattern, F, i)

\* Nothing more is a pattern.
LEMMA EndReads ==
  ASSUME NEW C, NEW pattern \in Seq(C), NEW F, Reads(F, pattern)
  PROVE  F[Len(pattern) + 1]
<1>1. PICK n \in Nat : n = Len(pattern)
  BY LenProperties, Zenon
<1>2. n + 1 \in 1 .. n + 1 /\ n + 1 > n
  BY SMT
<1> QED
  BY <1>1, <1>2, Zenon DEF Reads, PatternFrom

\* Where parse gives up no pattern begins.
LEMMA StuckReads ==
  ASSUME NEW C, NEW pattern \in Seq(C), NEW F, Reads(F, pattern),
         NEW i \in 1 .. Len(pattern), Stuck(pattern, i)
  PROVE  ~F[i]
<1>1. PICK n \in Nat : n = Len(pattern)
  BY LenProperties, Zenon
<1>2. i \in 1 .. n + 1 /\ ~(i > n) /\ i <= n
  BY <1>1
<1>3. SUFFICES ASSUME PatternFrom(pattern, F, i)
               PROVE  FALSE
  BY <1>1, <1>2, Zenon DEF Reads
<1>4. CASE i = n
  <2>1. ~(i + 1 <= n) /\ ~(i < n)
    BY <1>1, <1>4
  <2> QED
    BY <1>1, <1>2, <1>3, <2>1, Zenon DEF PatternFrom, Stuck
<1>5. CASE i # n
  <2>1. \A j \in i + 4 .. n : pattern[j] = RightBrace =>
           \E k \in i + 3 .. j - 1 : pattern[k] = RightBrace /\ k <= n
    <3>1. \A j \in i + 4 .. n : \A k \in i + 3 .. j - 1 : k <= n
      BY <1>1
    <3> QED
      BY <1>1, <1>5, <3>1, Zenon DEF Stuck
  <2> QED
    BY <1>1, <1>2, <1>3, <1>5, <2>1, Zenon DEF PatternFrom, Stuck
<1> QED
  BY <1>4, <1>5

\* Behind a character or %% the pattern must go on; behind a directive too, if it is known.
LEMMA PlainReads ==
  ASSUME NEW C, NEW pattern \in Seq(C), NEW F, Reads(F, pattern),
         NEW i \in 1 .. Len(pattern), NEW s, NEW next \in i + 1 .. Len(pattern) + 1,
         PlainRound(pattern, s, i, next)
  PROVE  F[i] <=> F[next]
<1>1. PICK n \in Nat : n = Len(pattern)
  BY LenProperties, Zenon
<1>2. i \in 1 .. n + 1 /\ ~(i > n) /\ i <= n
  BY <1>1
<1>3. F[i] <=> PatternFrom(pattern, F, i)
  BY <1>1, <1>2, Zenon DEF Reads
<1>4. CASE next = i + 1 /\ pattern[i] # "%"
  BY <1>1, <1>2, <1>3, <1>4, Zenon DEF PatternFrom
<1>5. CASE next = i + 2 /\ pattern[i] = "%" /\ pattern[i + 1] = "%"
  <2>1. i + 1 <= n
    BY <1>1, <1>5
  <2>2. "%" \notin Directives
    BY DEF Directives
  <2> QED
    BY <1>1, <1>2, <1>3, <1>5, <2>1, <2>2, Zenon DEF PatternFrom
<1> QED
  BY <1>4, <1>5, Zenon DEF PlainRound

LEMMA BareReads ==
  ASSUME NEW C, NEW pattern \in Seq(C), NEW F, Reads(F, pattern),
         NEW i \in 1 .. Len(pattern), NEW s, NEW next \in i + 1 .. Len(pattern) + 1,
         BareRound(pattern, s, i, next)
  PROVE  F[i] <=> pattern[i + 1] \in Directives /\ F[next]
<1>1. PICK n \in Nat : n = Len(pattern)
  BY LenProperties, Zenon
<1>2. i \in 1 .. n + 1 /\ ~(i > n) /\ i <= n
  BY <1>1
<1>3. F[i] <=> PatternFrom(pattern, F, i)
  BY <1>1, <1>2, Zenon DEF Reads
<1>4. next = i + 2 /\ pattern[i] = "%" /\ pattern[i + 1] # "%"
  BY Zenon DEF BareRound
<1>5. i < n
  BY <1>1, <1>4
<1>6. ~(i + 2 <= n /\ pattern[i + 2] = LeftBrace)
  <2>1. i + 2 <= n => i + 2 \in 1 .. n
    BY <1>1
  <2> QED
    BY <1>1, <1>4, <2>1, Zenon DEF BareRound
<1> QED
  BY <1>1, <1>2, <1>3, <1>4, <1>5, <1>6, Zenon DEF PatternFrom

LEMMA ConfiguredReads ==
  ASSUME NEW C, NEW pattern \in Seq(C), NEW F, Reads(F, pattern),
         NEW i \in 1 .. Len(pattern), NEW s, NEW next \in i + 1 .. Len(pattern) + 1,
         NEW config, ConfiguredRound(pattern, s, i, next, config)
  PROVE  F[i] <=> pattern[i + 1] \in Directives /\ F[next]
<1>1. PICK n \in Nat : n = Len(pattern)
  BY LenProperties, Zenon
<1>2. i \in 1 .. n + 1 /\ ~(i > n) /\ i <= n
  BY <1>1
<1>3. F[i] <=> PatternFrom(pattern, F, i)
  BY <1>1, <1>2, Zenon DEF Reads
<1>4. PICK j \in i + 4 .. n : j = next - 1
  BY <1>1, Zenon DEF ConfiguredRound
<1>5. j + 1 = next /\ next - 2 = j - 1 /\ i < n /\ i + 2 <= n /\ j <= n
  BY <1>1, <1>4
<1>6. /\ pattern[i] = "%" /\ pattern[i + 1] # "%" /\ pattern[i + 2] = LeftBrace
      /\ pattern[j] = RightBrace
      /\ \A k \in i + 3 .. j - 1 : pattern[k] # RightBrace
  BY <1>4, <1>5, Zenon DEF ConfiguredRound
<1>7. ASSUME NEW m \in i + 4 .. n, pattern[m] = RightBrace,
             \A k \in i + 3 .. m - 1 : ~(k <= n /\ pattern[k] = RightBrace)
      PROVE  m = j
  <2>1. m < j => m \in i + 3 .. j - 1
    BY <1>1
  <2>2. j < m => j \in i + 3 .. m - 1
    BY <1>1
  <2>3. ~(m < j) /\ ~(j < m)
    BY <1>5, <1>6, <1>7, <2>1, <2>2, Zenon
  <2> QED
    BY <1>1, <2>3
<1>8. ASSUME PatternFrom(pattern, F, i)
      PROVE  pattern[i + 1] \in Directives /\ F[next]
  <2>1. /\ pattern[i + 1] \in Directives
        /\ \E m \in i + 4 .. n : /\ pattern[m] = RightBrace
                                 /\ \A k \in i + 3 .. m - 1 : ~(k <= n /\ pattern[k] = RightBrace)
                                 /\ F[m + 1]
    BY <1>1, <1>2, <1>5, <1>6, <1>8, Zenon DEF PatternFrom
  <2> QED
    BY <1>5, <1>7, <2>1, Zenon
<1>9. ASSUME pattern[i + 1] \in Directives, F[next]
      PROVE  PatternFrom(pattern, F, i)
  BY <1>1, <1>2, <1>5, <1>6, <1>9, Zenon DEF PatternFrom
<1> QED
  BY <1>3, <1>8, <1>9

-----------------------------------------------------------------------------
(* What the items of a formatter spell.                                    *)

\* Each element of s, mapped by f.
Mapped(f, s) == [i \in DOMAIN s |-> f[s[i]]]

MapsMore(f, s, x, V) ==
    /\ Mapped(f, s) \in Seq(V)
    /\ Mapped(f, Append(s, x)) = Append(Mapped(f, s), f[x])

\* Mapping and appending commute.
LEMMA MappedAppend ==
  ASSUME NEW S, NEW V, NEW f \in [S -> V], NEW s \in Seq(S), NEW x \in S
  PROVE  MapsMore(f, s, x, V)
<1>1. PICK n \in Nat : n = Len(s) /\ DOMAIN s = 1 .. n /\ \A i \in 1 .. n : s[i] \in S
  BY LenProperties, ElementOfSeq, Zenon
<1>2. PICK more \in Seq(S) : more = Append(s, x)
  BY AppendProperties, Zenon
<1>3. /\ DOMAIN more = 1 .. n + 1 /\ more[n + 1] = x
      /\ \A i \in 1 .. n : more[i] = s[i]
  <2>1. Len(more) = n + 1 /\ DOMAIN more = 1 .. Len(more)
    BY <1>1, <1>2, AppendProperties, LenProperties, Zenon
  <2> QED
    BY <1>1, <1>2, <2>1
<1>4. PICK m : m = Mapped(f, s)
  OBVIOUS
<1>5. m \in Seq(V) /\ Len(m) = n /\ \A i \in 1 .. n : m[i] = f[s[i]]
  <2>1. m = [i \in 1 .. n |-> f[s[i]]] /\ \A i \in 1 .. n : f[s[i]] \in V
    BY <1>1, <1>4, Zenon DEF Mapped
  <2> QED
    BY <2>1
<1>6. PICK k \in Seq(V) : k = Append(m, f[x])
  BY <1>5, AppendProperties, Zenon
<1>7. DOMAIN k = 1 .. n + 1 /\ k[n + 1] = f[x] /\ \A i \in 1 .. n : k[i] = m[i]
  <2>1. f[x] \in V
    OBVIOUS
  <2>2. Len(k) = n + 1 /\ DOMAIN k = 1 .. Len(k)
    BY <1>5, <1>6, <2>1, AppendProperties, LenProperties, Zenon
  <2> QED
    BY <1>5, <1>6, <2>1, <2>2
<1>8. Mapped(f, more) = k
  <2>1. Mapped(f, more) = [i \in 1 .. n + 1 |-> f[more[i]]]
    BY <1>3, Zenon DEF Mapped
  <2>2. k = [i \in 1 .. n + 1 |-> k[i]]
    BY <1>7, LenProperties
  <2>3. \A i \in 1 .. n + 1 : k[i] = f[more[i]]
    <3>1. \A i \in 1 .. n + 1 : i \in 1 .. n \/ i = n + 1
      BY <1>1
    <3> QED
      BY <1>3, <1>5, <1>7, <3>1, Zenon
  <2> QED
    BY <2>1, <2>2, <2>3, Zenon
<1> QED
  BY <1>2, <1>4, <1>5, <1>6, <1>8, Zenon DEF MapsMore

\* The text of a sequence whose elements f spells.
SpellsMore(f, s, x, C) ==
    /\ FlattenSeq(Mapped(f, s)) \in Seq(C)
    /\ FlattenSeq(Mapped(f, Append(s, x))) = FlattenSeq(Mapped(f, s)) \o f[x]

LEMMA SpelledAppend ==
  ASSUME NEW S, NEW C, NEW f \in [S -> Seq(C)], NEW s \in Seq(S), NEW x \in S
  PROVE  SpellsMore(f, s, x, C)
<1>1. /\ Mapped(f, s) \in Seq(Seq(C))
      /\ Mapped(f, Append(s, x)) = Append(Mapped(f, s), f[x])
  <2>1. PICK V : V = Seq(C)
    OBVIOUS
  <2>2. f \in [S -> V]
    BY <2>1, Zenon
  <2>3. Mapped(f, s) \in Seq(V) /\ Mapped(f, Append(s, x)) = Append(Mapped(f, s), f[x])
    <3>1. MapsMore(f, s, x, V)
      BY <2>2, MappedAppend, Zenon
    <3> QED
      BY <3>1, Zenon DEF MapsMore
  <2> QED
    BY <2>1, <2>3, Zenon
<1>2. f[x] \in Seq(C) /\ IsJoinable(Seq(C))
  BY SeqsJoin
<1>3. PICK m \in Seq(Seq(C)) : m = Mapped(f, s)
  BY <1>1
<1>4. FlattenSeq(m) \in Seq(C) /\ FlattenSeq(Append(m, f[x])) = FlattenSeq(m) \o f[x]
  BY <1>2, FlattenAppend, Zenon
<1> QED
  BY <1>1, <1>3, <1>4, Zenon DEF SpellsMore

\* The characters patterns are made of.
IsCharSet(C) == Directives \cup {"%", LeftBrace, RightBrace} \subseteq C

\* A character in a literal.
Escaped(c) == IF c = "%" THEN <<"%", "%">> ELSE <<c>>

Escape(text) == FlattenSeq([i \in DOMAIN text |-> Escaped(text[i])])

Spelled(items) == FlattenSeq([i \in DOMAIN items |-> Spelling(items[i])])

\* A literal is spelled by escaping its characters.
LEMMA LiteralSpelling ==
  ASSUME NEW text
  PROVE  Spelling(Literal(text)) = Escape(text)
BY Zenon DEF Spelling, Literal, Escape, Escaped

\* One more character in a literal is one more at the end of its spelling.
LEMMA EscapeAppend ==
  ASSUME NEW C, IsCharSet(C), NEW text \in Seq(C), NEW c \in C
  PROVE  Escape(text) \in Seq(C) /\ Escape(Append(text, c)) = Escape(text) \o Escaped(c)
<1> DEFINE f == [x \in C |-> Escaped(x)]
<1>1. f \in [C -> Seq(C)]
  <2>1. "%" \in C
    BY DEF IsCharSet
  <2>2. \A x \in C : Escaped(x) \in Seq(C)
    BY <2>1 DEF Escaped
  <2> QED
    BY <2>2
<1>2. ASSUME NEW s \in Seq(C)
      PROVE  Escape(s) = FlattenSeq(Mapped(f, s))
  <2>1. \A i \in DOMAIN s : s[i] \in C
    BY <1>2, LenProperties, ElementOfSeq, Zenon
  <2>2. [i \in DOMAIN s |-> Escaped(s[i])] = Mapped(f, s)
    BY <2>1, Zenon DEF Mapped
  <2> QED
    BY <2>2, Zenon DEF Escape
<1>3. Append(text, c) \in Seq(C) /\ f[c] = Escaped(c)
  BY AppendProperties, Zenon
<1> HIDE DEF f
<1>4. /\ FlattenSeq(Mapped(f, text)) \in Seq(C)
      /\ FlattenSeq(Mapped(f, Append(text, c))) = FlattenSeq(Mapped(f, text)) \o f[c]
  <2>1. SpellsMore(f, text, c, C)
    BY <1>1, SpelledAppend, Zenon
  <2> QED
    BY <2>1, Zenon DEF SpellsMore
<1> QED
  BY <1>2, <1>3, <1>4, Zenon

LEMMA ItemSpelling ==
  ASSUME NEW C, IsCharSet(C), NEW item \in Items(C)
  PROVE  Spelling(item) \in Seq(C)
<1>1. CASE item \in [kind : {"literal"}, text : Seq(C)]
  <2>1. PICK text \in Seq(C) : item = Literal(text)
    BY <1>1 DEF Literal
  <2>2. "%" \in C
    BY DEF IsCharSet
  <2> QED
    BY <2>1, <2>2, LiteralSpelling, EscapeAppend, Zenon
<1>2. CASE item \in [kind : Directives, config : Seq(C)]
  <2>1. PICK c \in Directives, config \in Seq(C) : item.kind = c /\ item.config = config
    BY <1>2
  <2>2. c # "literal" /\ c \in C /\ "%" \in C /\ LeftBrace \in C /\ RightBrace \in C
    BY DEF IsCharSet, Directives
  <2>3. <<"%", c>> \in Seq(C) /\ <<LeftBrace>> \in Seq(C) /\ <<RightBrace>> \in Seq(C)
    BY <2>2
  <2>4. <<LeftBrace>> \o config \o <<RightBrace>> \in Seq(C)
    BY <2>3, ConcatProperties, Zenon
  <2>5. <<>> \in Seq(C)
    BY EmptySeq
  <2>6. Spelling(item) = <<"%", c>> \o
           IF config = <<>> THEN <<>> ELSE <<LeftBrace>> \o config \o <<RightBrace>>
    BY <2>1, <2>2, Zenon DEF Spelling
  <2> QED
    BY <2>3, <2>4, <2>5, <2>6, ConcatProperties, Zenon
<1> QED
  BY <1>1, <1>2 DEF Items

\* One more item is one more at the end of what the items spell.
LEMMA SpelledItems ==
  ASSUME NEW C, IsCharSet(C), NEW items \in Seq(Items(C)), NEW item \in Items(C)
  PROVE  /\ Spelled(items) \in Seq(C)
         /\ Spelled(Append(items, item)) = Spelled(items) \o Spelling(item)
<1> DEFINE f == [x \in Items(C) |-> Spelling(x)]
<1>1. f \in [Items(C) -> Seq(C)]
  BY ItemSpelling, Zenon
<1>2. ASSUME NEW s \in Seq(Items(C))
      PROVE  Spelled(s) = FlattenSeq(Mapped(f, s))
  <2>1. \A i \in DOMAIN s : s[i] \in Items(C)
    BY <1>2, LenProperties, ElementOfSeq, Zenon
  <2>2. [i \in DOMAIN s |-> Spelling(s[i])] = Mapped(f, s)
    BY <2>1, Zenon DEF Mapped
  <2> QED
    BY <2>2, Zenon DEF Spelled
<1>3. Append(items, item) \in Seq(Items(C)) /\ f[item] = Spelling(item)
  BY AppendProperties, Zenon
<1> HIDE DEF f
<1>4. /\ FlattenSeq(Mapped(f, items)) \in Seq(C)
      /\ FlattenSeq(Mapped(f, Append(items, item))) = FlattenSeq(Mapped(f, items)) \o f[item]
  <2>1. SpellsMore(f, items, item, C)
    BY <1>1, SpelledAppend, Zenon
  <2> QED
    BY <2>1, Zenon DEF SpellsMore
<1> QED
  BY <1>2, <1>3, <1>4, Zenon

LEMMA NothingSpelled == Escape(<<>>) = <<>> /\ Spelled(<<>>) = <<>>
<1>1. [i \in DOMAIN <<>> |-> Escaped(<<>>[i])] = <<>>
  OBVIOUS
<1>2. [i \in DOMAIN <<>> |-> Spelling(<<>>[i])] = <<>>
  OBVIOUS
<1> QED
  BY <1>1, <1>2, FlattenEmpty, Zenon DEF Escape, Spelled

-----------------------------------------------------------------------------
(* The lists of items parse builds.                                        *)

AllMade(items) == \A i \in DOMAIN items : items[i] # NoItem

\* No literal is empty, and none follows another.
Separate(items) ==
    \A i \in DOMAIN items : items[i].kind = "literal" =>
        /\ items[i].text # <<>>
        /\ i + 1 \in DOMAIN items => items[i + 1].kind # "literal"

\* A literal may come next.
EndsOpen(items) == \A i \in DOMAIN items : i = Len(items) => items[i].kind # "literal"

\* more is items, of length n, and x.
Grows(items, x, more, n) ==
    /\ n = Len(items) /\ DOMAIN items = 1 .. n
    /\ n + 1 = Len(more) /\ DOMAIN more = 1 .. n + 1
    /\ more[n + 1] = x
    /\ \A i \in 1 .. n : more[i] = items[i]

\* The facts about Append, in one place.
LEMMA Grown ==
  ASSUME NEW S, NEW items \in Seq(S), NEW x \in S
  PROVE  \E n \in Nat : Grows(items, x, Append(items, x), n)
<1>1. PICK more \in Seq(S) : more = Append(items, x)
  BY AppendProperties, Zenon
<1>2. PICK n \in Nat : n = Len(items) /\ DOMAIN items = 1 .. n
  BY LenProperties, Zenon
<1>3. Len(more) = n + 1 /\ DOMAIN more = 1 .. Len(more)
  BY <1>1, <1>2, AppendProperties, LenProperties, Zenon
<1>4. more[n + 1] = x /\ \A i \in 1 .. n : more[i] = items[i]
  BY <1>1, <1>2, <1>3
<1> QED
  BY <1>1, <1>2, <1>3, <1>4, Zenon DEF Grows

\* An item more keeps the list made, or not, as the item is.
LEMMA MadeAppend ==
  ASSUME NEW S, NEW items \in Seq(S), NEW x \in S
  PROVE  AllMade(Append(items, x)) <=> AllMade(items) /\ x # NoItem
<1>0. PICK n \in Nat : Grows(items, x, Append(items, x), n)
  BY Grown, Zenon
<1>1. /\ DOMAIN items = 1 .. n
      /\ DOMAIN Append(items, x) = 1 .. n + 1
      /\ Append(items, x)[n + 1] = x
      /\ \A i \in 1 .. n : Append(items, x)[i] = items[i]
  BY <1>0, Zenon DEF Grows
<1>2. n + 1 \in 1 .. n + 1 /\ \A i \in 1 .. n : i \in 1 .. n + 1
  BY <1>1
<1>3. \A i \in 1 .. n + 1 : i \in 1 .. n \/ i = n + 1
  BY <1>1
<1> QED
  BY <1>1, <1>2, <1>3, Zenon DEF AllMade

\* An item more keeps literals apart, unless it is a second literal.
LEMMA SeparateAppend ==
  ASSUME NEW S, NEW items \in Seq(S), NEW x \in S, Separate(items),
         x.kind = "literal" => x.text # <<>> /\ EndsOpen(items)
  PROVE  /\ Separate(Append(items, x))
         /\ x.kind # "literal" => EndsOpen(Append(items, x))
<1>0. PICK n \in Nat : Grows(items, x, Append(items, x), n)
  BY Grown, Zenon
<1>1. /\ n = Len(items) /\ DOMAIN items = 1 .. n
      /\ Len(Append(items, x)) = n + 1
      /\ DOMAIN Append(items, x) = 1 .. n + 1
      /\ Append(items, x)[n + 1] = x
      /\ \A i \in 1 .. n : Append(items, x)[i] = items[i]
  BY <1>0, Zenon DEF Grows
<1>2. \A i \in 1 .. n + 1 : i \in 1 .. n \/ i = n + 1
  BY <1>1
<1>3. \A i \in 1 .. n : i + 1 \in 1 .. n \/ (i = n /\ i + 1 = n + 1)
  BY <1>1
<1>4. ~(n + 1 + 1 \in 1 .. n + 1)
  BY <1>1
<1>5. ASSUME NEW i \in 1 .. n + 1, Append(items, x)[i].kind = "literal"
      PROVE  /\ Append(items, x)[i].text # <<>>
             /\ i + 1 \in 1 .. n + 1 => Append(items, x)[i + 1].kind # "literal"
  <2>1. CASE i = n + 1
    BY <1>1, <1>4, <1>5, <2>1, Zenon
  <2>2. CASE i \in 1 .. n
    <3>1. items[i].kind = "literal" /\ items[i].text = Append(items, x)[i].text
      BY <1>1, <1>5, <2>2, Zenon
    <3>2. items[i].text # <<>>
      BY <1>1, <2>2, <3>1, Zenon DEF Separate
    <3>3. CASE i + 1 \in 1 .. n
      BY <1>1, <2>2, <3>1, <3>2, <3>3, Zenon DEF Separate
    <3>4. CASE i = n /\ i + 1 = n + 1
      <4>1. ~EndsOpen(items)
        BY <1>1, <2>2, <3>1, <3>4, Zenon DEF EndsOpen
      <4>2. x.kind # "literal"
        BY <4>1, Zenon
      <4> QED
        BY <1>1, <3>1, <3>2, <3>4, <4>2, Zenon
    <3> QED
      BY <1>3, <2>2, <3>3, <3>4, Zenon
  <2> QED
    BY <1>2, <1>5, <2>1, <2>2, Zenon
<1>6. Separate(Append(items, x))
  BY <1>1, <1>5, Zenon DEF Separate
<1>7. x.kind # "literal" => EndsOpen(Append(items, x))
  BY <1>1, Zenon DEF EndsOpen
<1> QED
  BY <1>6, <1>7

LEMMA MadeItems ==
  ASSUME NEW C, NEW items \in Seq(Items(C) \cup {NoItem}), AllMade(items)
  PROVE  items \in Seq(Items(C))
<1>1. PICK n \in Nat : n = Len(items) /\ DOMAIN items = 1 .. n
  BY LenProperties, Zenon
<1>2. \A i \in 1 .. n : items[i] \in Items(C)
  <2>1. \A i \in 1 .. Len(items) : items[i] \in Items(C) \cup {NoItem}
    BY ElementOfSeq, Zenon
  <2> QED
    BY <1>1, <2>1, Zenon DEF AllMade
<1>3. items \in [1 .. n -> Items(C)]
  BY <1>1, <1>2
<1> QED
  BY <1>1, <1>3

-----------------------------------------------------------------------------
(* Parts of a pattern.                                                     *)

\* Adjacent parts of a sequence join.
LEMMA PartsJoin ==
  ASSUME NEW S, NEW p \in Seq(S), NEW a \in 1 .. Len(p) + 1,
         NEW b \in a - 1 .. Len(p), NEW d \in b .. Len(p)
  PROVE  SubSeq(p, a, b) \o SubSeq(p, b + 1, d) = SubSeq(p, a, d)
<1>1. PICK n \in Nat : n = Len(p) /\ \A i \in 1 .. n : p[i] \in S
  BY LenProperties, ElementOfSeq, Zenon
<1>2. /\ a \in Int /\ b \in Int /\ d \in Int /\ b + 1 \in Int
      /\ 1 <= a /\ a <= b + 1 /\ b <= d /\ d <= n
  BY <1>1
<1>3. /\ \A i \in a .. b : p[i] \in S
      /\ \A i \in b + 1 .. d : p[i] \in S
      /\ \A i \in a .. d : p[i] \in S
  BY <1>1, <1>2
<1>4. PICK s \in Seq(S) : /\ s = SubSeq(p, a, b) /\ Len(s) = b - a + 1
                          /\ \A i \in 1 .. b - a + 1 : s[i] = p[a + i - 1]
  <2>1. /\ SubSeq(p, a, b) \in Seq(S)
        /\ Len(SubSeq(p, a, b)) = IF a <= b THEN b - a + 1 ELSE 0
        /\ \A i \in 1 .. b - a + 1 : SubSeq(p, a, b)[i] = p[a + i - 1]
    BY <1>2, <1>3, SubSeqProperties
  <2>2. Len(SubSeq(p, a, b)) = b - a + 1
    BY <1>2, <2>1
  <2> QED
    BY <2>1, <2>2
<1>5. PICK t \in Seq(S) : /\ t = SubSeq(p, b + 1, d) /\ Len(t) = d - b
                          /\ \A i \in 1 .. d - b : t[i] = p[b + i]
  <2>1. /\ SubSeq(p, b + 1, d) \in Seq(S)
        /\ Len(SubSeq(p, b + 1, d)) = IF b + 1 <= d THEN d - (b + 1) + 1 ELSE 0
        /\ \A i \in 1 .. d - (b + 1) + 1 : SubSeq(p, b + 1, d)[i] = p[b + 1 + i - 1]
    BY <1>2, <1>3, SubSeqProperties
  <2>2. Len(SubSeq(p, b + 1, d)) = d - b
    BY <1>2, <2>1
  <2>3. \A i \in 1 .. d - b : SubSeq(p, b + 1, d)[i] = p[b + i]
    <3>1. \A i \in 1 .. d - b : i \in 1 .. d - (b + 1) + 1 /\ b + 1 + i - 1 = b + i
      BY <1>2
    <3> QED
      BY <2>1, <3>1
  <2> QED
    BY <2>1, <2>2, <2>3
<1>6. PICK u \in Seq(S) : /\ u = SubSeq(p, a, d) /\ Len(u) = d - a + 1
                          /\ \A i \in 1 .. d - a + 1 : u[i] = p[a + i - 1]
  <2>1. /\ SubSeq(p, a, d) \in Seq(S)
        /\ Len(SubSeq(p, a, d)) = IF a <= d THEN d - a + 1 ELSE 0
        /\ \A i \in 1 .. d - a + 1 : SubSeq(p, a, d)[i] = p[a + i - 1]
    BY <1>2, <1>3, SubSeqProperties
  <2>2. Len(SubSeq(p, a, d)) = d - a + 1
    BY <1>2, <2>1
  <2> QED
    BY <2>1, <2>2
<1>7. PICK v \in Seq(S) : /\ v = s \o t /\ Len(v) = Len(s) + Len(t)
                          /\ \A i \in 1 .. Len(s) + Len(t) :
                                v[i] = IF i <= Len(s) THEN s[i] ELSE t[i - Len(s)]
  <2>1. s \o t \in Seq(S)
    BY ConcatProperties, Zenon
  <2>2. Len(s \o t) = Len(s) + Len(t)
    OBVIOUS
  <2>3. \A i \in 1 .. Len(s) + Len(t) : (s \o t)[i] = IF i <= Len(s) THEN s[i] ELSE t[i - Len(s)]
    OBVIOUS
  <2> QED
    BY <2>1, <2>2, <2>3
<1>8. Len(v) = Len(u)
  BY <1>2, <1>4, <1>5, <1>6, <1>7
<1>9. ASSUME NEW i \in 1 .. Len(u)
      PROVE  v[i] = u[i]
  <2>1. i \in 1 .. d - a + 1 /\ i \in 1 .. Len(s) + Len(t)
    BY <1>2, <1>4, <1>5, <1>6
  <2>2. CASE i <= b - a + 1
    <3>1. i \in 1 .. b - a + 1
      BY <1>2, <2>1, <2>2
    <3>2. v[i] = s[i]
      BY <1>4, <1>7, <2>1, <2>2
    <3> QED
      BY <1>4, <1>6, <2>1, <3>1, <3>2
  <2>3. CASE ~(i <= b - a + 1)
    <3>1. i - (b - a + 1) \in 1 .. d - b /\ b + (i - (b - a + 1)) = a + i - 1
      BY <1>2, <2>1, <2>3
    <3>2. v[i] = t[i - (b - a + 1)]
      BY <1>4, <1>7, <2>1, <2>3
    <3> QED
      BY <1>5, <1>6, <2>1, <3>1, <3>2
  <2> QED
    BY <2>2, <2>3
<1>10. v = u
  BY <1>8, <1>9, SeqEqual
<1> QED
  BY <1>4, <1>5, <1>6, <1>7, <1>10, Zenon

Associate(s, t, u) == (s \o t) \o u = s \o (t \o u)

LEMMA PartsAssociate ==
  ASSUME NEW S, NEW s \in Seq(S), NEW t \in Seq(S), NEW u \in Seq(S)
  PROVE  Associate(s, t, u)
BY SMT DEF Associate

LEMMA OnePart ==
  ASSUME NEW S, NEW p \in Seq(S), NEW i \in 1 .. Len(p)
  PROVE  SubSeq(p, i, i) = <<p[i]>>
<1>1. PICK x \in S : x = p[i]
  BY ElementOfSeq, Zenon
<1>2. i \in i .. Len(p) /\ i \in Int /\ i + 1 \in Int /\ i < i + 1
  BY LenProperties
<1>3. SubSeq(p, i, i) = <<p[i]>> \o SubSeq(p, i + 1, i)
  BY <1>2, SubSeqRecursiveFirst, Zenon
<1>4. SubSeq(p, i + 1, i) = <<>>
  BY <1>2, SubSeqEmpty
<1>5. <<x>> \o <<>> = <<x>>
  OBVIOUS
<1> QED
  BY <1>1, <1>3, <1>4, <1>5, Zenon

LEMMA TwoPart ==
  ASSUME NEW S, NEW p \in Seq(S), NEW i \in 1 .. Len(p), i + 1 <= Len(p)
  PROVE  SubSeq(p, i, i + 1) = <<p[i], p[i + 1]>>
<1>1. i + 1 \in 1 .. Len(p) /\ i + 1 \in i .. Len(p)
  BY LenProperties
<1>2. PICK x \in S, y \in S : x = p[i] /\ y = p[i + 1]
  BY <1>1, ElementOfSeq, Zenon
<1>3. SubSeq(p, i, i + 1) = <<p[i]>> \o SubSeq(p, i + 1, i + 1)
  BY <1>1, SubSeqRecursiveFirst, Zenon
<1>4. SubSeq(p, i + 1, i + 1) = <<p[i + 1]>>
  BY <1>1, OnePart, Zenon
<1>5. <<x>> \o <<y>> = <<x, y>>
  <2>1. PICK u \in Seq(S) : u = <<x>> \o <<y>>
    <3>1. <<x>> \in Seq(S) /\ <<y>> \in Seq(S)
      BY <1>2
    <3> QED
      BY <3>1, ConcatProperties, Zenon
  <2>2. Len(u) = 2 /\ u[1] = x /\ u[2] = y
    BY <2>1
  <2>3. PICK v \in Seq(S) : v = <<x, y>> /\ Len(v) = 2 /\ v[1] = x /\ v[2] = y
    <3>1. PICK v : v = <<x, y>>
      OBVIOUS
    <3>2. v \in Seq(S) /\ Len(v) = 2 /\ v[1] = x /\ v[2] = y
      BY <3>1
    <3> QED
      BY <3>1, <3>2, Zenon
  <2>4. Len(u) = Len(v) /\ \A k \in 1 .. Len(u) : u[k] = v[k]
    BY <2>2, <2>3
  <2>5. u = v
    BY <2>4, SeqEqual
  <2> QED
    BY <2>1, <2>3, <2>5, Zenon
<1> QED
  BY <1>2, <1>3, <1>4, <1>5, Zenon

\* The text of a round is the text of the item it makes.
LEMMA DirectiveSpelling ==
  ASSUME NEW c \in Directives, NEW config
  PROVE  /\ Item(c, config).kind # "literal" /\ Item(c, config) # NoItem
         /\ Spelling(Item(c, config)) =
               <<"%", c>> \o IF config = <<>> THEN <<>>
                             ELSE <<LeftBrace>> \o config \o <<RightBrace>>
<1>1. c # "literal" /\ c # "none"
  BY DEF Directives
<1>2. Item(c, config).kind = c /\ Item(c, config).config = config /\ NoItem.kind = "none"
  BY DEF Item, NoItem
<1>3. Item(c, config) # NoItem
  BY <1>1, <1>2
<1> QED
  BY <1>1, <1>2, <1>3, Zenon DEF Spelling

\* The item a round makes is spelled as what the round has read.
LEMMA BareSpelled ==
  ASSUME NEW C, IsCharSet(C), NEW pattern \in Seq(C), NEW i \in 1 .. Len(pattern), NEW s,
         NEW next \in i + 1 .. Len(pattern) + 1, BareRound(pattern, s, i, next),
         pattern[i + 1] \in Directives
  PROVE  Spelling(Item(pattern[i + 1], <<>>)) = SubSeq(pattern, i, next - 1)
<1>1. PICK c \in Directives : c = pattern[i + 1]
  BY Zenon
<1>2. c \in C /\ "%" \in C
  BY DEF IsCharSet
<1>3. next = i + 2 /\ pattern[i] = "%"
  BY Zenon DEF BareRound
<1>4. i + 1 <= Len(pattern) /\ next - 1 = i + 1
  BY <1>3, LenProperties
<1>5. SubSeq(pattern, i, next - 1) = <<"%", c>>
  BY <1>1, <1>3, <1>4, TwoPart, Zenon
<1>6. Spelling(Item(c, <<>>)) = <<"%", c>> \o <<>>
  BY DirectiveSpelling, Zenon
<1>7. <<"%", c>> \o <<>> = <<"%", c>>
  BY <1>2
<1> QED
  BY <1>1, <1>5, <1>6, <1>7, Zenon

LEMMA ConfiguredSpelled ==
  ASSUME NEW C, IsCharSet(C), NEW pattern \in Seq(C), NEW i \in 1 .. Len(pattern), NEW s,
         NEW next \in i + 1 .. Len(pattern) + 1, NEW config,
         ConfiguredRound(pattern, s, i, next, config), pattern[i + 1] \in Directives
  PROVE  Spelling(Item(pattern[i + 1], config)) = SubSeq(pattern, i, next - 1)
<1>1. PICK c \in Directives : c = pattern[i + 1]
  BY Zenon
<1>2. c \in C /\ "%" \in C /\ LeftBrace \in C /\ RightBrace \in C
  BY DEF IsCharSet
<1>3. PICK n \in Nat : n = Len(pattern)
  BY LenProperties, Zenon
<1>4. PICK j \in i + 4 .. n : j = next - 1
  BY <1>3, Zenon DEF ConfiguredRound
<1>5. /\ pattern[i] = "%" /\ pattern[i + 2] = LeftBrace /\ pattern[j] = RightBrace
      /\ config = SubSeq(pattern, i + 3, j - 1)
  <2>1. next - 2 = j - 1
    BY <1>3, <1>4
  <2> QED
    BY <1>4, <2>1, Zenon DEF ConfiguredRound
<1>6. /\ i \in 1 .. n + 1 /\ i + 1 \in i - 1 .. n /\ i + 2 \in i + 1 .. n /\ i + 2 \in 1 .. n
      /\ i + 2 \in i - 1 .. n /\ j - 1 \in i + 2 .. n /\ j - 1 \in i - 1 .. n /\ j \in j - 1 .. n
      /\ j \in 1 .. n /\ i + 1 + 1 = i + 2 /\ i + 2 + 1 = i + 3 /\ j - 1 + 1 = j
      /\ i + 1 <= n
  BY <1>3, <1>4
<1>7. SubSeq(pattern, i, i + 1) = <<"%", c>>
  BY <1>1, <1>3, <1>5, <1>6, TwoPart, Zenon
<1>8. SubSeq(pattern, i + 2, i + 2) = <<LeftBrace>>
  BY <1>3, <1>5, <1>6, OnePart, Zenon
<1>9. SubSeq(pattern, j, j) = <<RightBrace>>
  BY <1>3, <1>5, <1>6, OnePart, Zenon
<1>10. SubSeq(pattern, i, i + 1) \o SubSeq(pattern, i + 2, i + 2) = SubSeq(pattern, i, i + 2)
  BY <1>3, <1>6, PartsJoin, Zenon
<1>11. SubSeq(pattern, i, i + 2) \o SubSeq(pattern, i + 3, j - 1) = SubSeq(pattern, i, j - 1)
  BY <1>3, <1>6, PartsJoin, Zenon
<1>12. SubSeq(pattern, i, j - 1) \o SubSeq(pattern, j, j) = SubSeq(pattern, i, j)
  BY <1>3, <1>6, PartsJoin, Zenon
<1>13. PICK a \in Seq(C), b \in Seq(C), d \in Seq(C), e \in Seq(C) :
          a = <<"%", c>> /\ b = <<LeftBrace>> /\ d = config /\ e = <<RightBrace>>
  <2>1. <<"%", c>> \in Seq(C) /\ <<LeftBrace>> \in Seq(C) /\ <<RightBrace>> \in Seq(C)
    BY <1>2
  <2>2. config \in Seq(C)
    <3>1. \A k \in i + 3 .. j - 1 : k \in 1 .. n
      BY <1>3, <1>4
    <3>2. \A k \in i + 3 .. j - 1 : pattern[k] \in C
      BY <1>3, <3>1, ElementOfSeq, Zenon
    <3>3. i + 3 \in Int /\ j - 1 \in Int
      BY <1>3
    <3>4. SubSeq(pattern, i + 3, j - 1) \in Seq(C)
      BY <3>2, <3>3, SubSeqProperties
    <3> QED
      BY <1>5, <3>4, Zenon
  <2> QED
    BY <2>1, <2>2, Zenon
<1>14. ((a \o b) \o d) \o e = a \o ((b \o d) \o e)
  <2>1. PICK f \in Seq(C) : f = b \o d
    BY ConcatProperties, Zenon
  <2>2. Associate(a, b, d) /\ Associate(a, f, e)
    BY PartsAssociate, Zenon
  <2> QED
    BY <2>1, <2>2, Zenon DEF Associate
<1>15. ((a \o b) \o d) \o e = SubSeq(pattern, i, j)
  BY <1>5, <1>7, <1>8, <1>9, <1>10, <1>11, <1>12, <1>13, Zenon
<1>16. config # <<>>
  <2>1. i + 3 \in 1 .. n /\ j - 1 \in i + 3 .. n
    BY <1>3, <1>4
  <2>2. i + 3 \in Int /\ j - 1 \in Int /\ i + 3 <= j - 1 /\ j - 1 - (i + 3) + 1 # 0
    BY <1>3, <1>4
  <2>3. \A k \in i + 3 .. j - 1 : pattern[k] \in C
    <3>1. \A k \in i + 3 .. j - 1 : k \in 1 .. n
      BY <1>3, <1>4
    <3> QED
      BY <1>3, <3>1, ElementOfSeq, Zenon
  <2>4. Len(SubSeq(pattern, i + 3, j - 1)) # 0
    <3>1. Len(SubSeq(pattern, i + 3, j - 1)) =
             IF i + 3 <= j - 1 THEN j - 1 - (i + 3) + 1 ELSE 0
      BY <2>2, <2>3, SubSeqProperties
    <3> QED
      BY <2>2, <3>1
  <2>5. Len(<<>>) = 0
    BY EmptySeq
  <2> QED
    BY <1>5, <2>4, <2>5, Zenon
<1>17. Spelling(Item(c, config)) = a \o ((b \o d) \o e)
  BY <1>13, <1>16, DirectiveSpelling, Zenon
<1> QED
  BY <1>1, <1>4, <1>14, <1>15, <1>17, Zenon

LEMMA PlainSpelled ==
  ASSUME NEW C, IsCharSet(C), NEW pattern \in Seq(C), NEW i \in 1 .. Len(pattern), NEW s,
         NEW next \in i + 1 .. Len(pattern) + 1, PlainRound(pattern, s, i, next)
  PROVE  Escaped(pattern[i]) = SubSeq(pattern, i, next - 1)
<1>1. CASE next = i + 1 /\ pattern[i] # "%"
  <2>1. next - 1 = i
    BY <1>1, LenProperties
  <2> QED
    BY <1>1, <2>1, OnePart, Zenon DEF Escaped
<1>2. CASE next = i + 2 /\ pattern[i] = "%" /\ pattern[i + 1] = "%"
  <2>1. next - 1 = i + 1 /\ i + 1 <= Len(pattern)
    BY <1>2, LenProperties
  <2> QED
    BY <1>2, <2>1, TwoPart, Zenon DEF Escaped
<1> QED
  BY <1>1, <1>2, Zenon DEF PlainRound

LEMMA PartJoin ==
  ASSUME NEW S, NEW p \in Seq(S), NEW i \in 1 .. Len(p), NEW next \in i + 1 .. Len(p) + 1
  PROVE  SubSeq(p, 1, i - 1) \o SubSeq(p, i, next - 1) = SubSeq(p, 1, next - 1)
<1>1. /\ 1 \in 1 .. Len(p) + 1 /\ i - 1 \in 1 - 1 .. Len(p) /\ next - 1 \in i - 1 .. Len(p)
      /\ (i - 1) + 1 = i
  BY LenProperties
<1>2. SubSeq(p, 1, i - 1) \o SubSeq(p, (i - 1) + 1, next - 1) = SubSeq(p, 1, next - 1)
  BY <1>1, PartsJoin, Zenon
<1> QED
  BY <1>1, <1>2, Zenon

-----------------------------------------------------------------------------
(* The loop of parse.                                                      *)

\* What the loop has read before index is a beginning of a pattern, unless an
\* item could not be made, and is what items and literal spell.
LoopAgrees(pattern, F, s) ==
    /\ s.index \in 1 .. Len(pattern) + 1
    /\ Separate(s.items) /\ EndsOpen(s.items)
    /\ s.code = 0 =>
          /\ IsPattern(pattern) <=> AllMade(s.items) /\ F[s.index]
          /\ AllMade(s.items) =>
                Spelled(s.items) \o Escape(s.literal) = SubSeq(pattern, 1, s.index - 1)
    /\ s.code # 0 => ~IsPattern(pattern)

\* addLiteral moves the literal to the items and keeps what they spell.
LEMMA LiteralAdded ==
  ASSUME NEW C, IsCharSet(C), NEW s \in LoopStates(C), Separate(s.items), EndsOpen(s.items)
  PROVE  /\ Separate(addLiteral(s).items)
         /\ AllMade(addLiteral(s).items) <=> AllMade(s.items)
         /\ AllMade(s.items) => Spelled(addLiteral(s).items) = Spelled(s.items) \o Escape(s.literal)
<1>1. PICK items \in Seq(Items(C) \cup {NoItem}), literal \in Seq(C) :
          s.items = items /\ s.literal = literal
  BY DEF LoopStates
<1>2. CASE literal = <<>>
  <2>1. addLiteral(s) = s
    BY <1>1, <1>2, Zenon DEF addLiteral
  <2>2. ASSUME AllMade(items)
        PROVE  Spelled(items) = Spelled(items) \o Escape(literal)
    <3>1. items \in Seq(Items(C))
      BY <2>2, MadeItems, Zenon
    <3>2. Spelled(items) \in Seq(C)
      <4>1. <<>> \in Seq(C)
        BY EmptySeq, Zenon
      <4>2. Literal(<<>>) \in Items(C)
        BY <4>1 DEF Items, Literal
      <4> QED
        BY <3>1, <4>2, SpelledItems, Zenon
    <3>3. Spelled(items) \o <<>> = Spelled(items)
      BY <3>2, ConcatEmptySeq, Zenon
    <3> QED
      BY <1>2, <3>3, NothingSpelled, Zenon
  <2> QED
    BY <1>1, <2>1, <2>2, Zenon
<1>3. CASE literal # <<>>
  <2>1. PICK x \in Items(C) \cup {NoItem} : x = Literal(literal) /\ x \in Items(C)
    <3>1. Literal(literal) \in Items(C)
      BY DEF Items, Literal
    <3> QED
      BY <3>1, Zenon
  <2>2. x.kind = "literal" /\ x.text = literal /\ x # NoItem
    <3>1. x.kind = "literal" /\ x.text = literal /\ NoItem.kind = "none"
      BY <2>1 DEF Literal, NoItem
    <3> QED
      BY <3>1
  <2>3. addLiteral(s).items = Append(items, x)
    <3>1. addLiteral(s) = [s EXCEPT !.items = Append(items, x), !.literal = <<>>]
      BY <1>1, <1>3, <2>1 DEF addLiteral, LoopStates
    <3>2. s = [index |-> s.index, literal |-> s.literal, items |-> s.items, code |-> s.code]
      BY DEF LoopStates
    <3> QED
      BY <3>1, <3>2
  <2>4. Separate(Append(items, x))
    BY <1>1, <1>3, <2>2, SeparateAppend, Zenon
  <2>5. AllMade(Append(items, x)) <=> AllMade(items)
    BY <2>2, MadeAppend, Zenon
  <2>6. ASSUME AllMade(items)
        PROVE  Spelled(Append(items, x)) = Spelled(items) \o Escape(literal)
    <3>1. items \in Seq(Items(C))
      BY <2>6, MadeItems, Zenon
    <3>2. Spelling(x) = Escape(literal)
      BY <2>1, LiteralSpelling, Zenon
    <3> QED
      BY <2>1, <3>1, <3>2, SpelledItems, Zenon
  <2> QED
    BY <1>1, <2>3, <2>4, <2>5, <2>6, Zenon
<1> QED
  BY <1>2, <1>3

\* The loop invariant, through a character or %%.
LEMMA PlainAgrees ==
  ASSUME NEW C, IsCharSet(C), NEW pattern \in Seq(C), NEW F, Reads(F, pattern),
         NEW s \in LoopStates(C), LoopAgrees(pattern, F, s), s.code = 0,
         NEW i \in 1 .. Len(pattern), i = s.index, NEW next \in i + 1 .. Len(pattern) + 1,
         PlainRound(pattern, s, i, next)
  PROVE  LoopAgrees(pattern, F, Round(pattern, s))
<1>1. PICK items \in Seq(Items(C) \cup {NoItem}), literal \in Seq(C) :
          s.items = items /\ s.literal = literal
  BY DEF LoopStates
<1>2. PICK c \in C : c = pattern[i]
  BY ElementOfSeq, Zenon
<1>3. PICK r : r = Round(pattern, s)
  BY Zenon
<1>4. r.index = next /\ r.items = items /\ r.literal = Append(literal, c) /\ r.code = 0
  <2>1. r = [s EXCEPT !.literal = Append(literal, c), !.index = next]
    BY <1>1, <1>2, <1>3 DEF LoopStates, PlainRound, Plain
  <2>2. s = [index |-> s.index, literal |-> s.literal, items |-> s.items, code |-> s.code]
    BY DEF LoopStates
  <2> QED
    BY <1>1, <2>1, <2>2
<1>5. F[i] <=> F[next]
  BY PlainReads
<1>6. Escaped(c) = SubSeq(pattern, i, next - 1)
  BY <1>2, PlainSpelled
<1>7. ASSUME AllMade(items)
      PROVE  Spelled(items) \o Escape(Append(literal, c)) = SubSeq(pattern, 1, next - 1)
  <2>1. Spelled(items) \o Escape(literal) = SubSeq(pattern, 1, i - 1)
    BY <1>1, <1>7, Zenon DEF LoopAgrees
  <2>2. Escape(literal) \in Seq(C) /\ Escape(Append(literal, c)) = Escape(literal) \o Escaped(c)
    BY EscapeAppend, Zenon
  <2>3. Spelled(items) \in Seq(C)
    <3>1. items \in Seq(Items(C))
      BY <1>7, MadeItems, Zenon
    <3>2. Literal(literal) \in Items(C)
      BY DEF Items, Literal
    <3> QED
      BY <3>1, <3>2, SpelledItems, Zenon
  <2>4. Escaped(c) \in Seq(C)
    <3>1. "%" \in C
      BY DEF IsCharSet
    <3> QED
      BY <3>1 DEF Escaped
  <2>5. Spelled(items) \o (Escape(literal) \o Escaped(c)) = (Spelled(items) \o Escape(literal)) \o Escaped(c)
    <3>1. Associate(Spelled(items), Escape(literal), Escaped(c))
      BY <2>2, <2>3, <2>4, PartsAssociate, Zenon
    <3> QED
      BY <3>1, Zenon DEF Associate
  <2>6. SubSeq(pattern, 1, i - 1) \o SubSeq(pattern, i, next - 1) = SubSeq(pattern, 1, next - 1)
    BY PartJoin
  <2> QED
    BY <1>6, <2>1, <2>2, <2>5, <2>6, Zenon
<1>8. next \in 1 .. Len(pattern) + 1
  BY LenProperties
<1> QED
  BY <1>1, <1>3, <1>4, <1>5, <1>7, <1>8, Zenon DEF LoopAgrees

\* What is read at i: the directive c with config, up to next.
Reading(pattern, F, i, c, config, next) ==
    /\ F[i] <=> c \in Directives /\ F[next]
    /\ c \in Directives => Spelling(Item(c, config)) = SubSeq(pattern, i, next - 1)

\* The loop invariant, through a directive.
LEMMA DirectedAgrees ==
  ASSUME NEW C, IsCharSet(C), NEW pattern \in Seq(C), NEW F,
         NEW s \in LoopStates(C), LoopAgrees(pattern, F, s), s.code = 0,
         NEW i \in 1 .. Len(pattern), i = s.index, NEW next \in i + 1 .. Len(pattern) + 1,
         NEW c, NEW config \in Seq(C), Reading(pattern, F, i, c, config, next)
  PROVE  LoopAgrees(pattern, F, Directed(s, c, config, next))
<1>1. PICK r \in LoopStates(C) : r = addLiteral(s)
  BY AddLiteralTyped
<1>2. PICK items \in Seq(Items(C) \cup {NoItem}) : r.items = items
  BY DEF LoopStates
<1>3. PICK x \in Items(C) \cup {NoItem} : x = CreateFormatItem(c, config)
  BY DEF CreateFormatItem, Item, Items
<1>4. PICK t : t = Directed(s, c, config, next)
  BY Zenon
<1>5. t.index = next /\ t.items = Append(items, x) /\ t.literal = <<>> /\ t.code = 0
  <2>1. t = [r EXCEPT !.items = Append(items, x), !.index = next]
    BY <1>1, <1>2, <1>3, <1>4 DEF LoopStates, Directed
  <2>2. r = [index |-> r.index, literal |-> r.literal, items |-> r.items, code |-> r.code]
    BY DEF LoopStates
  <2>3. r.literal = <<>> /\ r.code = 0
    <3>1. s = [index |-> s.index, literal |-> s.literal, items |-> s.items, code |-> s.code]
      BY DEF LoopStates
    <3> QED
      BY <1>1, <3>1 DEF addLiteral
  <2> QED
    BY <2>1, <2>2, <2>3
<1>6. /\ Separate(items)
      /\ AllMade(items) <=> AllMade(s.items)
      /\ AllMade(s.items) => Spelled(items) = Spelled(s.items) \o Escape(s.literal)
  <2>1. Separate(s.items) /\ EndsOpen(s.items)
    BY Zenon DEF LoopAgrees
  <2> QED
    BY <1>1, <1>2, <2>1, LiteralAdded, Zenon
<1>7. x.kind # "literal" /\ (x # NoItem <=> c \in Directives)
  <2>1. CASE c \in Directives
    BY <1>3, <2>1, DirectiveSpelling, Zenon DEF CreateFormatItem
  <2>2. CASE c \notin Directives
    <3>1. NoItem.kind # "literal"
      BY DEF NoItem
    <3> QED
      BY <1>3, <2>2, <3>1, Zenon DEF CreateFormatItem
  <2> QED
    BY <2>1, <2>2
<1>8. Separate(Append(items, x)) /\ EndsOpen(Append(items, x))
  BY <1>6, <1>7, SeparateAppend, Zenon
<1>9. AllMade(Append(items, x)) <=> AllMade(s.items) /\ c \in Directives
  <2>1. AllMade(Append(items, x)) <=> AllMade(items) /\ x # NoItem
    BY MadeAppend, Zenon
  <2> QED
    BY <1>6, <1>7, <2>1, Zenon
<1>10. IsPattern(pattern) <=> AllMade(Append(items, x)) /\ F[next]
  BY <1>9, Zenon DEF LoopAgrees, Reading
<1>11. ASSUME AllMade(Append(items, x))
       PROVE  Spelled(Append(items, x)) \o Escape(<<>>) = SubSeq(pattern, 1, next - 1)
  <2>1. AllMade(s.items) /\ AllMade(items) /\ c \in Directives
    BY <1>6, <1>9, <1>11, Zenon
  <2>2. Spelled(items) = SubSeq(pattern, 1, i - 1)
    BY <1>6, <2>1, Zenon DEF LoopAgrees
  <2>3. x = Item(c, config)
    BY <1>3, <2>1, Zenon DEF CreateFormatItem
  <2>4. x \in Items(C)
    BY <2>1, <2>3 DEF Item, Items
  <2>5. items \in Seq(Items(C))
    BY <2>1, MadeItems, Zenon
  <2>6. Spelled(Append(items, x)) = Spelled(items) \o Spelling(x)
    BY <2>4, <2>5, SpelledItems, Zenon
  <2>7. Spelling(x) = SubSeq(pattern, i, next - 1)
    BY <2>1, <2>3, Zenon DEF Reading
  <2>8. SubSeq(pattern, 1, i - 1) \o SubSeq(pattern, i, next - 1) = SubSeq(pattern, 1, next - 1)
    BY PartJoin
  <2>9. Spelled(Append(items, x)) = SubSeq(pattern, 1, next - 1)
    BY <2>2, <2>6, <2>7, <2>8, Zenon
  <2>10. Spelled(Append(items, x)) \in Seq(C)
    <3>1. Spelled(items) \in Seq(C) /\ Spelling(x) \in Seq(C)
      BY <2>4, <2>5, SpelledItems, ItemSpelling, Zenon
    <3> QED
      BY <2>6, <3>1, ConcatProperties, Zenon
  <2>11. Spelled(Append(items, x)) \o <<>> = Spelled(Append(items, x))
    BY <2>10, ConcatEmptySeq, Zenon
  <2> QED
    BY <2>9, <2>11, NothingSpelled, Zenon
<1>12. next \in 1 .. Len(pattern) + 1
  BY LenProperties
<1> QED
  BY <1>4, <1>5, <1>8, <1>10, <1>11, <1>12, Zenon DEF LoopAgrees

\* The loop invariant, through each kind of round.
LEMMA RoundAgrees ==
  ASSUME NEW C, IsCharSet(C), NEW pattern \in Seq(C), NEW F, Reads(F, pattern),
         NEW s \in LoopStates(C), LoopAgrees(pattern, F, s), ~Done(pattern, s)
  PROVE  LoopAgrees(pattern, F, Round(pattern, s))
<1>1. s.code = 0
  BY Zenon DEF Done
<1>2. PICK i \in 1 .. Len(pattern) : i = s.index
  BY DEF Done, LoopStates
<1>3. CASE FailedRound(pattern, s, i)
  <2>1. ~F[i]
    BY <1>3, StuckReads, Zenon DEF FailedRound
  <2>2. PICK code \in {-1, -2} : Round(pattern, s) = [s EXCEPT !.code = code]
    BY <1>3, Zenon DEF FailedRound
  <2>3. PICK r : r = Round(pattern, s)
    BY Zenon
  <2>4. r.index = i /\ r.items = s.items /\ r.code # 0
    <3>1. s = [index |-> s.index, literal |-> s.literal, items |-> s.items, code |-> s.code]
      BY DEF LoopStates
    <3>2. r = [s EXCEPT !.code = code] /\ code # 0
      BY <2>2, <2>3
    <3> QED
      BY <1>2, <3>1, <3>2
  <2>5. ~IsPattern(pattern)
    BY <1>1, <1>2, <2>1, Zenon DEF LoopAgrees
  <2> QED
    BY <1>2, <2>3, <2>4, <2>5, Zenon DEF LoopAgrees
<1>4. ASSUME NEW next \in i + 1 .. Len(pattern) + 1, PlainRound(pattern, s, i, next)
      PROVE  LoopAgrees(pattern, F, Round(pattern, s))
  BY <1>1, <1>2, <1>4, PlainAgrees
<1>5. ASSUME NEW next \in i + 1 .. Len(pattern) + 1, BareRound(pattern, s, i, next)
      PROVE  LoopAgrees(pattern, F, Round(pattern, s))
  <2>1. PICK config \in Seq(C) : config = <<>>
    BY EmptySeq, Zenon
  <2>2. F[i] <=> pattern[i + 1] \in Directives /\ F[next]
    BY <1>5, BareReads
  <2>3. pattern[i + 1] \in Directives =>
           Spelling(Item(pattern[i + 1], config)) = SubSeq(pattern, i, next - 1)
    BY <1>5, <2>1, BareSpelled
  <2>4. PICK c : c = pattern[i + 1]
    BY Zenon
  <2>5. Reading(pattern, F, i, c, config, next)
    BY <2>2, <2>3, <2>4, Zenon DEF Reading
  <2>6. LoopAgrees(pattern, F, Directed(s, c, config, next))
    BY <1>1, <1>2, <2>5, DirectedAgrees
  <2> QED
    BY <1>5, <2>1, <2>4, <2>6, Zenon DEF BareRound
<1>6. ASSUME NEW next \in i + 1 .. Len(pattern) + 1, NEW config \in Seq(C),
             ConfiguredRound(pattern, s, i, next, config)
      PROVE  LoopAgrees(pattern, F, Round(pattern, s))
  <2>2. F[i] <=> pattern[i + 1] \in Directives /\ F[next]
    BY <1>6, ConfiguredReads
  <2>3. pattern[i + 1] \in Directives =>
           Spelling(Item(pattern[i + 1], config)) = SubSeq(pattern, i, next - 1)
    BY <1>6, ConfiguredSpelled
  <2>4. PICK c : c = pattern[i + 1]
    BY Zenon
  <2>5. Reading(pattern, F, i, c, config, next)
    BY <2>2, <2>3, <2>4, Zenon DEF Reading
  <2>6. LoopAgrees(pattern, F, Directed(s, c, config, next))
    BY <1>1, <1>2, <2>5, DirectedAgrees
  <2> QED
    BY <1>6, <2>4, <2>6, Zenon DEF ConfiguredRound
<1> QED
  BY <1>2, <1>3, <1>4, <1>5, <1>6, RoundCases

\* ParseFaithful of one pattern.
FaithfullyParsed(pattern) ==
    /\ parse(pattern).code = 0 <=> IsPattern(pattern)
    /\ parse(pattern).code = 0 =>
          /\ AllMade(parse(pattern).items)
          /\ Spelled(parse(pattern).items) = pattern
          /\ Separate(parse(pattern).items)

\* ParseFaithful for one pattern.
LEMMA ParseExact ==
  ASSUME NEW C, IsCharSet(C), NEW pattern \in Seq(C)
  PROVE  FaithfullyParsed(pattern)
<1>1. PICK n \in Nat : n = Len(pattern)
  BY LenProperties, Zenon
<1>2. PICK F : (IsPattern(pattern) <=> F[1]) /\ Reads(F, pattern)
  BY IsPatternIs, Zenon DEF Reads
<1>3. PICK Good : Good = {s \in LoopStates(C) : LoopAgrees(pattern, F, s)}
  BY Zenon
<1>4. Start \in Good
  <2>1. Start \in LoopStates(C)
    BY DEF Start, LoopStates
  <2>2. Start.index = 1 /\ Start.items = <<>> /\ Start.literal = <<>> /\ Start.code = 0
    BY DEF Start
  <2>3. Separate(<<>>) /\ EndsOpen(<<>>) /\ AllMade(<<>>)
    <3>1. DOMAIN <<>> = {}
      BY EmptySeq
    <3> QED
      BY <3>1, Zenon DEF Separate, EndsOpen, AllMade
  <2>4. Spelled(<<>>) \o Escape(<<>>) = SubSeq(pattern, 1, 1 - 1)
    <3>1. SubSeq(pattern, 1, 1 - 1) = <<>>
      <4>1. 1 \in Int /\ 1 - 1 \in Int /\ 1 - 1 < 1
        OBVIOUS
      <4> QED
        BY <4>1, SubSeqEmpty, Zenon
    <3>2. <<>> \o <<>> = <<>>
      OBVIOUS
    <3> QED
      BY <3>1, <3>2, NothingSpelled, Zenon
  <2>5. 1 \in 1 .. Len(pattern) + 1
    BY <1>1
  <2>6. LoopAgrees(pattern, F, Start)
    BY <1>2, <2>2, <2>3, <2>4, <2>5, Zenon DEF LoopAgrees
  <2> QED
    BY <1>3, <2>1, <2>6, Zenon
<1>5. IsLoopInvariant(Good, pattern)
  <2>1. \A s \in Good : s.index \in Nat
    <3>1. \A s \in LoopStates(C) : s.index \in Nat
      BY DEF LoopStates
    <3> QED
      BY <1>3, <3>1, Zenon
  <2>2. ASSUME NEW s \in Good, ~Done(pattern, s)
        PROVE  /\ Round(pattern, s) \in Good
               /\ Round(pattern, s).code # 0 \/ Round(pattern, s).index > s.index
    <3>1. s \in LoopStates(C) /\ LoopAgrees(pattern, F, s)
      BY <1>3, <2>2, Zenon
    <3>2. /\ Round(pattern, s) \in LoopStates(C)
          /\ Round(pattern, s).code # 0 \/ Round(pattern, s).index > s.index
      BY <2>2, <3>1, RoundTyped
    <3>3. LoopAgrees(pattern, F, Round(pattern, s))
      BY <1>2, <2>2, <3>1, RoundAgrees, Zenon
    <3> QED
      BY <1>3, <3>2, <3>3, Zenon
  <2> QED
    BY <1>4, <2>1, <2>2, Zenon DEF IsLoopInvariant
<1>6. PICK end \in Good : Done(pattern, end) /\ parse(pattern) = Result(end)
  BY <1>5, ParseLoop
<1>7. end \in LoopStates(C) /\ LoopAgrees(pattern, F, end)
  BY <1>3, Zenon
<1>8. CASE end.code # 0
  <2>1. parse(pattern).code = end.code
    BY <1>6, <1>8 DEF Result
  <2>2. ~IsPattern(pattern)
    BY <1>7, <1>8, Zenon DEF LoopAgrees
  <2> QED
    BY <1>8, <2>1, <2>2, Zenon DEF FaithfullyParsed
<1>9. CASE end.code = 0
  <2>1. end.index = n + 1
    <3>1. end.index > n /\ end.index \in 1 .. n + 1
      BY <1>1, <1>6, <1>7, <1>9, Zenon DEF Done, LoopAgrees
    <3> QED
      BY <1>1, <3>1
  <2>2. F[n + 1]
    BY <1>1, <1>2, EndReads, Zenon
  <2>3. PICK all : all = addLiteral(end).items
    BY Zenon
  <2>4. /\ Separate(all)
        /\ AllMade(all) <=> AllMade(end.items)
        /\ AllMade(end.items) => Spelled(all) = Spelled(end.items) \o Escape(end.literal)
    <3>1. Separate(end.items) /\ EndsOpen(end.items)
      BY <1>7, Zenon DEF LoopAgrees
    <3> QED
      BY <1>7, <2>3, <3>1, LiteralAdded, Zenon
  <2>5. IsPattern(pattern) <=> AllMade(all)
    BY <1>7, <1>9, <2>1, <2>2, <2>4, Zenon DEF LoopAgrees
  <2>6. parse(pattern).items = all /\ (parse(pattern).code = 0 <=> AllMade(all))
    <3>1. /\ Result(end).items = all
          /\ Result(end).code = IF \E i \in DOMAIN all : all[i] = NoItem THEN -3 ELSE 0
      BY <1>9, <2>3 DEF Result
    <3>2. Result(end).code = 0 <=> ~(\E i \in DOMAIN all : all[i] = NoItem)
      BY <3>1
    <3> QED
      BY <1>6, <3>1, <3>2, Zenon DEF AllMade
  <2>7. ASSUME AllMade(all)
        PROVE  Spelled(all) = pattern
    <3>1. Spelled(all) = SubSeq(pattern, 1, end.index - 1)
      BY <1>7, <1>9, <2>4, <2>7, Zenon DEF LoopAgrees
    <3>2. end.index - 1 = n
      BY <1>1, <2>1
    <3>3. SubSeq(pattern, 1, n) = pattern
      BY <1>1, SubSeqFull, Zenon
    <3> QED
      BY <3>1, <3>2, <3>3, Zenon
  <2> QED
    BY <2>4, <2>5, <2>6, <2>7, Zenon DEF FaithfullyParsed
<1> QED
  BY <1>8, <1>9

LEMMA FaithfulIs ==
  ASSUME kind = "pattern" => FaithfullyParsed(input)
  PROVE  ParseFaithful
BY Zenon DEF ParseFaithful, FaithfullyParsed, AllMade, Spelled, Separate, ToSet

-----------------------------------------------------------------------------
(* Numbers.                                                                *)

\* What a text is after its first n characters.
From(text, n) == SubSeq(text, n + 1, Len(text))

LEMMA FromIs ==
  ASSUME NEW S, NEW text \in Seq(S), NEW n \in 0 .. Len(text)
  PROVE  /\ From(text, n) \in Seq(S)
         /\ Len(From(text, n)) = Len(text) - n
         /\ \A i \in 1 .. Len(text) - n : From(text, n)[i] = text[n + i]
<1>1. Len(text) \in Nat /\ n \in Nat /\ n + 1 \in Int /\ Len(text) \in Int
  BY SMT
<1>2. \A k \in n + 1 .. Len(text) : text[k] \in S
  BY <1>1, SMT
<1>3. /\ From(text, n) \in Seq(S)
      /\ Len(From(text, n)) = IF n + 1 <= Len(text) THEN Len(text) - (n + 1) + 1 ELSE 0
      /\ \A k \in 1 .. Len(text) - (n + 1) + 1 : From(text, n)[k] = text[n + 1 + k - 1]
  BY <1>1, <1>2, SubSeqProperties DEF From
<1>4. Len(From(text, n)) = Len(text) - n
  BY <1>1, <1>3, SMT
<1>5. ASSUME NEW i \in 1 .. Len(text) - n
      PROVE  From(text, n)[i] = text[n + i]
  <2>1. i \in 1 .. Len(text) - (n + 1) + 1 /\ n + 1 + i - 1 = n + i
    BY <1>1, SMT
  <2> QED
    BY <1>3, <2>1
<1> QED
  BY <1>3, <1>4, <1>5

LEMMA FromFrom ==
  ASSUME NEW S, NEW text \in Seq(S), NEW n \in 0 .. Len(text), NEW m \in 0 .. Len(text) - n
  PROVE  From(From(text, n), m) = From(text, n + m)
<1>0. PICK rest : rest = From(text, n)
  OBVIOUS
<1>1. rest \in Seq(S) /\ Len(rest) = Len(text) - n
  BY <1>0, FromIs
<1>2. \A i \in 1 .. Len(text) - n : rest[i] = text[n + i]
  BY <1>0, FromIs
<1>3. m \in 0 .. Len(rest) /\ n + m \in 0 .. Len(text)
  BY <1>1, SMT
<1>4. PICK k : k = n + m
  OBVIOUS
<1>5. From(text, k) \in Seq(S) /\ Len(From(text, k)) = Len(text) - k
  BY <1>3, <1>4, FromIs
<1>6. From(rest, m) \in Seq(S) /\ Len(From(rest, m)) = Len(rest) - m
  BY <1>1, <1>3, FromIs
<1>7. ASSUME NEW i \in 1 .. Len(text) - k
      PROVE  From(rest, m)[i] = From(text, k)[i]
  <2>1. /\ i \in 1 .. Len(rest) - m
        /\ m + i \in 1 .. Len(text) - n
        /\ n + (m + i) = k + i
    BY <1>1, <1>4, SMT
  <2>2. From(text, k)[i] = text[k + i]
    BY <1>3, <1>4, FromIs
  <2>3. From(rest, m)[i] = rest[m + i]
    BY <1>1, <1>3, <2>1, FromIs
  <2>4. rest[m + i] = text[n + (m + i)]
    BY <1>2, <2>1
  <2> QED
    BY <2>1, <2>2, <2>3, <2>4
<1>8. Len(From(rest, m)) = Len(From(text, k))
  BY <1>1, <1>4, <1>5, <1>6, SMT
<1>9. From(rest, m) = From(text, k)
  BY <1>5, <1>6, <1>7, <1>8, SeqEqual
<1> QED
  BY <1>0, <1>4, <1>9

LEMMA TailIsFrom ==
  ASSUME NEW S, NEW text \in Seq(S), text # <<>>
  PROVE  Tail(text) = From(text, 1)
<1>1. Len(text) \in Nat /\ Len(text) > 0
  BY EmptySeq
<1>2. Tail(text) \in Seq(S) /\ Len(Tail(text)) = Len(text) - 1
      /\ \A i \in 1 .. Len(Tail(text)) : Tail(text)[i] = text[i + 1]
  BY HeadTailProperties
<1>3. 1 \in 0 .. Len(text)
  BY <1>1, SMT
<1>4. /\ From(text, 1) \in Seq(S)
      /\ Len(From(text, 1)) = Len(text) - 1
      /\ \A i \in 1 .. Len(text) - 1 : From(text, 1)[i] = text[1 + i]
  BY <1>3, FromIs
<1>5. \A i \in 1 .. Len(Tail(text)) : Tail(text)[i] = From(text, 1)[i]
  BY <1>1, <1>2, <1>4, SMT
<1> QED
  BY <1>2, <1>4, <1>5, SeqEqual

LEMMA FromStart ==
  ASSUME NEW S, NEW text \in Seq(S)
  PROVE  From(text, 0) = text
BY SubSeqFull DEF From

\* Whether nothing is left.
LEMMA FromEmpty ==
  ASSUME NEW S, NEW text \in Seq(S), NEW n \in 0 .. Len(text)
  PROVE  /\ From(text, n) # <<>> <=> n < Len(text)
         /\ n < Len(text) => From(text, n)[1] = text[n + 1]
         /\ \A c : StartsWith(From(text, n), c) <=> n < Len(text) /\ text[n + 1] = c
<1>1. From(text, n) \in Seq(S) /\ Len(From(text, n)) = Len(text) - n
  BY FromIs
<1>2. From(text, n) # <<>> <=> n < Len(text)
  BY <1>1, EmptySeq, SMT
<1>3. n < Len(text) => From(text, n)[1] = text[n + 1]
  <2>1. n < Len(text) => 1 \in 1 .. Len(text) - n
    BY SMT
  <2> QED
    BY <2>1, FromIs
<1> QED
  BY <1>2, <1>3, Zenon DEF StartsWith

\* The characters that are no digits.
LEMMA NoDigits ==
  ASSUME NEW r, NEW c \in Digits(Base(r))
  PROVE  c \notin Whitespace /\ c # "+" /\ c # "-" /\ c # "x" /\ c # "X"
<1>1. c \in DOMAIN DigitValue
  BY Zenon DEF Digits
<1>2. c \in {"0", "1", "2", "3", "4", "5", "6", "7", "8", "9",
             "a", "b", "c", "d", "e", "f", "A", "B", "C", "D", "E", "F"}
  BY <1>1, Zenon DEF DigitValue
<1>3. c # "+" /\ c # "-" /\ c # "x" /\ c # "X"
  BY <1>2, SMT
<1>4. c \notin Whitespace
  BY <1>2, Zenon DEF Whitespace
<1> QED
  BY <1>3, <1>4

\* The reading that ParseArithmetic chooses: each mark is taken when it is there.
HexAt(body, n) == Len(body) > n + 2 /\ body[n + 1] = "0" /\ body[n + 2] \in {"x", "X"}
PlusTaken(body)   == IF StartsWith(body, "+") THEN 1 ELSE 0
PrefixTaken(body) == IF HexAt(body, PlusTaken(body)) THEN 2 ELSE 0
MinusAt(body, n, type) == n < Len(body) /\ body[n + 1] = "-" /\ type.min < 0
MinusTaken(body, type) ==
    IF MinusAt(body, PlusTaken(body) + PrefixTaken(body), type) THEN 1 ELSE 0
Chosen(body, type) ==
    [plus   |-> PlusTaken(body),
     prefix |-> PrefixTaken(body),
     minus  |-> MinusTaken(body, type)]

Marks(r) == r.plus + r.prefix + r.minus
AllReadings == [plus : {0, 1}, prefix : {0, 2}, minus : {0, 1}]

LEMMA ReadingFields ==
  ASSUME NEW r \in AllReadings
  PROVE  /\ r.plus \in {0, 1} /\ r.prefix \in {0, 2} /\ r.minus \in {0, 1}
         /\ r = [plus |-> r.plus, prefix |-> r.prefix, minus |-> r.minus]
BY SMT DEF AllReadings

LEMMA ChosenFields ==
  ASSUME NEW body, NEW type
  PROVE  /\ Chosen(body, type) \in AllReadings
         /\ Chosen(body, type).plus = PlusTaken(body)
         /\ Chosen(body, type).prefix = PrefixTaken(body)
         /\ Chosen(body, type).minus = MinusTaken(body, type)
<1>1. PlusTaken(body) \in {0, 1} /\ PrefixTaken(body) \in {0, 2} /\ MinusTaken(body, type) \in {0, 1}
  BY Zenon DEF PlusTaken, PrefixTaken, MinusTaken
<1> QED
  BY <1>1, Zenon DEF Chosen, AllReadings

\* What a reading is, in the words of Readings.
LEMMA ReadingIs ==
  ASSUME NEW body, NEW type, NEW r
  PROVE  r \in Readings(body, type) <=>
            /\ r \in AllReadings
            /\ r.plus = 1 => 1 <= Len(body) /\ body[1] = "+"
            /\ r.prefix = 2 => /\ r.plus + 1 <= Len(body) /\ body[r.plus + 1] = "0"
                               /\ r.plus + 2 <= Len(body) /\ body[r.plus + 2] \in {"x", "X"}
            /\ r.minus = 1 => /\ r.plus + r.prefix + 1 <= Len(body)
                              /\ body[r.plus + r.prefix + 1] = "-"
                              /\ type.min < 0
                              /\ r.plus = 0 \/ r.prefix = 2
            /\ Left(body, r) # <<>>
            /\ ToSet(Left(body, r)) \subseteq Digits(Base(r))
BY Zenon DEF Readings, AllReadings

\* The digits of a reading.
DigitsLeft(body, r) ==
    /\ Marks(r) < Len(body)
    /\ \A i \in Marks(r) + 1 .. Len(body) : body[i] \in Digits(Base(r))

LEMMA LeftIs ==
  ASSUME NEW S, NEW body \in Seq(S), NEW r \in AllReadings
  PROVE  /\ Left(body, r) = From(body, Marks(r))
         /\ (Left(body, r) # <<>> /\ ToSet(Left(body, r)) \subseteq Digits(Base(r)))
               <=> DigitsLeft(body, r)
<1>1. Marks(r) \in Nat /\ Len(body) \in Nat
  BY ReadingFields, SMT DEF Marks
<1>2. Left(body, r) = From(body, Marks(r))
  BY Zenon DEF Left, From, Marks
<1>3. CASE Len(body) < Marks(r)
  <2>1. From(body, Marks(r)) = <<>>
    <3>1. Marks(r) + 1 \in Int /\ Len(body) \in Int /\ Len(body) < Marks(r) + 1
      BY <1>1, <1>3, SMT
    <3> QED
      BY <3>1, SubSeqEmpty DEF From
  <2>2. ~(Marks(r) < Len(body))
    BY <1>1, <1>3, SMT
  <2> QED
    BY <1>2, <2>1, <2>2, Zenon DEF DigitsLeft
<1>4. CASE Marks(r) \in 0 .. Len(body)
  <2>1. PICK left : left = From(body, Marks(r))
    OBVIOUS
  <2>2. /\ left \in Seq(S) /\ Len(left) = Len(body) - Marks(r)
        /\ left # <<>> <=> Marks(r) < Len(body)
    BY <1>4, <2>1, FromIs, FromEmpty
  <2>3. \A i \in 1 .. Len(body) - Marks(r) : left[i] = body[Marks(r) + i]
    BY <1>4, <2>1, FromIs
  <2>4. ASSUME ToSet(left) \subseteq Digits(Base(r)), NEW i \in Marks(r) + 1 .. Len(body)
        PROVE  body[i] \in Digits(Base(r))
    <3>1. PICK k : k = i - Marks(r)
      OBVIOUS
    <3>2. k \in 1 .. Len(body) - Marks(r) /\ k \in 1 .. Len(left) /\ Marks(r) + k = i
      BY <1>1, <2>2, <3>1, SMT
    <3>3. left[k] = body[i]
      BY <2>3, <3>2
    <3>4. left[k] \in ToSet(left)
      <4>1. DOMAIN left = 1 .. Len(left)
        BY <2>2, LenProperties
      <4> QED
        BY <3>2, <4>1, Zenon DEF ToSet
    <3> QED
      BY <2>4, <3>3, <3>4
  <2>5. ASSUME \A i \in Marks(r) + 1 .. Len(body) : body[i] \in Digits(Base(r)),
               NEW c \in ToSet(left)
        PROVE  c \in Digits(Base(r))
    <3>1. PICK k \in 1 .. Len(left) : c = left[k]
      BY <2>2, LenProperties, Zenon DEF ToSet
    <3>2. k \in 1 .. Len(body) - Marks(r) /\ Marks(r) + k \in Marks(r) + 1 .. Len(body)
      BY <1>1, <2>2, <3>1, SMT
    <3> QED
      BY <2>3, <2>5, <3>1, <3>2
  <2> QED
    BY <1>2, <2>1, <2>2, <2>4, <2>5, Zenon DEF DigitsLeft
<1>5. Len(body) < Marks(r) \/ Marks(r) \in 0 .. Len(body)
  BY <1>1, SMT
<1> QED
  BY <1>3, <1>4, <1>5

\* Every reading is the one that ParseArithmetic chooses.
LEMMA ReadingChosen ==
  ASSUME NEW S, NEW body \in Seq(S), NEW type, NEW r \in Readings(body, type)
  PROVE  body # <<>> /\ ~SignFault(body) /\ r = Chosen(body, type)
<1>1. r \in AllReadings
  BY ReadingIs, Zenon
<1>2. DigitsLeft(body, r)
  BY <1>1, LeftIs, ReadingIs, Zenon
<1>3. r.plus \in {0, 1} /\ r.prefix \in {0, 2} /\ r.minus \in {0, 1}
  BY <1>1, ReadingFields
<1>4. Marks(r) = r.plus + r.prefix + r.minus /\ Marks(r) \in Nat /\ Len(body) \in Nat /\ Marks(r) < Len(body)
  BY <1>2, <1>3, SMT DEF Marks, DigitsLeft
<1>5. \A i \in Marks(r) + 1 .. Len(body) :
         body[i] # "+" /\ body[i] # "-" /\ body[i] # "x" /\ body[i] # "X"
  BY <1>2, NoDigits, Zenon DEF DigitsLeft
<1>6. body # <<>>
  BY <1>4, EmptySeq, SMT
<1>7. /\ r.plus = 1 => 1 <= Len(body) /\ body[1] = "+"
      /\ r.prefix = 2 => /\ r.plus + 1 <= Len(body) /\ body[r.plus + 1] = "0"
                         /\ r.plus + 2 <= Len(body) /\ body[r.plus + 2] \in {"x", "X"}
      /\ r.minus = 1 => /\ r.plus + r.prefix + 1 <= Len(body)
                        /\ body[r.plus + r.prefix + 1] = "-"
                        /\ type.min < 0
                        /\ r.plus = 0 \/ r.prefix = 2
  BY ReadingIs, Zenon
<1>8. r.plus = PlusTaken(body)
  <2>1. r.plus = 1 <=> body[1] = "+"
    BY <1>3, <1>4, <1>5, <1>7, SMT
  <2> QED
    BY <1>3, <1>6, <2>1, Zenon DEF PlusTaken, StartsWith
<1>9. r.prefix = PrefixTaken(body)
  <2>1. r.prefix = 2 <=> HexAt(body, r.plus)
    BY <1>3, <1>4, <1>5, <1>7, SMT DEF HexAt
  <2> QED
    BY <1>3, <1>8, <2>1, Zenon DEF PrefixTaken
<1>10. r.minus = MinusTaken(body, type)
  <2>1. r.minus = 1 <=> MinusAt(body, r.plus + r.prefix, type)
    BY <1>3, <1>4, <1>5, <1>7, SMT DEF MinusAt
  <2> QED
    BY <1>3, <1>8, <1>9, <2>1, Zenon DEF MinusTaken
<1>11. ~SignFault(body)
  <2>1. SUFFICES ASSUME body[1] = "+", Len(body) = 1 \/ body[2] \in {"-", "+"}
                 PROVE  FALSE
    BY Zenon DEF SignFault, StartsWith
  <2>2. r.plus = 1
    BY <1>6, <1>8, <2>1, Zenon DEF PlusTaken, StartsWith
  <2>3. Len(body) > 1
    BY <1>3, <1>4, <2>2, SMT
  <2>4. body[2] \in {"-", "+"}
    BY <2>1, <2>3, SMT
  <2>5. r.prefix = 0
    BY <1>3, <1>7, <2>2, <2>4, SMT
  <2>6. r.minus = 0
    BY <1>3, <1>7, <2>2, <2>5, SMT
  <2> QED
    BY <1>3, <1>4, <1>5, <2>2, <2>3, <2>4, <2>5, <2>6, SMT
<1>12. r = Chosen(body, type)
  BY <1>1, <1>8, <1>9, <1>10, ReadingFields, Zenon DEF Chosen
<1> QED
  BY <1>6, <1>11, <1>12

\* The marks it chooses are a reading when digits are left.
LEMMA ChosenReading ==
  ASSUME NEW S, NEW body \in Seq(S), body # <<>>, ~SignFault(body), NEW type,
         DigitsLeft(body, Chosen(body, type))
  PROVE  Chosen(body, type) \in Readings(body, type)
<1>1. PICK r : r = Chosen(body, type)
  OBVIOUS
<1>2. r \in AllReadings /\ r.plus = PlusTaken(body) /\ r.prefix = PrefixTaken(body)
      /\ r.minus = MinusTaken(body, type)
  BY <1>1, ChosenFields, Zenon
<1>3. r.plus \in {0, 1} /\ r.prefix \in {0, 2} /\ r.minus \in {0, 1}
  BY <1>2, ReadingFields
<1>4. Left(body, r) # <<>> /\ ToSet(Left(body, r)) \subseteq Digits(Base(r))
  BY <1>1, <1>2, LeftIs, Zenon
<1>5. Len(body) \in Nat /\ Len(body) > 0
  BY EmptySeq, SMT
<1>6. r.plus = 1 <=> body[1] = "+"
  BY <1>2, SMT DEF PlusTaken, StartsWith
<1>7. r.prefix = 2 <=> HexAt(body, r.plus)
  BY <1>2, SMT DEF PrefixTaken
<1>8. r.minus = 1 <=> MinusAt(body, r.plus + r.prefix, type)
  BY <1>2, SMT DEF MinusTaken
<1>9. r.plus = 1 => ~(Len(body) = 1 \/ body[2] \in {"-", "+"})
  BY <1>6, Zenon DEF SignFault, StartsWith
<1>10. r.plus = 1 => 1 <= Len(body) /\ body[1] = "+"
  BY <1>5, <1>6, SMT
<1>11. r.prefix = 2 => /\ r.plus + 1 <= Len(body) /\ body[r.plus + 1] = "0"
                       /\ r.plus + 2 <= Len(body) /\ body[r.plus + 2] \in {"x", "X"}
  BY <1>3, <1>5, <1>7, SMT DEF HexAt
<1>12. r.minus = 1 => /\ r.plus + r.prefix + 1 <= Len(body)
                      /\ body[r.plus + r.prefix + 1] = "-"
                      /\ type.min < 0
                      /\ r.plus = 0 \/ r.prefix = 2
  BY <1>3, <1>5, <1>8, <1>9, SMT DEF MinusAt
<1> QED
  BY <1>1, <1>2, <1>4, <1>10, <1>11, <1>12, ReadingIs, Zenon

\* ParseArithmetic reads the body so.
ReadAs(body, type, r) ==
    IF DigitsLeft(body, r) /\ NumberRead(body, r) \in type.min .. type.max
    THEN Ok(NumberRead(body, r)) ELSE Failed

\* What from_chars makes of the text after the plus sign and the prefix.
LEMMA FromCharsReads ==
  ASSUME NEW S, NEW body \in Seq(S), body # <<>>, NEW type, NEW r, r = Chosen(body, type),
         NEW n, n = r.plus + r.prefix, n <= Len(body)
  PROVE  FromChars(From(body, n), Base(r), type) = ReadAs(body, type, r)
<1>1. r \in AllReadings /\ r.minus = MinusTaken(body, type)
      /\ r.plus = PlusTaken(body) /\ r.prefix = PrefixTaken(body)
  BY ChosenFields, Zenon
<1>2. r.plus \in {0, 1} /\ r.prefix \in {0, 2} /\ r.minus \in {0, 1}
  BY <1>1, ReadingFields
<1>3. Len(body) \in Nat /\ n \in 0 .. Len(body) /\ Marks(r) = n + r.minus
  BY <1>2, SMT DEF Marks
<1>4. r.minus = 1 <=> MinusAt(body, n, type)
  <2>1. r.minus = IF MinusAt(body, n, type) THEN 1 ELSE 0
    BY <1>1, Zenon DEF MinusTaken
  <2> QED
    BY <2>1, SMT
<1>5. PICK rest : rest = From(body, n)
  OBVIOUS
<1>6. rest \in Seq(S) /\ Len(rest) = Len(body) - n
  BY <1>3, <1>5, FromIs
<1>7. StartsWith(rest, "-") /\ type.min < 0 <=> r.minus = 1
  BY <1>3, <1>4, <1>5, FromEmpty, Zenon DEF MinusAt
<1>8. (IF StartsWith(rest, "-") /\ type.min < 0 THEN Tail(rest) ELSE rest) = Left(body, r)
  <2>1. Left(body, r) = From(body, Marks(r))
    BY <1>1, LeftIs, Zenon
  <2>2. CASE r.minus = 1
    <3>1. n < Len(body)
      BY <1>4, <2>2, Zenon DEF MinusAt
    <3>2. rest # <<>>
      BY <1>3, <1>5, <3>1, FromEmpty, Zenon
    <3>3. Tail(rest) = From(rest, 1)
      BY <1>6, <3>2, TailIsFrom
    <3>4. 1 \in 0 .. Len(body) - n /\ n + 1 = Marks(r)
      BY <1>3, <2>2, <3>1, SMT
    <3>5. From(rest, 1) = From(body, n + 1)
      BY <1>3, <1>5, <3>4, FromFrom
    <3> QED
      BY <1>7, <2>1, <2>2, <3>3, <3>4, <3>5, Zenon
  <2>3. CASE r.minus = 0
    <3>1. Marks(r) = n
      BY <1>3, <2>3, SMT
    <3>2. ~(r.minus = 1)
      BY <2>3, SMT
    <3> QED
      BY <1>5, <1>7, <2>1, <3>1, <3>2, Zenon
  <2> QED
    BY <1>2, <2>2, <2>3
<1>9. (IF StartsWith(rest, "-") /\ type.min < 0 THEN -Positional(Left(body, r), Base(r))
                                               ELSE Positional(Left(body, r), Base(r)))
         = NumberRead(body, r)
  BY <1>7, Zenon DEF NumberRead
<1>10. Left(body, r) # <<>> /\ ToSet(Left(body, r)) \subseteq Digits(Base(r)) <=> DigitsLeft(body, r)
  BY <1>1, LeftIs, Zenon
<1>11. FromChars(rest, Base(r), type) =
          IF /\ Left(body, r) # <<>>
             /\ ToSet(Left(body, r)) \subseteq Digits(Base(r))
             /\ NumberRead(body, r) \in type.min .. type.max
          THEN Ok(NumberRead(body, r)) ELSE Failed
  BY <1>8, <1>9, Zenon DEF FromChars
<1> QED
  BY <1>5, <1>10, <1>11, Zenon DEF ReadAs

\* ParseArithmetic, step by step.
LEMMA ParseReads ==
  ASSUME NEW S, NEW text, NEW body \in Seq(S), body = Trim(text, Whitespace), NEW type
  PROVE  ParseArithmetic(text, type) =
            IF body = <<>> \/ SignFault(body) THEN Failed
            ELSE ReadAs(body, type, Chosen(body, type))
<1>1. CASE body = <<>> \/ SignFault(body)
  BY <1>1, Zenon DEF ParseArithmetic
<1>2. CASE ~(body = <<>> \/ SignFault(body))
  <2>1. PICK r : r = Chosen(body, type)
    OBVIOUS
  <2>2. r \in AllReadings /\ r.plus = PlusTaken(body) /\ r.prefix = PrefixTaken(body)
    BY <2>1, ChosenFields, Zenon
  <2>3. r.plus \in {0, 1} /\ r.prefix \in {0, 2}
    BY <2>2, ReadingFields
  <2>4. Len(body) \in Nat /\ Len(body) > 0 /\ r.plus \in 0 .. Len(body)
    BY <1>2, <2>3, EmptySeq, SMT
  <2>5. PICK unsigned : unsigned = From(body, r.plus)
    OBVIOUS
  <2>6. (IF StartsWith(body, "+") THEN Tail(body) ELSE body) = unsigned
    <3>1. Tail(body) = From(body, 1) /\ body = From(body, 0)
      BY <1>2, TailIsFrom, FromStart
    <3> QED
      BY <2>2, <2>5, <3>1, Zenon DEF PlusTaken
  <2>7. /\ unsigned \in Seq(S) /\ Len(unsigned) = Len(body) - r.plus
        /\ \A i \in 1 .. Len(body) - r.plus : unsigned[i] = body[r.plus + i]
    BY <2>4, <2>5, FromIs
  <2>8. HasHexPrefix(unsigned) <=> HexAt(body, r.plus)
    <3>1. Len(unsigned) > 2 <=> Len(body) > r.plus + 2
      BY <2>3, <2>4, <2>7, SMT
    <3>2. ASSUME Len(unsigned) > 2
          PROVE  unsigned[1] = body[r.plus + 1] /\ unsigned[2] = body[r.plus + 2]
      <4>1. 1 \in 1 .. Len(body) - r.plus /\ 2 \in 1 .. Len(body) - r.plus
        BY <2>3, <2>4, <2>7, <3>2, SMT
      <4> QED
        BY <2>7, <4>1
    <3> QED
      BY <3>1, <3>2, Zenon DEF HasHexPrefix, HexAt
  <2>9. r.prefix = IF HexAt(body, r.plus) THEN 2 ELSE 0
    BY <2>2, Zenon DEF PrefixTaken
  <2>10. PICK n : n = r.plus + r.prefix
    OBVIOUS
  <2>11. CASE HexAt(body, r.plus)
    <3>1. r.prefix = 2 /\ Len(body) > r.plus + 2
      BY <2>9, <2>11, Zenon DEF HexAt
    <3>2. 2 \in 0 .. Len(body) - r.plus /\ n <= Len(body) /\ n = r.plus + 2 /\ 2 + 1 = 3
      BY <2>3, <2>4, <2>10, <3>1, SMT
    <3>3. From(unsigned, 2) = From(body, n)
      BY <2>4, <2>5, <3>2, FromFrom
    <3>4. SubSeq(unsigned, 3, Len(unsigned)) = From(body, n)
      BY <3>2, <3>3, Zenon DEF From
    <3>5. Base(r) = 16
      BY <3>1, SMT DEF Base
    <3>6. ParseArithmetic(text, type) = FromChars(From(body, n), Base(r), type)
      BY <1>2, <2>6, <2>8, <2>11, <3>4, <3>5, Zenon DEF ParseArithmetic
    <3>7. FromChars(From(body, n), Base(r), type) = ReadAs(body, type, r)
      BY <1>2, <2>1, <2>10, <3>2, FromCharsReads
    <3> QED
      BY <1>2, <2>1, <3>6, <3>7, Zenon
  <2>12. CASE ~HexAt(body, r.plus)
    <3>1. r.prefix = 0
      BY <2>9, <2>12, Zenon
    <3>2. n <= Len(body) /\ n = r.plus
      BY <2>3, <2>4, <2>10, <3>1, SMT
    <3>3. Base(r) = 10
      BY <3>1, Zenon DEF Base
    <3>4. ParseArithmetic(text, type) = FromChars(From(body, n), Base(r), type)
      BY <1>2, <2>5, <2>6, <2>8, <2>12, <3>2, <3>3, Zenon DEF ParseArithmetic
    <3>5. FromChars(From(body, n), Base(r), type) = ReadAs(body, type, r)
      BY <1>2, <2>1, <2>10, <3>2, FromCharsReads
    <3> QED
      BY <1>2, <2>1, <3>4, <3>5, Zenon
  <2> QED
    BY <2>11, <2>12
<1> QED
  BY <1>1, <1>2

\* The ends of what is kept.
LEMMA Ends ==
  ASSUME NEW n \in Nat, NEW kept \in SUBSET (1 .. n), kept # {}
  PROVE  /\ Leftmost(kept) \in kept /\ \A i \in kept : Leftmost(kept) <= i
         /\ Rightmost(kept) \in kept /\ \A i \in kept : i <= Rightmost(kept)
<1>1. \E i \in kept : \A j \in kept : i <= j
  <2>1. kept \in SUBSET Nat
    BY SMT
  <2> QED
    BY <2>1, LeastElement
<1>2. \E i \in kept : \A j \in kept : j <= i
  <2>1. PICK mirror : mirror = {n - i : i \in kept}
    OBVIOUS
  <2>2. mirror \in SUBSET Nat /\ mirror # {}
    <3>1. \A i \in kept : n - i \in Nat
      BY SMT
    <3> QED
      BY <2>1, <3>1, Zenon
  <2>3. PICK x \in mirror : \A y \in mirror : x <= y
    BY <2>2, LeastElement
  <2>4. PICK i \in kept : x = n - i
    BY <2>1, <2>3
  <2>5. ASSUME NEW j \in kept
        PROVE  j <= i
    <3>1. n - i <= n - j
      BY <2>1, <2>3, <2>4
    <3> QED
      BY <3>1, SMT
  <2> QED
    BY <2>5
<1> QED
  BY <1>1, <1>2, Zenon DEF Leftmost, Rightmost

LEMMA KeptIs ==
  ASSUME NEW S, NEW text \in Seq(S)
  PROVE  /\ Kept(text, Whitespace) \in SUBSET (1 .. Len(text))
         /\ \A i \in 1 .. Len(text) : i \in Kept(text, Whitespace) <=> text[i] \notin Whitespace
BY LenProperties, Zenon DEF Kept

\* What Trim returns, for texts that are not all white space.
LEMMA TrimIs ==
  ASSUME NEW S, NEW text \in Seq(S)
  PROVE  \/ Kept(text, Whitespace) = {} /\ Trim(text, Whitespace) = <<>>
         \/ \E low, high \in Kept(text, Whitespace) :
               /\ \A i \in Kept(text, Whitespace) : low <= i /\ i <= high
               /\ Trim(text, Whitespace) = SubSeq(text, low, high)
<1>1. PICK kept : kept = Kept(text, Whitespace)
  OBVIOUS
<1>2. CASE kept = {}
  BY <1>1, <1>2, Zenon DEF Trim
<1>3. CASE kept # {}
  <2>1. Len(text) \in Nat /\ kept \in SUBSET (1 .. Len(text))
    BY <1>1, KeptIs, LenProperties
  <2>2. /\ Leftmost(kept) \in kept /\ \A i \in kept : Leftmost(kept) <= i
        /\ Rightmost(kept) \in kept /\ \A i \in kept : i <= Rightmost(kept)
    BY <1>3, <2>1, Ends
  <2>3. Trim(text, Whitespace) = SubSeq(text, Leftmost(kept), Rightmost(kept))
    BY <1>1, <1>3, Zenon DEF Trim
  <2> QED
    BY <1>1, <2>2, <2>3, Zenon
<1> QED
  BY <1>2, <1>3

LEMMA TrimTyped ==
  ASSUME NEW S, NEW text \in Seq(S)
  PROVE  Trim(text, Whitespace) \in Seq(S)
<1>1. CASE Trim(text, Whitespace) = <<>>
  BY <1>1
<1>2. CASE \E low, high \in Kept(text, Whitespace) : Trim(text, Whitespace) = SubSeq(text, low, high)
  <2>1. PICK low, high \in Kept(text, Whitespace) : Trim(text, Whitespace) = SubSeq(text, low, high)
    BY <1>2
  <2>2. low \in 1 .. Len(text) /\ high \in 1 .. Len(text) /\ Len(text) \in Nat
    BY KeptIs, LenProperties
  <2>3. low \in Int /\ high \in Int /\ \A i \in low .. high : text[i] \in S
    BY <2>2, SMT
  <2> QED
    BY <2>1, <2>3, SubSeqProperties
<1> QED
  BY <1>1, <1>2, TrimIs, Zenon

\* A body is what Trim returns.
LEMMA BodyTrimmed ==
  ASSUME NEW S, NEW text \in Seq(S), NEW body \in Bodies(text), body # <<>>
  PROVE  body = Trim(text, Whitespace)
<1>1. Len(text) \in Nat /\ DOMAIN text = 1 .. Len(text)
  BY LenProperties
<1>2. PICK low, high \in DOMAIN text :
         /\ body = SubSeq(text, low, high)
         /\ \A i \in DOMAIN text : i \in low .. high <=> text[i] \notin Whitespace
  <2>1. PICK w \in (DOMAIN text) \X (DOMAIN text) :
           /\ body = SubSeq(text, w[1], w[2])
           /\ \A i \in DOMAIN text : i \in w[1] .. w[2] <=> text[i] \notin Whitespace
    BY Zenon DEF Bodies
  <2>2. w[1] \in DOMAIN text /\ w[2] \in DOMAIN text
    BY <2>1
  <2> QED
    BY <2>1, <2>2, Zenon
<1>3. low \in Int /\ high \in Int /\ low <= high
  <2>1. low \in Int /\ high \in Int
    BY <1>1, SMT
  <2>2. high < low => body = <<>>
    BY <1>2, <2>1, SubSeqEmpty
  <2> QED
    BY <2>1, <2>2, SMT
<1>4. \A i \in 1 .. Len(text) : i \in Kept(text, Whitespace) <=> i \in low .. high
  BY <1>1, <1>2, KeptIs, Zenon
<1>5. low \in Kept(text, Whitespace) /\ high \in Kept(text, Whitespace)
  <2>1. low \in low .. high /\ high \in low .. high /\ low \in 1 .. Len(text) /\ high \in 1 .. Len(text)
    BY <1>1, <1>3, SMT
  <2> QED
    BY <1>4, <2>1, Zenon
<1>6. PICK l, h \in Kept(text, Whitespace) :
         /\ \A i \in Kept(text, Whitespace) : l <= i /\ i <= h
         /\ Trim(text, Whitespace) = SubSeq(text, l, h)
  BY <1>5, TrimIs, Zenon
<1>7. l \in low .. high /\ h \in low .. high
  <2>1. l \in 1 .. Len(text) /\ h \in 1 .. Len(text)
    BY KeptIs, SMT
  <2> QED
    BY <1>4, <2>1, Zenon
<1>8. l <= low /\ high <= h
  BY <1>5, <1>6
<1>9. l = low /\ h = high
  BY <1>3, <1>7, <1>8, SMT
<1> QED
  BY <1>2, <1>6, <1>9

LEMMA BodyTyped ==
  ASSUME NEW S, NEW text \in Seq(S), NEW body \in Bodies(text)
  PROVE  body \in Seq(S)
<1>1. CASE body = <<>>
  BY <1>1
<1>2. CASE body # <<>>
  BY <1>2, BodyTrimmed, TrimTyped, Zenon
<1> QED
  BY <1>1, <1>2

\* What Trim returns is a body, when there is no white space in it.
LEMMA TrimmedBody ==
  ASSUME NEW S, NEW text \in Seq(S), NEW body, body = Trim(text, Whitespace), body # <<>>,
         \A i \in 1 .. Len(body) : body[i] \notin Whitespace
  PROVE  body \in Bodies(text)
<1>1. Len(text) \in Nat /\ DOMAIN text = 1 .. Len(text)
  BY LenProperties
<1>2. PICK low, high \in Kept(text, Whitespace) :
         /\ \A i \in Kept(text, Whitespace) : low <= i /\ i <= high
         /\ body = SubSeq(text, low, high)
  BY TrimIs, Zenon
<1>3. low \in 1 .. Len(text) /\ high \in 1 .. Len(text)
  BY KeptIs, SMT
<1>4. low \in Int /\ high \in Int /\ \A i \in low .. high : text[i] \in S
  BY <1>1, <1>3, SMT
<1>5. /\ Len(body) = IF low <= high THEN high - low + 1 ELSE 0
      /\ \A i \in 1 .. high - low + 1 : body[i] = text[low + i - 1]
  BY <1>2, <1>4, SubSeqProperties
<1>6. ASSUME NEW i \in low .. high
      PROVE  text[i] \notin Whitespace
  <2>1. PICK k : k = i - low + 1
    OBVIOUS
  <2>2. k \in 1 .. high - low + 1 /\ k \in 1 .. Len(body) /\ low + k - 1 = i
    BY <1>4, <1>5, <2>1, SMT
  <2>3. body[k] = text[i]
    BY <1>5, <2>2
  <2> QED
    BY <2>2, <2>3
<1>7. ASSUME NEW i \in DOMAIN text
      PROVE  i \in low .. high <=> text[i] \notin Whitespace
  <2>1. i \in 1 .. Len(text) /\ i \in Int
    BY <1>1, SMT
  <2>2. ASSUME text[i] \notin Whitespace
        PROVE  i \in low .. high
    <3>1. i \in Kept(text, Whitespace)
      BY <2>1, <2>2, KeptIs, Zenon
    <3>2. low <= i /\ i <= high
      BY <1>2, <3>1
    <3> QED
      BY <1>4, <2>1, <3>2, SMT
  <2> QED
    BY <1>6, <2>2
<1>8. PICK w : w = <<low, high>>
  OBVIOUS
<1>9. w[1] = low /\ w[2] = high /\ w \in (DOMAIN text) \X (DOMAIN text)
  BY <1>1, <1>3, <1>8
<1>10. \A i \in DOMAIN text : i \in w[1] .. w[2] <=> text[i] \notin Whitespace
  BY <1>7, <1>9
<1>11. body = SubSeq(text, w[1], w[2])
  BY <1>2, <1>9
<1> QED
  BY <1>9, <1>10, <1>11, Zenon DEF Bodies

\* Marks and digits are no white space.
LEMMA ReadingCompact ==
  ASSUME NEW S, NEW body \in Seq(S), NEW type, NEW r \in Readings(body, type),
         NEW i \in 1 .. Len(body)
  PROVE  body[i] \notin Whitespace
<1>1. r \in AllReadings /\ DigitsLeft(body, r)
  BY LeftIs, ReadingIs, Zenon
<1>2. r.plus \in {0, 1} /\ r.prefix \in {0, 2} /\ r.minus \in {0, 1}
  BY <1>1, ReadingFields
<1>3. /\ r.plus = 1 => body[1] = "+"
      /\ r.prefix = 2 => body[r.plus + 1] = "0" /\ body[r.plus + 2] \in {"x", "X"}
      /\ r.minus = 1 => body[r.plus + r.prefix + 1] = "-"
  BY ReadingIs, Zenon
<1>4. CASE i \in Marks(r) + 1 .. Len(body)
  BY <1>1, <1>4, NoDigits, Zenon DEF DigitsLeft
<1>5. CASE i \in 1 .. Marks(r)
  <2>1. body[i] \in {"+", "-", "0", "x", "X"}
    BY <1>2, <1>3, <1>5, SMT DEF Marks
  <2> QED
    BY <2>1, Zenon DEF Whitespace
<1>6. i \in 1 .. Marks(r) \/ i \in Marks(r) + 1 .. Len(body)
  BY <1>2, SMT DEF Marks
<1> QED
  BY <1>4, <1>5, <1>6

LEMMA MeaningIs ==
  ASSUME NEW text, NEW type, NEW v
  PROVE  v \in Meanings(text, type) <=>
            /\ v \in type.min .. type.max
            /\ \E b \in Bodies(text) : \E q \in Readings(b, type) : v = NumberRead(b, q)
<1>1. v \in UNION {{NumberRead(b, q) : q \in Readings(b, type)} : b \in Bodies(text)}
         <=> \E b \in Bodies(text) : v \in {NumberRead(b, q) : q \in Readings(b, type)}
  BY Zenon
<1>2. \A b : v \in {NumberRead(b, q) : q \in Readings(b, type)}
                 <=> \E q \in Readings(b, type) : v = NumberRead(b, q)
  BY Zenon
<1>3. v \in Meanings(text, type) <=>
         /\ v \in type.min .. type.max
         /\ v \in UNION {{NumberRead(b, q) : q \in Readings(b, type)} : b \in Bodies(text)}
  BY Zenon DEF Meanings
<1> QED
  BY <1>1, <1>2, <1>3, Zenon

\* Every meaning of a text is the number that ParseArithmetic reads.
LEMMA MeaningRead ==
  ASSUME NEW S, NEW text \in Seq(S), NEW body, body = Trim(text, Whitespace),
         NEW type, NEW r, r = Chosen(body, type), NEW v \in Meanings(text, type)
  PROVE  /\ body # <<>> /\ ~SignFault(body)
         /\ DigitsLeft(body, r) /\ v = NumberRead(body, r) /\ v \in type.min .. type.max
<1>1. PICK b \in Bodies(text) : \E q \in Readings(b, type) : v = NumberRead(b, q)
  BY MeaningIs
<1>2. PICK q \in Readings(b, type) : v = NumberRead(b, q)
  BY <1>1
<1>3. b \in Seq(S)
  BY BodyTyped
<1>4. b # <<>> /\ ~SignFault(b) /\ q = Chosen(b, type)
  BY <1>3, ReadingChosen
<1>5. b = body /\ q = r
  BY <1>4, BodyTrimmed, Zenon
<1>6. DigitsLeft(b, q)
  BY <1>3, LeftIs, ReadingIs, Zenon
<1>7. v \in type.min .. type.max
  BY MeaningIs, Zenon
<1> QED
  BY <1>2, <1>4, <1>5, <1>6, <1>7, Zenon

LEMMA ResultFields ==
  ASSUME NEW v
  PROVE  ~Failed.ok /\ Ok(v).ok /\ Ok(v).value = v
BY Zenon DEF Failed, Ok

\* ParseArithmetic is exact for all texts and types.
LEMMA ParseNumberExact ==
  ASSUME NEW S, NEW text \in Seq(S), NEW type
  PROVE  Meanings(text, type) =
            IF ParseArithmetic(text, type).ok THEN {ParseArithmetic(text, type).value} ELSE {}
<1>1. PICK body : body = Trim(text, Whitespace)
  OBVIOUS
<1>2. PICK r : r = Chosen(body, type)
  OBVIOUS
<1>3. PICK result : result = ParseArithmetic(text, type)
  OBVIOUS
<1>4. body \in Seq(S)
  BY <1>1, TrimTyped, Zenon
<1>5. result = IF body = <<>> \/ SignFault(body) THEN Failed ELSE ReadAs(body, type, r)
  BY <1>1, <1>2, <1>3, <1>4, ParseReads, Zenon
<1>6. CASE /\ body # <<>> /\ ~SignFault(body)
           /\ DigitsLeft(body, r) /\ NumberRead(body, r) \in type.min .. type.max
  <2>1. result = Ok(NumberRead(body, r))
    BY <1>5, <1>6, Zenon DEF ReadAs
  <2>2. r \in Readings(body, type)
    BY <1>2, <1>4, <1>6, ChosenReading, Zenon
  <2>3. body \in Bodies(text)
    <3>1. \A i \in 1 .. Len(body) : body[i] \notin Whitespace
      BY <1>4, <2>2, ReadingCompact, Zenon
    <3> QED
      BY <1>1, <1>6, <3>1, TrimmedBody, Zenon
  <2>4. NumberRead(body, r) \in Meanings(text, type)
    BY <1>6, <2>2, <2>3, MeaningIs, Zenon
  <2>5. ASSUME NEW v \in Meanings(text, type)
        PROVE  v = NumberRead(body, r)
    BY <1>1, <1>2, MeaningRead
  <2>6. Meanings(text, type) = {NumberRead(body, r)}
    BY <2>4, <2>5, Zenon
  <2> QED
    BY <1>3, <2>1, <2>6, ResultFields, Zenon
<1>7. CASE ~(/\ body # <<>> /\ ~SignFault(body)
             /\ DigitsLeft(body, r) /\ NumberRead(body, r) \in type.min .. type.max)
  <2>1. result = Failed
    BY <1>5, <1>7, Zenon DEF ReadAs
  <2>2. ASSUME NEW v \in Meanings(text, type)
        PROVE  FALSE
    BY <1>1, <1>2, <1>7, MeaningRead, Zenon
  <2>3. Meanings(text, type) = {}
    BY <2>2, Zenon
  <2> QED
    BY <1>3, <2>1, <2>3, ResultFields, Zenon
<1> QED
  BY <1>6, <1>7

-----------------------------------------------------------------------------
(* The places of a file.                                                   *)

\* The places one level, and k levels, below some places.
Deeper(places) == UNION {{Entered(p, i) : i \in NamedEntries(p.node)} : p \in places}

Under(places, k) ==
    LET at[j \in 0 .. k] == IF j = 0 THEN places ELSE Deeper(at[j - 1])
    IN  at[k]

IsUnder(f, places, k) == f = [j \in 0 .. k |-> IF j = 0 THEN places ELSE Deeper(f[j - 1])]

LEMMA UnderExists ==
  ASSUME NEW places, NEW k \in Nat
  PROVE  \E f : IsUnder(f, places, k)
<1> DEFINE K == {n \in Nat : \E f : IsUnder(f, places, n)}
<1>1. 0 \in K
  <2>1. IsUnder([j \in 0 .. 0 |-> places], places, 0)
    BY DEF IsUnder
  <2> QED
    BY <2>1
<1>2. ASSUME NEW n \in Nat, n \in K
      PROVE  n + 1 \in K
  <2>1. PICK f : IsUnder(f, places, n)
    BY <1>2
  <2>2. PICK g : g = [j \in 0 .. n + 1 |-> IF j = n + 1 THEN Deeper(f[n]) ELSE f[j]]
    OBVIOUS
  <2>3. ASSUME NEW j \in 0 .. n + 1
        PROVE  g[j] = IF j = 0 THEN places ELSE Deeper(g[j - 1])
    <3>1. CASE j = n + 1
      <4>1. g[j] = Deeper(f[n]) /\ g[n] = f[n] /\ j # 0 /\ j - 1 = n
        BY <2>2, <3>1
      <4> QED
        BY <4>1
    <3>2. CASE j # n + 1
      <4>1. j \in 0 .. n /\ g[j] = f[j]
        BY <2>2, <3>2
      <4>2. j # 0 => g[j - 1] = f[j - 1]
        BY <2>2, <4>1
      <4>3. f[j] = IF j = 0 THEN places ELSE Deeper(f[j - 1])
        BY <2>1, <4>1 DEF IsUnder
      <4> QED
        BY <4>1, <4>2, <4>3
    <3> QED
      BY <3>1, <3>2
  <2>4. g = [j \in 0 .. n + 1 |-> IF j = 0 THEN places ELSE Deeper(g[j - 1])]
    BY <2>2, <2>3
  <2> QED
    BY <2>4 DEF IsUnder
<1>3. Nat \subseteq K
  <2> HIDE DEF K
  <2> QED
    BY <1>1, <1>2, SetInduction
<1> QED
  BY <1>3

LEMMA UnderIs ==
  ASSUME NEW places, NEW k \in Nat
  PROVE  \E f : IsUnder(f, places, k) /\ Under(places, k) = f[k]
<1>1. PICK f : f = CHOOSE g : IsUnder(g, places, k)
  OBVIOUS
<1>2. IsUnder(f, places, k)
  BY <1>1, UnderExists
<1>3. Under(places, k) = f[k]
  BY <1>1 DEF Under, IsUnder
<1> QED
  BY <1>2, <1>3

LEMMA UnderUnique ==
  ASSUME NEW places, NEW k \in Nat, NEW n \in Nat, NEW f, NEW g,
         IsUnder(f, places, k), IsUnder(g, places, n)
  PROVE  \A j \in Nat : j <= k /\ j <= n => f[j] = g[j]
<1> DEFINE K == {j \in Nat : j <= k /\ j <= n => f[j] = g[j]}
<1>1. 0 \in K
  BY DEF IsUnder
<1>2. ASSUME NEW j \in Nat, j \in K
      PROVE  j + 1 \in K
  <2>1. SUFFICES ASSUME j + 1 <= k, j + 1 <= n
                 PROVE  f[j + 1] = g[j + 1]
    OBVIOUS
  <2>2. f[j + 1] = Deeper(f[j]) /\ g[j + 1] = Deeper(g[j])
    BY <2>1 DEF IsUnder
  <2> QED
    BY <1>2, <2>1, <2>2
<1>3. Nat \subseteq K
  <2> HIDE DEF K
  <2> QED
    BY <1>1, <1>2, SetInduction
<1> QED
  BY <1>3

LEMMA UnderStart ==
  ASSUME NEW places
  PROVE  Under(places, 0) = places
<1>1. PICK f : IsUnder(f, places, 0) /\ Under(places, 0) = f[0]
  BY UnderIs
<1>2. f[0] = places
  BY <1>1 DEF IsUnder
<1> QED
  BY <1>1, <1>2

LEMMA UnderNext ==
  ASSUME NEW places, NEW k \in Nat
  PROVE  Under(places, k + 1) = Deeper(Under(places, k))
<1>1. PICK g : IsUnder(g, places, k) /\ Under(places, k) = g[k]
  BY UnderIs
<1>2. PICK h : IsUnder(h, places, k + 1) /\ Under(places, k + 1) = h[k + 1]
  BY UnderIs
<1>3. h[k + 1] = Deeper(h[k])
  BY <1>2 DEF IsUnder
<1>4. h[k] = g[k]
  BY <1>1, <1>2, UnderUnique
<1> QED
  BY <1>1, <1>2, <1>3, <1>4

LEMMA DeeperIs ==
  ASSUME NEW places, NEW q
  PROVE  q \in Deeper(places) <=>
            \E p \in places : \E i \in NamedEntries(p.node) : q = Entered(p, i)
<1>1. q \in Deeper(places) <=> \E p \in places : q \in {Entered(p, i) : i \in NamedEntries(p.node)}
  BY DEF Deeper
<1> QED
  BY <1>1

LEMMA PlacesAreUnder ==
  ASSUME NEW node, NEW k
  PROVE  Places(node, k) = Under({Root(node)}, k)
BY DEF Places, Under, Deeper

\* From several places one gets to what one gets to from each.
LEMMA UnderEach ==
  ASSUME NEW places, NEW k \in Nat, NEW q
  PROVE  q \in Under(places, k) <=> \E p \in places : q \in Under({p}, k)
<1> DEFINE Each(n) == \A o : o \in Under(places, n) <=> \E p \in places : o \in Under({p}, n)
           K == {n \in Nat : Each(n)}
<1>1. Each(0)
  <2>1. Under(places, 0) = places
    BY UnderStart
  <2>2. \A p \in places : Under({p}, 0) = {p}
    BY UnderStart
  <2> QED
    BY <2>1, <2>2, Zenon
<1>2. ASSUME NEW n \in Nat, Each(n)
      PROVE  Each(n + 1)
  <2>1. Under(places, n + 1) = Deeper(Under(places, n))
    BY UnderNext
  <2>2. ASSUME NEW p \in places
        PROVE  Under({p}, n + 1) = Deeper(Under({p}, n))
    BY UnderNext
  <2>3. ASSUME NEW o
        PROVE  o \in Deeper(Under(places, n)) <=> \E p \in places : o \in Deeper(Under({p}, n))
    <3>1. o \in Deeper(Under(places, n)) <=>
             \E m \in Under(places, n) : \E i \in NamedEntries(m.node) : o = Entered(m, i)
      BY DeeperIs
    <3>2. ASSUME NEW p
          PROVE  o \in Deeper(Under({p}, n)) <=>
                    \E m \in Under({p}, n) : \E i \in NamedEntries(m.node) : o = Entered(m, i)
      <4>1. PICK below : below = Under({p}, n)
        OBVIOUS
      <4>2. o \in Deeper(below) <=>
               \E m \in below : \E i \in NamedEntries(m.node) : o = Entered(m, i)
        BY DeeperIs
      <4> QED
        BY <4>1, <4>2, Zenon
    <3> QED
      BY <1>2, <3>1, <3>2, Zenon
  <2> QED
    BY <2>1, <2>2, <2>3, Zenon
<1>3. Nat \subseteq K
  <2> HIDE DEF Each
  <2>1. 0 \in K /\ \A n \in Nat : n \in K => n + 1 \in K
    BY <1>1, <1>2
  <2> HIDE DEF K
  <2> QED
    BY <2>1, SetInduction
<1>4. k \in K
  BY <1>3
<1> QED
  BY <1>4, Zenon

\* The places below a place, from its entries on.
LEMMA UnderEntries ==
  ASSUME NEW p, NEW k \in Nat, NEW q
  PROVE  q \in Under({p}, k + 1) <=>
            \E i \in NamedEntries(p.node) : q \in Under({Entered(p, i)}, k)
<1> DEFINE K == {n \in Nat : Under({p}, n + 1) = Under(Deeper({p}), n)}
<1>1. 0 \in K
  <2>1. Under({p}, 0 + 1) = Deeper(Under({p}, 0))
    BY UnderNext
  <2>2. Under({p}, 0) = {p} /\ Under(Deeper({p}), 0) = Deeper({p})
    BY UnderStart
  <2> QED
    BY <2>1, <2>2
<1>2. ASSUME NEW n \in Nat, n \in K
      PROVE  n + 1 \in K
  <2>1. Under({p}, (n + 1) + 1) = Deeper(Under({p}, n + 1))
    BY UnderNext
  <2>2. Under(Deeper({p}), n + 1) = Deeper(Under(Deeper({p}), n))
    BY UnderNext
  <2> QED
    BY <1>2, <2>1, <2>2
<1>3. Nat \subseteq K
  <2> HIDE DEF K
  <2> QED
    BY <1>1, <1>2, SetInduction
<1>4. Under({p}, k + 1) = Under(Deeper({p}), k)
  BY <1>3
<1>5. q \in Under(Deeper({p}), k) <=> \E o \in Deeper({p}) : q \in Under({o}, k)
  BY UnderEach
<1>6. \A o : o \in Deeper({p}) <=> \E i \in NamedEntries(p.node) : o = Entered(p, i)
  <2>1. ASSUME NEW o
        PROVE  o \in Deeper({p}) <=> \E m \in {p} : \E i \in NamedEntries(m.node) : o = Entered(m, i)
    BY DeeperIs
  <2> QED
    BY <2>1, Zenon
<1> QED
  BY <1>4, <1>5, <1>6, Zenon

-----------------------------------------------------------------------------
(* The nodes on a level.                                                   *)

IsLevels(f, node, k) ==
    f = [j \in 0 .. k |-> IF j = 0 THEN {node} ELSE UNION {Inside(m) : m \in f[j - 1]}]

LEMMA LevelExists ==
  ASSUME NEW node, NEW k \in Nat
  PROVE  \E f : IsLevels(f, node, k)
<1> DEFINE K == {n \in Nat : \E f : IsLevels(f, node, n)}
<1>1. 0 \in K
  <2>1. IsLevels([j \in 0 .. 0 |-> {node}], node, 0)
    BY DEF IsLevels
  <2> QED
    BY <2>1
<1>2. ASSUME NEW n \in Nat, n \in K
      PROVE  n + 1 \in K
  <2>1. PICK f : IsLevels(f, node, n)
    BY <1>2
  <2>2. PICK g : g = [j \in 0 .. n + 1 |-> IF j = n + 1 THEN UNION {Inside(m) : m \in f[n]} ELSE f[j]]
    OBVIOUS
  <2>3. ASSUME NEW j \in 0 .. n + 1
        PROVE  g[j] = IF j = 0 THEN {node} ELSE UNION {Inside(m) : m \in g[j - 1]}
    <3>1. CASE j = n + 1
      <4>1. g[j] = UNION {Inside(m) : m \in f[n]} /\ g[n] = f[n] /\ j # 0 /\ j - 1 = n
        BY <2>2, <3>1
      <4> QED
        BY <4>1
    <3>2. CASE j # n + 1
      <4>1. j \in 0 .. n /\ g[j] = f[j]
        BY <2>2, <3>2
      <4>2. j # 0 => g[j - 1] = f[j - 1]
        BY <2>2, <4>1
      <4>3. f[j] = IF j = 0 THEN {node} ELSE UNION {Inside(m) : m \in f[j - 1]}
        BY <2>1, <4>1 DEF IsLevels
      <4> QED
        BY <4>1, <4>2, <4>3
    <3> QED
      BY <3>1, <3>2
  <2>4. g = [j \in 0 .. n + 1 |-> IF j = 0 THEN {node} ELSE UNION {Inside(m) : m \in g[j - 1]}]
    BY <2>2, <2>3
  <2> QED
    BY <2>4 DEF IsLevels
<1>3. Nat \subseteq K
  <2> HIDE DEF K
  <2> QED
    BY <1>1, <1>2, SetInduction
<1> QED
  BY <1>3

LEMMA LevelIs ==
  ASSUME NEW node, NEW k \in Nat
  PROVE  \E f : IsLevels(f, node, k) /\ Level(node, k) = f[k]
<1>1. PICK f : f = CHOOSE g : IsLevels(g, node, k)
  OBVIOUS
<1>2. IsLevels(f, node, k)
  BY <1>1, LevelExists
<1>3. Level(node, k) = f[k]
  BY <1>1 DEF Level, IsLevels
<1> QED
  BY <1>2, <1>3

LEMMA LevelUnique ==
  ASSUME NEW node, NEW k \in Nat, NEW n \in Nat, NEW f, NEW g,
         IsLevels(f, node, k), IsLevels(g, node, n)
  PROVE  \A j \in Nat : j <= k /\ j <= n => f[j] = g[j]
<1> DEFINE K == {j \in Nat : j <= k /\ j <= n => f[j] = g[j]}
<1>1. 0 \in K
  BY DEF IsLevels
<1>2. ASSUME NEW j \in Nat, j \in K
      PROVE  j + 1 \in K
  <2>1. SUFFICES ASSUME j + 1 <= k, j + 1 <= n
                 PROVE  f[j + 1] = g[j + 1]
    OBVIOUS
  <2>2. f[j + 1] = UNION {Inside(m) : m \in f[j]} /\ g[j + 1] = UNION {Inside(m) : m \in g[j]}
    BY <2>1 DEF IsLevels
  <2> QED
    BY <1>2, <2>1, <2>2
<1>3. Nat \subseteq K
  <2> HIDE DEF K
  <2> QED
    BY <1>1, <1>2, SetInduction
<1> QED
  BY <1>3

LEMMA LevelStart ==
  ASSUME NEW node
  PROVE  Level(node, 0) = {node}
<1>1. PICK f : IsLevels(f, node, 0) /\ Level(node, 0) = f[0]
  BY LevelIs
<1>2. f[0] = {node}
  BY <1>1 DEF IsLevels
<1> QED
  BY <1>1, <1>2

LEMMA LevelNext ==
  ASSUME NEW node, NEW k \in Nat
  PROVE  Level(node, k + 1) = UNION {Inside(m) : m \in Level(node, k)}
<1>1. PICK g : IsLevels(g, node, k) /\ Level(node, k) = g[k]
  BY LevelIs
<1>2. PICK h : IsLevels(h, node, k + 1) /\ Level(node, k + 1) = h[k + 1]
  BY LevelIs
<1>3. h[k + 1] = UNION {Inside(m) : m \in h[k]}
  BY <1>2 DEF IsLevels
<1>4. h[k] = g[k]
  BY <1>1, <1>2, LevelUnique
<1> QED
  BY <1>1, <1>2, <1>3, <1>4


-----------------------------------------------------------------------------
(* The nodes and places of a file, and what is below a place.               *)

\* Names are texts of the characters they may have, and never empty.
Names == {name \in Seq(NAME_CHARSET) : name # <<>>}
SomePlaces == [path : Seq(Nat), names : Seq(Names), node : Nodes]

\* The cases of AreNodes.
LEMMA MapNodes ==
  ASSUME NEW node \in Nodes, node.kind = "map"
  PROVE  node.entries \in Seq([key : Nodes, value : Nodes])
<1>1. AreNodes(Nodes)
  BY NodesAssumption
<1> QED
  BY <1>1 DEF AreNodes

LEMMA ScalarNodes ==
  ASSUME NEW node \in Nodes, node.kind = "scalar"
  PROVE  node.text \in Seq(ToSet(node.text))
<1>1. AreNodes(Nodes)
  BY NodesAssumption
<1> QED
  BY <1>1 DEF AreNodes

LEMMA NormalTyped ==
  ASSUME NEW entry \in [key : Nodes, value : Nodes], IsNamed(entry)
  PROVE  NormalizeConfigName(entry.key.text) \in Names
<1>1. PICK text : text = entry.key.text
  OBVIOUS
<1>2. PICK name : name = NormalizeConfigName(text)
  OBVIOUS
<1>3. text \in Seq(ToSet(text))
  BY <1>1, ScalarNodes DEF IsNamed
<1>4. name = [i \in 1 .. Len(text) |-> ToLowerAscii(text[i])] /\ Len(text) \in Nat
  BY <1>2, <1>3 DEF NormalizeConfigName, Lower
<1>5. name # <<>> /\ ToSet(name) \subseteq NAME_CHARSET
  BY <1>1, <1>2 DEF IsNamed, IsValidConfigName
<1>6. \A i \in 1 .. Len(text) : name[i] \in NAME_CHARSET
  BY <1>4, <1>5 DEF ToSet
<1>7. name \in Seq(NAME_CHARSET)
  <2>1. DOMAIN name = 1 .. Len(text) /\ name = [i \in 1 .. Len(text) |-> name[i]]
    BY <1>4
  <2> HIDE DEF NAME_CHARSET
  <2> QED
    BY <1>4, <1>6, <2>1
<1> QED
  BY <1>1, <1>2, <1>5, <1>7, Zenon DEF Names

LEMMA EntriesTyped ==
  ASSUME NEW node \in Nodes, NEW i \in EntriesOf(node)
  PROVE  /\ node.kind = "map" /\ i \in DOMAIN node.entries /\ i \in Nat
         /\ node.entries[i] \in [key : Nodes, value : Nodes]
         /\ node.entries[i].value \in Nodes
         /\ node.entries[i].value \in Inside(node)
<1>1. node.kind = "map" /\ i \in DOMAIN node.entries
  BY DEF EntriesOf
<1>2. node.entries \in Seq([key : Nodes, value : Nodes])
  BY <1>1, MapNodes
<1>3. i \in Nat /\ node.entries[i] \in [key : Nodes, value : Nodes]
  <2>1. PICK E : E = [key : Nodes, value : Nodes]
    OBVIOUS
  <2>2. PICK entries \in Seq(E) : entries = node.entries
    BY <1>2, <2>1
  <2>3. i \in DOMAIN entries
    BY <1>1, <2>2
  <2>4. i \in Nat /\ entries[i] \in E
    BY <2>3
  <2> QED
    BY <2>1, <2>2, <2>4
<1>4. node.entries[i].value \in Inside(node)
  <2>1. Inside(node) = {e.value : e \in ToSet(node.entries)}
    BY <1>1 DEF Inside
  <2>2. node.entries[i] \in ToSet(node.entries)
    BY <1>1 DEF ToSet
  <2> QED
    BY <2>1, <2>2
<1> QED
  BY <1>1, <1>3, <1>4

LEMMA EnteredTyped ==
  ASSUME NEW p \in SomePlaces, NEW i \in NamedEntries(p.node)
  PROVE  /\ Entered(p, i) \in SomePlaces
         /\ Entered(p, i).path = Append(p.path, i)
         /\ Entered(p, i).names =
               Append(p.names, NormalizeConfigName(p.node.entries[i].key.text))
         /\ NormalizeConfigName(p.node.entries[i].key.text) \in Names
         /\ Entered(p, i).node = p.node.entries[i].value
<1>1. p.node \in Nodes /\ p.path \in Seq(Nat) /\ p.names \in Seq(Names)
  BY DEF SomePlaces
<1>2. i \in EntriesOf(p.node) /\ IsNamed(p.node.entries[i])
  BY DEF NamedEntries
<1>3. i \in Nat /\ p.node.entries[i] \in [key : Nodes, value : Nodes] /\ p.node.entries[i].value \in Nodes
  BY <1>1, <1>2, EntriesTyped
<1>4. PICK name : name = NormalizeConfigName(p.node.entries[i].key.text)
  OBVIOUS
<1>5. name \in Names
  BY <1>2, <1>3, <1>4, NormalTyped
<1>6. Entered(p, i) = [path |-> Append(p.path, i), names |-> Append(p.names, name),
                       node |-> p.node.entries[i].value]
  BY <1>4 DEF Entered
<1>7. Append(p.path, i) \in Seq(Nat) /\ Append(p.names, name) \in Seq(Names)
  BY <1>1, <1>3, <1>5, AppendProperties
<1> QED
  BY <1>3, <1>4, <1>5, <1>6, <1>7 DEF SomePlaces

\* q is k levels below p.
IsBelow(q, p, k) ==
    /\ q \in SomePlaces
    /\ Len(q.path) = Len(p.path) + k /\ Len(q.names) = Len(p.names) + k
    /\ \A j \in 1 .. Len(p.path) : q.path[j] = p.path[j]

LEMMA EnteredBelow ==
  ASSUME NEW p \in SomePlaces, NEW q, NEW k \in Nat, IsBelow(q, p, k),
         NEW i \in NamedEntries(q.node)
  PROVE  IsBelow(Entered(q, i), p, k + 1)
<1>1. q \in SomePlaces
  BY DEF IsBelow
<1>2. PICK o \in SomePlaces : o = Entered(q, i)
  BY <1>1, EnteredTyped
<1>3. o.path = Append(q.path, i) /\ i \in Nat
  BY <1>1, <1>2, EnteredTyped, EntriesTyped DEF NamedEntries, SomePlaces
<1>4. PICK name \in Names : o.names = Append(q.names, name)
  BY <1>1, <1>2, EnteredTyped
<1>5. q.path \in Seq(Nat) /\ q.names \in Seq(Names) /\ p.path \in Seq(Nat) /\ p.names \in Seq(Names)
  BY <1>1 DEF SomePlaces
<1>6. Len(o.path) = Len(q.path) + 1 /\ Len(o.names) = Len(q.names) + 1
  BY <1>3, <1>4, <1>5, AppendProperties
<1>7. /\ Len(p.path) \in Nat /\ Len(p.names) \in Nat
      /\ Len(q.path) \in Nat /\ Len(q.names) \in Nat
  BY <1>5, LenProperties
<1>8. \A j \in 1 .. Len(p.path) : o.path[j] = p.path[j]
  <2>1. \A j \in 1 .. Len(p.path) : j \in 1 .. Len(q.path)
    BY <1>7 DEF IsBelow
  <2> QED
    BY <1>3, <1>5, <2>1 DEF IsBelow
<1>9. Len(q.path) = Len(p.path) + k /\ Len(q.names) = Len(p.names) + k
  BY DEF IsBelow
<1>10. Len(o.path) = Len(p.path) + (k + 1) /\ Len(o.names) = Len(p.names) + (k + 1)
  <2>1. PICK a \in Nat, b \in Nat, c \in Nat, d \in Nat :
            a = Len(q.path) /\ b = Len(q.names) /\ c = Len(p.path) /\ d = Len(p.names)
    BY <1>7
  <2>2. Len(o.path) = a + 1 /\ Len(o.names) = b + 1 /\ a = c + k /\ b = d + k
    BY <1>6, <1>9, <2>1, Zenon
  <2>3. a + 1 = c + (k + 1) /\ b + 1 = d + (k + 1)
    BY <2>2
  <2> QED
    BY <2>1, <2>2, <2>3, Zenon
<1> QED
  BY <1>2, <1>8, <1>10, Zenon DEF IsBelow

LEMMA UnderBelow ==
  ASSUME NEW p \in SomePlaces, NEW k \in Nat
  PROVE  \A q \in Under({p}, k) : IsBelow(q, p, k)
<1> DEFINE K == {n \in Nat : \A q \in Under({p}, n) : IsBelow(q, p, n)}
<1>1. 0 \in K
  <2>1. p.path \in Seq(Nat) /\ p.names \in Seq(Names)
    BY DEF SomePlaces
  <2>2. IsBelow(p, p, 0)
    BY <2>1 DEF IsBelow
  <2>3. Under({p}, 0) = {p}
    BY UnderStart
  <2> QED
    BY <2>2, <2>3
<1>2. ASSUME NEW n \in Nat, n \in K
      PROVE  n + 1 \in K
  <2>1. Under({p}, n + 1) = Deeper(Under({p}, n))
    BY UnderNext
  <2>2. PICK below : below = Under({p}, n)
    OBVIOUS
  <2>3. ASSUME NEW q \in Deeper(below)
        PROVE  IsBelow(q, p, n + 1)
    <3>1. PICK m \in below : \E i \in NamedEntries(m.node) : q = Entered(m, i)
      BY DeeperIs
    <3>2. IsBelow(m, p, n)
      BY <1>2, <2>2
    <3> QED
      BY <3>1, <3>2, EnteredBelow
  <2> QED
    BY <2>1, <2>2, <2>3
<1>3. Nat \subseteq K
  <2> HIDE DEF K
  <2> QED
    BY <1>1, <1>2, SetInduction
<1> QED
  BY <1>3

-----------------------------------------------------------------------------
(* What CollectMembers calls.                                              *)

\* One function of collect, from the one of the next depth.
Collecting(root, depth, deeper) ==
    [node \in Level(root, depth) |-> [prefix \in Seq(NAME_CHARSET) |->
        IF depth > DepthLimit THEN TooDeep ELSE Collect(prefix, node, deeper)]]

\* The functions of the depths from d on.
IsCollect(f, root, d) ==
    f = [depth \in d .. DepthLimit + 1 |-> Collecting(root, depth, f[depth + 1])]

LEMMA CollectExists ==
  ASSUME NEW root
  PROVE  \E f : IsCollect(f, root, 0)
<1> DEFINE L == DepthLimit
           K == {k \in Nat : k <= L + 1 => \E f : IsCollect(f, root, L + 1 - k)}
<1>0. L \in Nat
  BY DepthLimitAssumption
<1>1. 0 \in K
  <2>3. PICK f : f = [depth \in L + 1 .. L + 1 |-> [node \in Level(root, depth) |-> [prefix \in Seq(NAME_CHARSET) |-> TooDeep]]]
    OBVIOUS
  <2>4. ASSUME NEW depth \in L + 1 .. L + 1
        PROVE  f[depth] = Collecting(root, depth, f[depth + 1])
    <3>1. depth > DepthLimit
      BY <1>0
    <3>2. f[depth] = [node \in Level(root, depth) |-> [prefix \in Seq(NAME_CHARSET) |-> TooDeep]]
      BY <2>3
    <3> QED
      BY <3>1, <3>2, Zenon DEF Collecting
  <2>5. IsCollect(f, root, L + 1)
    BY <2>3, <2>4 DEF IsCollect
  <2>6. L + 1 - 0 = L + 1
    BY <1>0
  <2> QED
    BY <2>5, <2>6
<1>2. ASSUME NEW k \in Nat, k \in K
      PROVE  k + 1 \in K
  <2>1. SUFFICES ASSUME k + 1 <= L + 1
                 PROVE  \E g : IsCollect(g, root, L + 1 - (k + 1))
    OBVIOUS
  <2>2. PICK d \in Nat : d = L + 1 - (k + 1) /\ d + 1 = L + 1 - k /\ d <= L
    BY <1>0, <2>1
  <2>3. PICK f : IsCollect(f, root, d + 1)
    BY <1>0, <1>2, <2>1, <2>2
  <2>4. PICK g : g = [depth \in d .. L + 1 |->
                         IF depth = d THEN Collecting(root, d, f[d + 1]) ELSE f[depth]]
    OBVIOUS
  <2>5. ASSUME NEW depth \in d .. L + 1
        PROVE  g[depth] = Collecting(root, depth, g[depth + 1])
    <3>1. CASE depth = d
      <4>1. g[depth] = Collecting(root, d, f[d + 1]) /\ g[d + 1] = f[d + 1]
        BY <1>0, <2>2, <2>4, <3>1
      <4> QED
        BY <3>1, <4>1
    <3>2. CASE depth # d
      <4>1. depth \in d + 1 .. L + 1 /\ g[depth] = f[depth]
        BY <1>0, <2>2, <2>4, <3>2
      <4>2. f[depth] = Collecting(root, depth, f[depth + 1])
        BY <2>3, <4>1 DEF IsCollect
      <4>3. CASE depth = L + 1
        <5>1. depth > DepthLimit
          BY <1>0, <4>3
        <5> QED
          BY <4>1, <4>2, <5>1, Zenon DEF Collecting
      <4>4. CASE depth # L + 1
        <5>1. depth + 1 \in d .. L + 1 /\ depth + 1 # d
          BY <1>0, <2>2, <4>1, <4>4
        <5>2. g[depth + 1] = f[depth + 1]
          BY <2>4, <5>1
        <5> QED
          BY <4>1, <4>2, <5>2
      <4> QED
        BY <4>3, <4>4
    <3> QED
      BY <3>1, <3>2
  <2>6. IsCollect(g, root, d)
    BY <2>4, <2>5 DEF IsCollect
  <2> QED
    BY <2>2, <2>6
<1>3. Nat \subseteq K
  <2> HIDE DEF K
  <2> QED
    BY <1>1, <1>2, SetInduction
<1>4. L + 1 \in K /\ L + 1 - (L + 1) = 0
  BY <1>0, <1>3
<1> QED
  BY <1>0, <1>4

\* What CollectMembers calls, by depth.
IsCalls(f, root) ==
    \A depth \in 0 .. DepthLimit + 1 : \A prefix \in Seq(NAME_CHARSET) : \A node \in Level(root, depth) :
        f[depth][node][prefix] =
            IF depth > DepthLimit THEN TooDeep ELSE Collect(prefix, node, f[depth + 1])

LEMMA CollectMembersIs ==
  ASSUME NEW root
  PROVE  \E f : IsCalls(f, root) /\ CollectMembers(root) = f[0][root][<<>>]
<1>1. PICK f : f = CHOOSE g : IsCollect(g, root, 0)
  OBVIOUS
<1>2. IsCollect(f, root, 0)
  BY <1>1, CollectExists, Zenon
<1>3. f = CHOOSE collect : collect = [depth \in 0 .. DepthLimit + 1 |->
            [node \in Level(root, depth) |-> [prefix \in Seq(NAME_CHARSET) |->
                IF depth > DepthLimit THEN TooDeep ELSE Collect(prefix, node, collect[depth + 1])]]]
  BY <1>1 DEF IsCollect, Collecting
<1>4. CollectMembers(root) = f[0][root][<<>>]
  BY <1>3 DEF CollectMembers
<1>5. ASSUME NEW depth \in 0 .. DepthLimit + 1, NEW prefix \in Seq(NAME_CHARSET),
             NEW node \in Level(root, depth)
      PROVE  f[depth][node][prefix] =
                IF depth > DepthLimit THEN TooDeep ELSE Collect(prefix, node, f[depth + 1])
  <2>1. f[depth] = Collecting(root, depth, f[depth + 1])
    BY <1>2 DEF IsCollect
  <2> QED
    BY <2>1 DEF Collecting
<1> QED
  BY <1>4, <1>5, Zenon DEF IsCalls

-----------------------------------------------------------------------------
(* Dotted names.                                                           *)

\* The names with the dots in front of them.
NamePieces(names) == [i \in DOMAIN names |-> IF i = 1 THEN names[i] ELSE <<".">> \o names[i]]

\* A name with the dot that comes before it.
Piece(names, name) == IF names = <<>> THEN name ELSE <<".">> \o name

LEMMA PieceTyped ==
  ASSUME NEW names, NEW name \in Names
  PROVE  Piece(names, name) \in Seq(NAME_CHARSET) /\ Piece(names, name) # <<>>
<1>1. PICK C : C = NAME_CHARSET
  OBVIOUS
<1>2. "." \in C
  BY <1>1 DEF NAME_CHARSET
<1>3. name \in Seq(C) /\ name # <<>>
  BY <1>1 DEF Names
<1>4. <<".">> \in Seq(C) /\ <<".">> # <<>>
  BY <1>2
<1>5. <<".">> \o name \in Seq(C) /\ <<".">> \o name # <<>>
  BY <1>3, <1>4, ConcatProperties, ConcatEqualIffEmpty
<1> QED
  BY <1>1, <1>3, <1>5 DEF Piece

LEMMA PiecesTyped ==
  ASSUME NEW names \in Seq(Names)
  PROVE  NamePieces(names) \in Seq(Seq(NAME_CHARSET))
<1>1. PICK n \in Nat : n = Len(names) /\ DOMAIN names = 1 .. n
  BY LenProperties
<1>2. ASSUME NEW i \in 1 .. n
      PROVE  (IF i = 1 THEN names[i] ELSE <<".">> \o names[i]) \in Seq(NAME_CHARSET)
  <2>1. names[i] \in Names
    BY <1>1, <1>2, ElementOfSeq
  <2>2. names[i] \in Seq(NAME_CHARSET)
    BY <2>1, Zenon DEF Names
  <2>3. Piece(<<1>>, names[i]) = <<".">> \o names[i]
    BY DEF Piece
  <2>4. <<".">> \o names[i] \in Seq(NAME_CHARSET)
    BY <2>1, <2>3, PieceTyped
  <2> QED
    BY <2>2, <2>4
<1>3. NamePieces(names) = [i \in 1 .. n |-> IF i = 1 THEN names[i] ELSE <<".">> \o names[i]]
  BY <1>1 DEF NamePieces
<1>4. PICK pieces : pieces = NamePieces(names)
  OBVIOUS
<1>5. pieces \in [1 .. n -> Seq(NAME_CHARSET)]
  BY <1>2, <1>3, <1>4, Zenon
<1> QED
  BY <1>4, <1>5

LEMMA PiecesAppend ==
  ASSUME NEW names \in Seq(Names), NEW name \in Names
  PROVE  NamePieces(Append(names, name)) = Append(NamePieces(names), Piece(names, name))
<1>1. PICK n \in Nat : n = Len(names) /\ DOMAIN names = 1 .. n
  BY LenProperties
<1>2. PICK more \in Seq(Names) : more = Append(names, name)
  BY AppendProperties
<1>3. /\ DOMAIN more = 1 .. n + 1 /\ more[n + 1] = name
      /\ \A i \in 1 .. n : more[i] = names[i]
  <2>1. Len(more) = n + 1 /\ DOMAIN more = 1 .. Len(more)
    BY <1>1, <1>2, AppendProperties, LenProperties
  <2> QED
    BY <1>1, <1>2, <2>1, AppendProperties
<1>4. PICK piece \in Seq(NAME_CHARSET) : piece = Piece(names, name)
  BY PieceTyped
<1>5. PICK pieces \in Seq(Seq(NAME_CHARSET)) : pieces = NamePieces(names)
  BY PiecesTyped
<1>6. /\ DOMAIN pieces = 1 .. n
      /\ \A i \in 1 .. n : pieces[i] = IF i = 1 THEN names[i] ELSE <<".">> \o names[i]
  BY <1>1, <1>5, Zenon DEF NamePieces
<1>7. PICK all \in Seq(Seq(NAME_CHARSET)) : all = Append(pieces, piece)
  BY AppendProperties
<1>8. DOMAIN all = 1 .. n + 1 /\ all[n + 1] = piece /\ \A i \in 1 .. n : all[i] = pieces[i]
  <2>1. PICK S : S = Seq(NAME_CHARSET)
    OBVIOUS
  <2>2. Len(pieces) = n
    BY <1>1, <1>6
  <2>3. Len(all) = n + 1 /\ DOMAIN all = 1 .. Len(all)
    BY <1>7, <2>1, <2>2, AppendProperties, LenProperties
  <2> QED
    BY <1>7, <2>1, <2>2, <2>3, AppendProperties
<1>9. piece = IF n + 1 = 1 THEN name ELSE <<".">> \o name
  <2>1. names = <<>> <=> n = 0
    BY <1>1, EmptySeq
  <2> QED
    BY <1>1, <1>4, <2>1 DEF Piece
<1>10. NamePieces(more) = [i \in 1 .. n + 1 |-> IF i = 1 THEN more[i] ELSE <<".">> \o more[i]]
  BY <1>3, Zenon DEF NamePieces
<1>11. all = [i \in 1 .. n + 1 |-> all[i]]
  BY <1>8
<1>12. \A i \in 1 .. n + 1 : all[i] = IF i = 1 THEN more[i] ELSE <<".">> \o more[i]
  <2>1. \A i \in 1 .. n + 1 : i \in 1 .. n \/ i = n + 1
    OBVIOUS
  <2> QED
    BY <1>3, <1>6, <1>8, <1>9, <2>1
<1>13. NamePieces(more) = all
  BY <1>10, <1>11, <1>12, Zenon
<1> QED
  BY <1>2, <1>4, <1>5, <1>7, <1>13, Zenon

\* The dotted name of an entry's place, as CollectMembers extends it.
LEMMA DottedAppend ==
  ASSUME NEW names \in Seq(Names), NEW name \in Names
  PROVE  /\ Dotted(names) \in Seq(NAME_CHARSET)
         /\ Dotted(Append(names, name)) = Dotted(names) \o Piece(names, name)
<1>1. PICK S : S = Seq(NAME_CHARSET)
  OBVIOUS
<1>2. IsJoinable(S)
  BY <1>1, SeqsJoin
<1>3. PICK pieces \in Seq(S) : pieces = NamePieces(names)
  BY <1>1, PiecesTyped
<1>4. PICK piece \in S : piece = Piece(names, name)
  BY <1>1, PieceTyped
<1>5. FlattenSeq(pieces) \in S /\ FlattenSeq(Append(pieces, piece)) = FlattenSeq(pieces) \o piece
  BY <1>2, FlattenAppend
<1>6. Dotted(names) = FlattenSeq(pieces) /\ Dotted(Append(names, name)) = FlattenSeq(Append(pieces, piece))
  BY <1>3, <1>4, PiecesAppend DEF Dotted, NamePieces
<1> QED
  BY <1>1, <1>4, <1>5, <1>6

LEMMA DottedTyped ==
  ASSUME NEW names \in Seq(Names)
  PROVE  /\ Dotted(names) \in Seq(NAME_CHARSET)
         /\ Dotted(names) = <<>> <=> names = <<>>
<1>1. Dotted(<<>>) = <<>>
  <2>1. NamePieces(<<>>) = <<>>
    BY DEF NamePieces
  <2> QED
    BY <2>1, FlattenEmpty, Zenon DEF Dotted, NamePieces
<1>2. <<>> \in Seq(NAME_CHARSET)
  BY EmptySeq
<1>3. CASE names # <<>>
  <2>1. PICK s \in Seq(Names), name \in Names : names = Append(s, name)
    BY <1>3, SequenceEmptyOrAppend
  <2>2. PICK front, piece \in Seq(NAME_CHARSET) : front = Dotted(s) /\ piece = Piece(s, name)
    BY DottedAppend, PieceTyped
  <2>3. front \in Seq(NAME_CHARSET) /\ Dotted(names) = front \o piece /\ piece # <<>>
    BY <2>1, <2>2, DottedAppend, PieceTyped
  <2>4. front \o piece \in Seq(NAME_CHARSET) /\ front \o piece # <<>>
    BY <2>3, ConcatProperties, ConcatEqualIffEmpty
  <2> QED
    BY <1>3, <2>3, <2>4
<1> QED
  BY <1>1, <1>2, <1>3

LEMMA DottedExtended ==
  ASSUME NEW names \in Seq(Names), NEW name \in Names
  PROVE  Dotted(Append(names, name)) = Extended(Dotted(names), name)
<1>1. PICK front \in Seq(NAME_CHARSET) : front = Dotted(names)
  BY DottedTyped
<1>2. Dotted(Append(names, name)) = front \o Piece(names, name)
  BY <1>1, DottedAppend
<1>3. name \in Seq(NAME_CHARSET)
  BY DEF Names
<1>4. CASE names = <<>>
  <2>1. front = <<>> /\ Piece(names, name) = name
    BY <1>1, <1>4, DottedTyped DEF Piece
  <2>2. <<>> \o name = name
    BY <1>3, ConcatEmptySeq
  <2> QED
    BY <1>1, <1>2, <2>1, <2>2 DEF Extended
<1>5. CASE names # <<>>
  <2>1. front # <<>> /\ Piece(names, name) = <<".">> \o name
    BY <1>1, <1>5, DottedTyped DEF Piece
  <2>2. <<".">> \in Seq(NAME_CHARSET)
    <3>1. "." \in NAME_CHARSET
      BY DEF NAME_CHARSET
    <3> HIDE DEF NAME_CHARSET
    <3> QED
      BY <3>1
  <2>3. (front \o <<".">>) \o name = front \o (<<".">> \o name)
    BY <1>3, <2>2, ConcatAssociative
  <2> QED
    BY <1>1, <1>2, <2>1, <2>3 DEF Extended
<1> QED
  BY <1>4, <1>5

-----------------------------------------------------------------------------
(* Members in the order of a file.                                         *)

Member(p) == [name |-> Dotted(p.names), node |-> p.node]
SomeMembers == [name : Seq(NAME_CHARSET), node : Nodes]

\* The places of a set in the order of the file, and their members.
IsOrder(order, places) ==
    /\ order \in Seq(SomePlaces)
    /\ \A q : q \in places <=> \E i \in 1 .. Len(order) : order[i] = q
    /\ \A i, j \in 1 .. Len(order) : i < j => Before(order[i].path, order[j].path)

IsMembers(members, order) ==
    /\ members \in Seq(SomeMembers)
    /\ Len(members) = Len(order)
    /\ \A i \in 1 .. Len(order) : members[i] = Member(order[i])

Lists(members, places) == \E order : IsOrder(order, places) /\ IsMembers(members, order)

LEMMA MemberTyped ==
  ASSUME NEW p \in SomePlaces
  PROVE  Member(p) \in SomeMembers
<1>1. p.names \in Seq(Names) /\ p.node \in Nodes
  BY DEF SomePlaces
<1>2. Dotted(p.names) \in Seq(NAME_CHARSET)
  BY <1>1, DottedTyped
<1> QED
  BY <1>1, <1>2, Zenon DEF Member, SomeMembers

LEMMA ListsNone == Lists(<<>>, {})
<1>1. <<>> \in Seq(SomePlaces) /\ <<>> \in Seq(SomeMembers) /\ Len(<<>>) = 0
  BY EmptySeq
<1>2. IsOrder(<<>>, {})
  BY <1>1 DEF IsOrder
<1>3. IsMembers(<<>>, <<>>)
  BY <1>1 DEF IsMembers
<1> QED
  BY <1>2, <1>3 DEF Lists

LEMMA ListsOne ==
  ASSUME NEW p \in SomePlaces
  PROVE  Lists(<<Member(p)>>, {p})
<1>1. PICK order : order = <<p>>
  OBVIOUS
<1>2. PICK member \in SomeMembers : member = Member(p)
  BY MemberTyped
<1>3. PICK members : members = <<member>>
  OBVIOUS
<1>4. IsOrder(order, {p})
  BY <1>1 DEF IsOrder
<1>5. IsMembers(members, order)
  BY <1>1, <1>2, <1>3 DEF IsMembers
<1> QED
  BY <1>2, <1>3, <1>4, <1>5, Zenon DEF Lists

\* Two listings, the first one before the second one.
LEMMA OrderJoin ==
  ASSUME NEW A, NEW B, NEW s, NEW t, IsOrder(s, A), IsOrder(t, B),
         \A a \in A : \A b \in B : Before(a.path, b.path)
  PROVE  IsOrder(s \o t, A \cup B)
<1>1. s \in Seq(SomePlaces) /\ t \in Seq(SomePlaces)
  BY DEF IsOrder
<1>2. PICK m \in Nat, n \in Nat : m = Len(s) /\ n = Len(t)
  BY <1>1
<1>3. PICK all \in Seq(SomePlaces) : all = s \o t
  BY <1>1, ConcatProperties
<1>4. Len(all) = m + n
  BY <1>1, <1>2, <1>3, ConcatProperties
<1>5. \A i \in 1 .. m : i \in 1 .. m + n /\ all[i] = s[i]
  BY <1>1, <1>2, <1>3, ConcatProperties
<1>6. \A i \in m + 1 .. m + n : i - m \in 1 .. n /\ all[i] = t[i - m]
  <2>1. \A i \in m + 1 .. m + n : i \in 1 .. m + n /\ ~(i <= m)
    OBVIOUS
  <2> QED
    BY <1>1, <1>2, <1>3, <2>1, ConcatProperties
<1>7. \A i \in 1 .. n : m + i \in m + 1 .. m + n /\ m + i \in 1 .. m + n /\ all[m + i] = t[i]
  <2>1. \A i \in 1 .. n : m + i \in m + 1 .. m + n /\ m + i \in 1 .. m + n /\ (m + i) - m = i
    OBVIOUS
  <2> QED
    BY <1>6, <2>1
<1>8. \A i \in 1 .. m + n : i \in 1 .. m \/ i \in m + 1 .. m + n
  OBVIOUS
<1>9. ASSUME NEW q
      PROVE  q \in A \cup B <=> \E i \in 1 .. m + n : all[i] = q
  <2>1. q \in A <=> \E i \in 1 .. m : s[i] = q
    BY <1>2 DEF IsOrder
  <2>2. q \in B <=> \E i \in 1 .. n : t[i] = q
    BY <1>2 DEF IsOrder
  <2>3. q \in A \cup B <=> q \in A \/ q \in B
    OBVIOUS
  <2>4. ASSUME NEW i \in 1 .. m, s[i] = q
        PROVE  \E j \in 1 .. m + n : all[j] = q
    BY <1>5, <2>4
  <2>5. ASSUME NEW i \in 1 .. n, t[i] = q
        PROVE  \E j \in 1 .. m + n : all[j] = q
    BY <1>7, <2>5
  <2>6. ASSUME NEW i \in 1 .. m + n, all[i] = q
        PROVE  q \in A \/ q \in B
    BY <1>5, <1>6, <1>8, <2>1, <2>2, <2>6
  <2> QED
    BY <2>1, <2>2, <2>3, <2>4, <2>5, <2>6, Zenon
<1>10. ASSUME NEW i \in 1 .. m + n, NEW j \in 1 .. m + n, i < j
       PROVE  Before(all[i].path, all[j].path)
  <2>1. CASE i \in 1 .. m /\ j \in 1 .. m
    BY <1>2, <1>5, <1>10, <2>1 DEF IsOrder
  <2>2. CASE i \in m + 1 .. m + n /\ j \in m + 1 .. m + n
    <3>1. PICK k \in 1 .. n, l \in 1 .. n : k = i - m /\ l = j - m
      BY <1>6, <2>2
    <3>2. k < l /\ all[i] = t[k] /\ all[j] = t[l]
      BY <1>6, <1>10, <2>2, <3>1
    <3> QED
      BY <1>2, <3>2 DEF IsOrder
  <2>3. CASE i \in 1 .. m /\ j \in m + 1 .. m + n
    <3>1. all[i] \in A
      BY <1>2, <1>5, <2>3 DEF IsOrder
    <3>2. all[j] \in B
      BY <1>2, <1>6, <2>3 DEF IsOrder
    <3> QED
      BY <3>1, <3>2
  <2>4. ~(i \in m + 1 .. m + n /\ j \in 1 .. m)
    BY <1>10
  <2> QED
    BY <1>8, <2>1, <2>2, <2>3, <2>4
<1> QED
  BY <1>3, <1>4, <1>9, <1>10 DEF IsOrder

LEMMA MembersJoin ==
  ASSUME NEW s \in Seq(SomePlaces), NEW t \in Seq(SomePlaces), NEW u, NEW v,
         IsMembers(u, s), IsMembers(v, t)
  PROVE  IsMembers(u \o v, s \o t)
<1>1. u \in Seq(SomeMembers) /\ v \in Seq(SomeMembers)
  BY DEF IsMembers
<1>2. PICK m \in Nat, n \in Nat : m = Len(s) /\ n = Len(t)
  OBVIOUS
<1>3. PICK all \in Seq(SomePlaces) : all = s \o t
  BY ConcatProperties
<1>4. PICK members \in Seq(SomeMembers) : members = u \o v
  BY <1>1, ConcatProperties
<1>5. Len(u) = m /\ Len(v) = n
  BY <1>2 DEF IsMembers
<1>6. Len(all) = m + n /\ Len(members) = m + n
  <2>1. Len(all) = m + n
    BY <1>2, <1>3, ConcatProperties
  <2>2. Len(members) = m + n
    BY <1>1, <1>4, <1>5, ConcatProperties
  <2> QED
    BY <2>1, <2>2
<1>7. ASSUME NEW i \in 1 .. m + n
      PROVE  members[i] = Member(all[i])
  <2>1. CASE i <= m
    <3>1. members[i] = u[i] /\ all[i] = s[i]
      BY <1>1, <1>2, <1>3, <1>4, <1>5, <2>1, ConcatProperties
    <3> QED
      BY <1>2, <2>1, <3>1 DEF IsMembers
  <2>2. CASE ~(i <= m)
    <3>1. members[i] = v[i - m] /\ all[i] = t[i - m]
      BY <1>1, <1>2, <1>3, <1>4, <1>5, <2>2, ConcatProperties
    <3>2. i - m \in 1 .. n
      BY <2>2
    <3> QED
      BY <1>2, <3>1, <3>2 DEF IsMembers
  <2> QED
    BY <2>1, <2>2
<1> QED
  BY <1>3, <1>4, <1>6, <1>7 DEF IsMembers

LEMMA ListsTyped ==
  ASSUME NEW members, NEW places, Lists(members, places)
  PROVE  members \in Seq(SomeMembers)
BY DEF Lists, IsMembers

LEMMA ListsJoin ==
  ASSUME NEW A, NEW B, NEW u, NEW v, Lists(u, A), Lists(v, B),
         \A a \in A : \A b \in B : Before(a.path, b.path)
  PROVE  Lists(u \o v, A \cup B)
<1>1. PICK s : IsOrder(s, A) /\ IsMembers(u, s)
  BY DEF Lists
<1>2. PICK t : IsOrder(t, B) /\ IsMembers(v, t)
  BY DEF Lists
<1>3. s \in Seq(SomePlaces) /\ t \in Seq(SomePlaces)
  BY <1>1, <1>2 DEF IsOrder
<1>4. IsOrder(s \o t, A \cup B)
  BY <1>1, <1>2, OrderJoin
<1>5. IsMembers(u \o v, s \o t)
  BY <1>1, <1>2, <1>3, MembersJoin
<1> QED
  BY <1>4, <1>5 DEF Lists

LEMMA ListsSame ==
  ASSUME NEW A, NEW B, NEW u, Lists(u, A), \A q : q \in A <=> q \in B
  PROVE  Lists(u, B)
BY DEF Lists, IsOrder


\* A map comes before its members.
LEMMA BeforeBelow ==
  ASSUME NEW p \in SomePlaces, NEW q, NEW k \in Nat, IsBelow(q, p, k + 1)
  PROVE  Before(p.path, q.path)
<1>1. p.path \in Seq(Nat) /\ q.path \in Seq(Nat)
  BY DEF IsBelow, SomePlaces
<1>2. PICK n \in Nat : n = Len(p.path) /\ DOMAIN p.path = 1 .. n
  BY <1>1
<1>3. Len(q.path) = n + (k + 1) /\ \A j \in 1 .. n : p.path[j] = q.path[j]
  BY <1>2 DEF IsBelow
<1>4. DOMAIN q.path = 1 .. n + (k + 1)
  BY <1>1, <1>3
<1>5. n + 1 \in DOMAIN q.path /\ n + 1 \notin DOMAIN p.path /\ (n + 1) - 1 = n
  <2>1. n + 1 \in 1 .. n + (k + 1) /\ n + 1 \notin 1 .. n
    OBVIOUS
  <2>2. n + 1 \in DOMAIN q.path
    BY <1>4, <2>1, Zenon
  <2>3. n + 1 \notin DOMAIN p.path
    BY <1>2, <2>1, Zenon
  <2> QED
    BY <2>2, <2>3
<1> QED
  BY <1>2, <1>3, <1>5 DEF Before

\* What is below an entry comes before what is below a later one.
LEMMA BeforeLater ==
  ASSUME NEW p \in SomePlaces, NEW i \in NamedEntries(p.node), NEW j \in NamedEntries(p.node), i < j,
         NEW a, NEW b, NEW k \in Nat, NEW l \in Nat,
         IsBelow(a, Entered(p, i), k), IsBelow(b, Entered(p, j), l)
  PROVE  Before(a.path, b.path)
<1>1. p.path \in Seq(Nat) /\ a.path \in Seq(Nat) /\ b.path \in Seq(Nat)
  BY DEF IsBelow, SomePlaces
<1>2. PICK n \in Nat : n = Len(p.path)
  BY <1>1
<1>3. i \in Nat /\ j \in Nat
  BY EntriesTyped DEF NamedEntries, SomePlaces
<1>4. ASSUME NEW m \in NamedEntries(p.node), m \in Nat
      PROVE  /\ Len(Entered(p, m).path) = n + 1
             /\ \A x \in 1 .. n : Entered(p, m).path[x] = p.path[x]
             /\ Entered(p, m).path[n + 1] = m
  <2>1. Entered(p, m).path = Append(p.path, m)
    BY EnteredTyped
  <2> QED
    BY <1>1, <1>2, <1>4, <2>1, AppendProperties
<1>5. ASSUME NEW m \in NamedEntries(p.node), m \in Nat, NEW c, NEW h \in Nat, IsBelow(c, Entered(p, m), h)
      PROVE  /\ n + 1 \in DOMAIN c.path
             /\ \A x \in 1 .. n : x \in DOMAIN c.path /\ c.path[x] = p.path[x]
             /\ c.path[n + 1] = m
  <2>1. c.path \in Seq(Nat)
    BY <1>5 DEF IsBelow, SomePlaces
  <2>2. Len(c.path) = (n + 1) + h /\ \A x \in 1 .. n + 1 : c.path[x] = Entered(p, m).path[x]
    BY <1>4, <1>5 DEF IsBelow
  <2>3. DOMAIN c.path = 1 .. (n + 1) + h
    BY <2>1, <2>2
  <2>4. \A x \in 1 .. n : x \in 1 .. n + 1 /\ x \in 1 .. (n + 1) + h
    OBVIOUS
  <2>5. n + 1 \in 1 .. n + 1 /\ n + 1 \in 1 .. (n + 1) + h
    OBVIOUS
  <2> QED
    BY <1>4, <1>5, <2>2, <2>3, <2>4, <2>5
<1>6. /\ n + 1 \in DOMAIN b.path /\ b.path[n + 1] = j /\ a.path[n + 1] = i
      /\ \A x \in 1 .. n : x \in DOMAIN a.path /\ a.path[x] = b.path[x]
  BY <1>3, <1>5
<1>7. (n + 1) - 1 = n
  OBVIOUS
<1> QED
  BY <1>6, <1>7 DEF Before

\* The places less than h levels below p, and p.
Reached(p, h) == {q \in SomePlaces : \E k \in Nat : k < h /\ q \in Under({p}, k)}

LEMMA ReachedBelow ==
  ASSUME NEW p \in SomePlaces, NEW h \in Nat, NEW q \in Reached(p, h)
  PROVE  \E k \in Nat : IsBelow(q, p, k)
BY UnderBelow DEF Reached

LEMMA ReachedIs ==
  ASSUME NEW p \in SomePlaces, NEW h \in Nat, NEW q
  PROVE  q \in Reached(p, h + 1) <=>
            q = p \/ \E i \in NamedEntries(p.node) : q \in Reached(Entered(p, i), h)
<1>1. ASSUME q \in Reached(p, h + 1)
      PROVE  q = p \/ \E i \in NamedEntries(p.node) : q \in Reached(Entered(p, i), h)
  <2>1. q \in SomePlaces
    BY <1>1 DEF Reached
  <2>2. PICK k \in Nat : k < h + 1 /\ q \in Under({p}, k)
    BY <1>1 DEF Reached
  <2>3. CASE k = 0
    BY <2>2, <2>3, UnderStart
  <2>4. CASE k # 0
    <3>1. PICK m \in Nat : k = m + 1 /\ m < h
      <4>1. k - 1 \in Nat /\ k = (k - 1) + 1 /\ k - 1 < h
        BY <2>2, <2>4
      <4> QED
        BY <4>1
    <3>2. q \in Under({p}, m + 1)
      BY <2>2, <3>1
    <3>3. PICK i \in NamedEntries(p.node) : q \in Under({Entered(p, i)}, m)
      BY <3>2, UnderEntries
    <3> QED
      BY <2>1, <3>1, <3>3 DEF Reached
  <2> QED
    BY <2>3, <2>4
<1>2. p \in Reached(p, h + 1)
  <2>1. p \in Under({p}, 0) /\ 0 < h + 1
    BY UnderStart
  <2> QED
    BY <2>1 DEF Reached
<1>3. ASSUME NEW i \in NamedEntries(p.node), q \in Reached(Entered(p, i), h)
      PROVE  q \in Reached(p, h + 1)
  <2>1. q \in SomePlaces
    BY <1>3 DEF Reached
  <2>2. PICK k \in Nat : k < h /\ q \in Under({Entered(p, i)}, k)
    BY <1>3 DEF Reached
  <2>3. q \in Under({p}, k + 1)
    BY <2>2, UnderEntries
  <2>4. k + 1 \in Nat /\ k + 1 < h + 1
    BY <2>2
  <2> QED
    BY <2>1, <2>3, <2>4 DEF Reached
<1> QED
  BY <1>1, <1>2, <1>3

\* What a call of collect gives for a place, h levels above the limit.
Gathers(result, p, h) ==
    IF Under({p}, h) # {} THEN result.throws
    ELSE /\ ~result.throws
         /\ result.success <=> \A q \in Reached(p, h) : NamedEntries(q.node) = EntriesOf(q.node)
         /\ Lists(result.members, {q \in Reached(p, h) : q.names # <<>>})

-----------------------------------------------------------------------------
(* The calls for the entries of a node.                                    *)

\* The calls for the entries of p's node.
IsResults(results, p, h, n) ==
    /\ n \in Nat
    /\ EntriesOf(p.node) = 1 .. n
    /\ \A i \in 1 .. n :
          IF i \in NamedEntries(p.node) THEN Gathers(results[i], Entered(p, i), h)
          ELSE results[i] = Skipped

LEMMA ResultsThrow ==
  ASSUME NEW p \in SomePlaces, NEW h \in Nat, NEW n, NEW results, IsResults(results, p, h, n)
  PROVE  (\E i \in 1 .. n : results[i].throws) <=> Under({p}, h + 1) # {}
<1>0. NamedEntries(p.node) \subseteq 1 .. n
  BY DEF NamedEntries, IsResults
<1>1. ASSUME NEW i \in 1 .. n, results[i].throws
      PROVE  Under({p}, h + 1) # {}
  <2>1. i \in NamedEntries(p.node)
    BY <1>1 DEF IsResults, Skipped
  <2>2. Gathers(results[i], Entered(p, i), h)
    BY <2>1 DEF IsResults
  <2>3. PICK q : q \in Under({Entered(p, i)}, h)
    BY <1>1, <2>2, Zenon DEF Gathers
  <2>4. q \in Under({p}, h + 1)
    BY <2>1, <2>3, UnderEntries
  <2> QED
    BY <2>4
<1>2. ASSUME NEW q \in Under({p}, h + 1)
      PROVE  \E i \in 1 .. n : results[i].throws
  <2>1. PICK i \in NamedEntries(p.node) : q \in Under({Entered(p, i)}, h)
    BY UnderEntries
  <2>2. i \in 1 .. n /\ Gathers(results[i], Entered(p, i), h)
    BY <1>0, <2>1 DEF IsResults
  <2>3. results[i].throws
    BY <2>1, <2>2, Zenon DEF Gathers
  <2> QED
    BY <2>2, <2>3
<1> QED
  BY <1>1, <1>2, Zenon

\* The results when no call throws.
Calm(result, p, h) ==
    /\ ~result.throws
    /\ result.success <=> \A q \in Reached(p, h) : NamedEntries(q.node) = EntriesOf(q.node)
    /\ Lists(result.members, {q \in Reached(p, h) : q.names # <<>>})

LEMMA ResultsCalm ==
  ASSUME NEW p \in SomePlaces, NEW h \in Nat, NEW n, NEW results, IsResults(results, p, h, n),
         Under({p}, h + 1) = {}, NEW i \in NamedEntries(p.node)
  PROVE  i \in 1 .. n /\ Calm(results[i], Entered(p, i), h)
<1>1. i \in 1 .. n
  BY DEF NamedEntries, IsResults
<1>2. Gathers(results[i], Entered(p, i), h)
  BY <1>1 DEF IsResults
<1>3. Under({Entered(p, i)}, h) = {}
  <2>1. \A q : q \in Under({Entered(p, i)}, h) => q \in Under({p}, h + 1)
    BY UnderEntries
  <2> QED
    BY <2>1
<1> QED
  BY <1>1, <1>2, <1>3, Zenon DEF Gathers, Calm

LEMMA ResultsSuccess ==
  ASSUME NEW p \in SomePlaces, NEW h \in Nat, NEW n, NEW results, IsResults(results, p, h, n),
         Under({p}, h + 1) = {}
  PROVE  (\A i \in 1 .. n : results[i].success) <=>
            \A q \in Reached(p, h + 1) : NamedEntries(q.node) = EntriesOf(q.node)
<1>0. NamedEntries(p.node) \subseteq 1 .. n /\ EntriesOf(p.node) = 1 .. n
  BY DEF NamedEntries, IsResults
<1>1. ASSUME \A i \in 1 .. n : results[i].success, NEW q \in Reached(p, h + 1)
      PROVE  NamedEntries(q.node) = EntriesOf(q.node)
  <2>1. CASE q = p
    <3>1. ASSUME NEW i \in 1 .. n
          PROVE  i \in NamedEntries(p.node)
      BY <1>1 DEF IsResults, Skipped
    <3> QED
      BY <1>0, <2>1, <3>1
  <2>2. ASSUME NEW i \in NamedEntries(p.node), q \in Reached(Entered(p, i), h)
        PROVE  NamedEntries(q.node) = EntriesOf(q.node)
    <3>1. i \in 1 .. n /\ Calm(results[i], Entered(p, i), h)
      BY ResultsCalm
    <3>2. results[i].success
      BY <1>1, <3>1
    <3> QED
      BY <2>2, <3>1, <3>2, Zenon DEF Calm
  <2> QED
    BY <2>1, <2>2, ReachedIs
<1>2. ASSUME \A q \in Reached(p, h + 1) : NamedEntries(q.node) = EntriesOf(q.node), NEW i \in 1 .. n
      PROVE  results[i].success
  <2>1. NamedEntries(p.node) = EntriesOf(p.node)
    BY <1>2, ReachedIs
  <2>2. i \in NamedEntries(p.node)
    BY <1>0, <2>1
  <2>3. Calm(results[i], Entered(p, i), h)
    BY <2>2, ResultsCalm
  <2>4. \A q : q \in Reached(Entered(p, i), h) => q \in Reached(p, h + 1)
    BY <2>2, ReachedIs
  <2> QED
    BY <1>2, <2>3, <2>4, Zenon DEF Calm
<1> QED
  BY <1>1, <1>2, Zenon

\* The places of the first entries, up to the k-th.
FirstPlaces(p, h, k) ==
    {q \in SomePlaces : \E i \in NamedEntries(p.node) : i <= k /\ q \in Reached(Entered(p, i), h)}

LEMMA EnteredNames ==
  ASSUME NEW p \in SomePlaces, NEW i \in NamedEntries(p.node), NEW h \in Nat,
         NEW q \in Reached(Entered(p, i), h)
  PROVE  q \in SomePlaces /\ q.names # <<>>
<1>1. Entered(p, i) \in SomePlaces
  BY EnteredTyped
<1>2. PICK k \in Nat : IsBelow(q, Entered(p, i), k)
  BY <1>1, ReachedBelow
<1>3. q \in SomePlaces /\ Len(q.names) = Len(Entered(p, i).names) + k
  BY <1>2 DEF IsBelow
<1>4. PICK name \in Names : Entered(p, i).names = Append(p.names, name)
  BY EnteredTyped
<1>5. p.names \in Seq(Names) /\ q.names \in Seq(Names)
  BY <1>3 DEF SomePlaces
<1>6. Len(Entered(p, i).names) = Len(p.names) + 1 /\ Len(p.names) \in Nat
  BY <1>4, <1>5, AppendProperties
<1>7. Len(q.names) # 0
  BY <1>3, <1>6
<1> QED
  BY <1>3, <1>5, <1>7, EmptySeq

\* The members of the first entries, one after the other.
LEMMA ResultsMembers ==
  ASSUME NEW p \in SomePlaces, NEW h \in Nat, NEW n, NEW results, IsResults(results, p, h, n),
         Under({p}, h + 1) = {}
  PROVE  Lists(FlattenSeq([i \in 1 .. n |-> results[i].members]), FirstPlaces(p, h, n))
<1>0. n \in Nat /\ NamedEntries(p.node) \subseteq 1 .. n
  BY DEF NamedEntries, IsResults
<1> DEFINE all(k) == [i \in 1 .. k |-> results[i].members]
           K == {k \in Nat : k <= n => Lists(FlattenSeq(all(k)), FirstPlaces(p, h, k))}
<1>1. PICK S : S = Seq(SomeMembers)
  OBVIOUS
<1>2. ASSUME NEW i \in 1 .. n
      PROVE  /\ i \in NamedEntries(p.node) =>
                   Lists(results[i].members, Reached(Entered(p, i), h))
             /\ i \notin NamedEntries(p.node) => Lists(results[i].members, {})
             /\ results[i].members \in S
  <2>1. ASSUME i \in NamedEntries(p.node)
        PROVE  Lists(results[i].members, Reached(Entered(p, i), h))
    <3>1. PICK places : places = {q \in Reached(Entered(p, i), h) : q.names # <<>>}
      OBVIOUS
    <3>2. Lists(results[i].members, places)
      BY <2>1, <3>1, ResultsCalm DEF Calm
    <3>3. \A q : q \in Reached(Entered(p, i), h) => q.names # <<>>
      BY <2>1, EnteredNames
    <3>4. \A q : q \in places <=> q \in Reached(Entered(p, i), h)
      BY <3>1, <3>3
    <3> QED
      BY <3>2, <3>4, ListsSame
  <2>2. ASSUME i \notin NamedEntries(p.node)
        PROVE  Lists(results[i].members, {})
    <3>1. results[i].members = <<>>
      BY <2>2 DEF IsResults, Skipped
    <3> QED
      BY <3>1, ListsNone
  <2>3. results[i].members \in S
    BY <1>1, <2>1, <2>2, ListsTyped
  <2> QED
    BY <2>1, <2>2, <2>3
<1>3. 0 \in K
  <2>1. all(0) = <<>>
    OBVIOUS
  <2>2. \A q : q \in {} <=> q \in FirstPlaces(p, h, 0)
    BY <1>0 DEF FirstPlaces
  <2>3. Lists(FlattenSeq(all(0)), FirstPlaces(p, h, 0))
    BY <2>1, <2>2, ListsNone, ListsSame, FlattenEmpty
  <2> QED
    BY <2>3
<1>4. ASSUME NEW k \in Nat, k \in K
      PROVE  k + 1 \in K
  <2>1. SUFFICES ASSUME k + 1 <= n
                 PROVE  Lists(FlattenSeq(all(k + 1)), FirstPlaces(p, h, k + 1))
    OBVIOUS
  <2>2. k + 1 \in 1 .. n /\ \A i \in 1 .. k + 1 : i \in 1 .. n
    BY <1>0, <2>1
  <2>3. PICK seqs \in Seq(S) : seqs = all(k) /\ Len(seqs) = k
    <3>1. \A i \in 1 .. k : results[i].members \in S
      BY <1>2, <2>2
    <3>2. all(k) \in [1 .. k -> S]
      BY <3>1
    <3>3. all(k) \in Seq(S) /\ Len(all(k)) = k
      BY <3>2
    <3> QED
      BY <3>3, Zenon
  <2>4. PICK last \in S : last = results[k + 1].members
    BY <1>2, <2>2
  <2>5. all(k + 1) = Append(seqs, last)
    <3>1. PICK more \in Seq(S) : more = Append(seqs, last)
      BY AppendProperties
    <3>2. DOMAIN more = 1 .. k + 1 /\ more[k + 1] = last /\ \A i \in 1 .. k : more[i] = seqs[i]
      BY <2>3, <3>1, AppendProperties, LenProperties
    <3>3. more = [i \in 1 .. k + 1 |-> more[i]]
      BY <3>2
    <3>4. \A i \in 1 .. k + 1 : more[i] = results[i].members
      <4>1. \A i \in 1 .. k + 1 : i \in 1 .. k \/ i = k + 1
        OBVIOUS
      <4> QED
        BY <2>3, <2>4, <3>2, <4>1
    <3> QED
      BY <3>1, <3>3, <3>4
  <2>6. FlattenSeq(all(k + 1)) = FlattenSeq(all(k)) \o last
    <3>1. IsJoinable(S)
      BY <1>1, SeqsJoin
    <3> QED
      BY <2>3, <2>5, <3>1, FlattenAppend
  <2>7. Lists(FlattenSeq(all(k)), FirstPlaces(p, h, k))
    <3>1. k <= n
      BY <1>0, <2>1
    <3> QED
      BY <1>4, <3>1, Zenon
  <2>8. PICK front : front = FlattenSeq(all(k))
    OBVIOUS
  <2>9. CASE k + 1 \in NamedEntries(p.node)
    <3>1. PICK later : later = Reached(Entered(p, k + 1), h)
      OBVIOUS
    <3>2. ASSUME NEW a \in FirstPlaces(p, h, k), NEW b \in later
          PROVE  Before(a.path, b.path)
      <4>1. PICK i \in NamedEntries(p.node) : i <= k /\ a \in Reached(Entered(p, i), h)
        BY DEF FirstPlaces
      <4>2. i \in Nat /\ i < k + 1
        BY <1>0, <4>1
      <4>3. Entered(p, i) \in SomePlaces /\ Entered(p, k + 1) \in SomePlaces
        BY <2>9, EnteredTyped
      <4>4. PICK x \in Nat : IsBelow(a, Entered(p, i), x)
        BY <4>1, <4>3, ReachedBelow
      <4>5. PICK y \in Nat : IsBelow(b, Entered(p, k + 1), y)
        BY <3>1, <4>3, ReachedBelow
      <4> QED
        BY <2>9, <4>2, <4>4, <4>5, BeforeLater
    <3>3. Lists(last, later)
      BY <1>2, <2>2, <2>4, <2>9, <3>1
    <3>4. Lists(front \o last, FirstPlaces(p, h, k) \cup later)
      BY <2>7, <2>8, <3>2, <3>3, ListsJoin
    <3>5. ASSUME NEW q
          PROVE  q \in FirstPlaces(p, h, k) \cup later <=> q \in FirstPlaces(p, h, k + 1)
      <4>1. q \in later => q \in SomePlaces
        BY <3>1 DEF Reached
      <4>2. \A i \in NamedEntries(p.node) : i <= k + 1 <=> i <= k \/ i = k + 1
        BY <1>0
      <4> QED
        BY <2>9, <3>1, <4>1, <4>2 DEF FirstPlaces
    <3> QED
      BY <2>6, <2>8, <3>4, <3>5, ListsSame
  <2>10. CASE k + 1 \notin NamedEntries(p.node)
    <3>1. last = <<>>
      BY <2>2, <2>4, <2>10 DEF IsResults, Skipped
    <3>2. front \in S
      BY <1>1, <2>7, <2>8, ListsTyped
    <3>3. front \o last = front
      BY <1>1, <3>1, <3>2, ConcatEmptySeq
    <3>4. \A i \in NamedEntries(p.node) : i <= k + 1 <=> i <= k
      BY <1>0, <2>10
    <3>5. \A q : q \in FirstPlaces(p, h, k) <=> q \in FirstPlaces(p, h, k + 1)
      BY <3>4 DEF FirstPlaces
    <3> QED
      BY <2>6, <2>7, <2>8, <3>3, <3>5, ListsSame
  <2> QED
    BY <2>9, <2>10
<1>5. Nat \subseteq K
  <2> HIDE DEF K
  <2> QED
    BY <1>3, <1>4, SetInduction
<1> QED
  BY <1>0, <1>5

-----------------------------------------------------------------------------
(* One call, and all calls.                                                *)

\* The local definitions of Collect.
Own(prefix, node) == IF prefix = <<>> THEN <<>> ELSE <<[name |-> prefix, node |-> node]>>
EntryList(node) == IF node.kind = "map" THEN node.entries ELSE <<>>
Calls(prefix, node, deeper) ==
    [i \in DOMAIN EntryList(node) |->
        IF IsNamed(EntryList(node)[i])
        THEN deeper[EntryList(node)[i].value]
                   [Extended(prefix, NormalizeConfigName(EntryList(node)[i].key.text))]
        ELSE Skipped]

IsCollected(result, results, prefix, node, n) ==
    result = IF \E i \in 1 .. n : results[i].throws THEN TooDeep
             ELSE [throws  |-> FALSE,
                   success |-> \A i \in 1 .. n : results[i].success,
                   members |-> Own(prefix, node) \o
                                  FlattenSeq([i \in 1 .. n |-> results[i].members])]

LEMMA CollectIs ==
  ASSUME NEW prefix, NEW node, NEW deeper, NEW results, NEW n,
         results = Calls(prefix, node, deeper), DOMAIN results = 1 .. n
  PROVE  IsCollected(Collect(prefix, node, deeper), results, prefix, node, n)
<1>1. Collect(prefix, node, deeper) =
         IF \E i \in DOMAIN results : results[i].throws THEN TooDeep
         ELSE [throws  |-> FALSE,
               success |-> \A i \in DOMAIN results : results[i].success,
               members |-> Own(prefix, node) \o
                              FlattenSeq([i \in DOMAIN results |-> results[i].members])]
  BY DEF Collect, Calls, Own, EntryList
<1>2. PICK D : D = DOMAIN results
  OBVIOUS
<1>3. Collect(prefix, node, deeper) =
         IF \E i \in D : results[i].throws THEN TooDeep
         ELSE [throws  |-> FALSE,
               success |-> \A i \in D : results[i].success,
               members |-> Own(prefix, node) \o FlattenSeq([i \in D |-> results[i].members])]
  BY <1>1, <1>2, Zenon
<1>4. D = 1 .. n
  BY <1>2
<1> QED
  BY <1>3, <1>4, Zenon DEF IsCollected

LEMMA EntryListIs ==
  ASSUME NEW node \in Nodes
  PROVE  \E n \in Nat : EntriesOf(node) = 1 .. n /\ DOMAIN EntryList(node) = 1 .. n
<1>1. CASE node.kind = "map"
  <2>1. PICK E : E = [key : Nodes, value : Nodes]
    OBVIOUS
  <2>2. node.entries \in Seq(E)
    BY <1>1, <2>1, MapNodes
  <2>3. PICK n \in Nat : DOMAIN node.entries = 1 .. n
    BY <2>2, LenProperties
  <2> QED
    BY <1>1, <2>3 DEF EntriesOf, EntryList
<1>2. CASE node.kind # "map"
  <2>1. EntryList(node) = <<>> /\ EntriesOf(node) = {}
    BY <1>2 DEF EntriesOf, EntryList
  <2>2. DOMAIN <<>> = 1 .. 0 /\ {} = 1 .. 0
    OBVIOUS
  <2> QED
    BY <2>1, <2>2
<1> QED
  BY <1>1, <1>2

LEMMA CollectStep ==
  ASSUME NEW p \in SomePlaces, NEW h \in Nat, NEW deeper,
         \A i \in NamedEntries(p.node) :
            Gathers(deeper[Entered(p, i).node][Dotted(Entered(p, i).names)], Entered(p, i), h)
  PROVE  Gathers(Collect(Dotted(p.names), p.node, deeper), p, h + 1)
<1>0. p.node \in Nodes /\ p.names \in Seq(Names)
  BY DEF SomePlaces
<1>1. PICK prefix : prefix = Dotted(p.names)
  OBVIOUS
<1>2. PICK node \in Nodes : node = p.node
  BY <1>0
<1>3. PICK n \in Nat : EntriesOf(node) = 1 .. n /\ DOMAIN EntryList(node) = 1 .. n
  BY EntryListIs
<1>4. PICK results : results = Calls(prefix, node, deeper)
  OBVIOUS
<1>5. DOMAIN results = 1 .. n
  BY <1>3, <1>4 DEF Calls
<1>6. ASSUME NEW i \in 1 .. n
      PROVE  IF i \in NamedEntries(node) THEN Gathers(results[i], Entered(p, i), h)
             ELSE results[i] = Skipped
  <2>1. i \in EntriesOf(node) /\ EntryList(node) = node.entries
    BY <1>3 DEF EntriesOf, EntryList
  <2>2. results[i] = IF IsNamed(node.entries[i])
                     THEN deeper[node.entries[i].value]
                                [Extended(prefix, NormalizeConfigName(node.entries[i].key.text))]
                     ELSE Skipped
    BY <1>3, <1>4, <2>1 DEF Calls
  <2>3. CASE i \in NamedEntries(node)
    <3>1. PICK name \in Names : /\ name = NormalizeConfigName(node.entries[i].key.text)
                                /\ Entered(p, i).names = Append(p.names, name)
      BY <1>2, <2>3, EnteredTyped
    <3>2. Entered(p, i).node = node.entries[i].value
      BY <1>2, <2>3, EnteredTyped
    <3>3. Dotted(Entered(p, i).names) = Extended(prefix, name)
      BY <1>0, <1>1, <3>1, DottedExtended
    <3>4. IsNamed(node.entries[i])
      BY <2>3 DEF NamedEntries
    <3>5. results[i] = deeper[Entered(p, i).node][Dotted(Entered(p, i).names)]
      BY <2>2, <3>1, <3>2, <3>3, <3>4
    <3> QED
      BY <1>2, <2>3, <3>5
  <2>4. CASE i \notin NamedEntries(node)
    BY <2>1, <2>2, <2>4 DEF NamedEntries
  <2> QED
    BY <2>3, <2>4
<1>7. IsResults(results, p, h, n)
  BY <1>2, <1>3, <1>6, Zenon DEF IsResults
<1>8. PICK result : result = Collect(prefix, node, deeper)
  OBVIOUS
<1>9. IsCollected(result, results, prefix, node, n)
  BY <1>4, <1>5, <1>8, CollectIs, Zenon
<1>10. result = IF \E i \in 1 .. n : results[i].throws THEN TooDeep
               ELSE [throws  |-> FALSE,
                     success |-> \A i \in 1 .. n : results[i].success,
                     members |-> Own(prefix, node) \o
                                    FlattenSeq([i \in 1 .. n |-> results[i].members])]
  BY <1>9, Zenon DEF IsCollected
<1>11. CASE Under({p}, h + 1) # {}
  <2>1. result = TooDeep
    BY <1>7, <1>10, <1>11, ResultsThrow
  <2>2. result.throws
    BY <2>1 DEF TooDeep
  <2> QED
    BY <1>1, <1>2, <1>8, <1>11, <2>2, Zenon DEF Gathers
<1>12. CASE Under({p}, h + 1) = {}
  <2>1. ~(\E i \in 1 .. n : results[i].throws)
    BY <1>7, <1>12, ResultsThrow
  <2>2. PICK rest : rest = FlattenSeq([i \in 1 .. n |-> results[i].members])
    OBVIOUS
  <2>3. /\ ~result.throws
        /\ result.success <=> \A i \in 1 .. n : results[i].success
        /\ result.members = Own(prefix, node) \o rest
    BY <1>10, <2>1, <2>2
  <2>4. result.success <=> \A q \in Reached(p, h + 1) : NamedEntries(q.node) = EntriesOf(q.node)
    BY <1>7, <1>12, <2>3, ResultsSuccess
  <2>5. Lists(rest, FirstPlaces(p, h, n))
    BY <1>7, <1>12, <2>2, ResultsMembers
  <2>6. PICK mine : mine = {q \in {p} : q.names # <<>>}
    OBVIOUS
  <2>7. Lists(Own(prefix, node), mine)
    <3>1. CASE p.names = <<>>
      <4>1. Own(prefix, node) = <<>> /\ mine = {}
        BY <1>0, <1>1, <2>6, <3>1, DottedTyped DEF Own
      <4> QED
        BY <4>1, ListsNone
    <3>2. CASE p.names # <<>>
      <4>1. Own(prefix, node) = <<Member(p)>> /\ mine = {p}
        BY <1>0, <1>1, <1>2, <2>6, <3>2, DottedTyped DEF Own, Member
      <4> QED
        BY <4>1, ListsOne
    <3> QED
      BY <3>1, <3>2
  <2>8. ASSUME NEW a \in mine, NEW b \in FirstPlaces(p, h, n)
        PROVE  Before(a.path, b.path)
    <3>1. a = p
      BY <2>6
    <3>2. PICK i \in NamedEntries(p.node) : b \in Reached(Entered(p, i), h)
      BY DEF FirstPlaces
    <3>3. b \in Reached(p, h + 1)
      BY <3>2, ReachedIs
    <3>4. PICK k \in Nat : b \in Under({Entered(p, i)}, k)
      BY <3>2 DEF Reached
    <3>5. b \in Under({p}, k + 1)
      BY <3>4, UnderEntries
    <3>6. k + 1 \in Nat
      OBVIOUS
    <3>7. IsBelow(b, p, k + 1)
      BY <3>5, <3>6, UnderBelow
    <3> QED
      BY <3>1, <3>7, BeforeBelow
  <2>9. Lists(result.members, mine \cup FirstPlaces(p, h, n))
    BY <2>3, <2>5, <2>7, <2>8, ListsJoin
  <2>10. PICK listed : listed = {q \in Reached(p, h + 1) : q.names # <<>>}
    OBVIOUS
  <2>11. ASSUME NEW q
         PROVE  q \in mine \cup FirstPlaces(p, h, n) <=> q \in listed
    <3>1. q \in Reached(p, h + 1) <=>
             q = p \/ \E i \in NamedEntries(p.node) : q \in Reached(Entered(p, i), h)
      BY ReachedIs
    <3>2. \A i \in NamedEntries(p.node) : i <= n
      BY <1>3, <1>2 DEF NamedEntries
    <3>3. \A i \in NamedEntries(p.node) :
             q \in Reached(Entered(p, i), h) => q \in SomePlaces /\ q.names # <<>>
      BY EnteredNames
    <3> QED
      BY <2>6, <2>10, <3>1, <3>2, <3>3 DEF FirstPlaces
  <2>12. Lists(result.members, listed)
    BY <2>9, <2>11, ListsSame
  <2> QED
    BY <1>1, <1>2, <1>8, <1>12, <2>3, <2>4, <2>10, <2>12, Zenon DEF Gathers
<1> QED
  BY <1>11, <1>12

\* Every call gathers what is below its place.
LEMMA CallsGather ==
  ASSUME NEW root \in Nodes, NEW f, IsCalls(f, root)
  PROVE  \A h \in 0 .. DepthLimit + 1 : \A p \in SomePlaces :
            p.node \in Level(root, DepthLimit + 1 - h) =>
               Gathers(f[DepthLimit + 1 - h][p.node][Dotted(p.names)], p, h)
<1> DEFINE L == DepthLimit
           Good(h) == \A p \in SomePlaces :
                         p.node \in Level(root, L + 1 - h) =>
                            Gathers(f[L + 1 - h][p.node][Dotted(p.names)], p, h)
           K == {h \in Nat : h <= L + 1 => Good(h)}
<1>0. L \in Nat
  BY DepthLimitAssumption
<1>1. ASSUME NEW p \in SomePlaces
      PROVE  Dotted(p.names) \in Seq(NAME_CHARSET)
  BY DottedTyped DEF SomePlaces
<1>2. 0 \in K
  <2>1. PICK d \in 0 .. L + 1 : d = L + 1 /\ d = L + 1 - 0 /\ d > L
    BY <1>0
  <2>2. ASSUME NEW p \in SomePlaces, p.node \in Level(root, d)
        PROVE  Gathers(f[d][p.node][Dotted(p.names)], p, 0)
    <3>1. f[d][p.node][Dotted(p.names)] = TooDeep
      BY <1>1, <2>1, <2>2 DEF IsCalls
    <3>2. Under({p}, 0) = {p}
      BY UnderStart
    <3>3. TooDeep.throws
      BY DEF TooDeep
    <3> QED
      BY <3>1, <3>2, <3>3, Zenon DEF Gathers
  <2>3. Good(0)
    BY <2>1, <2>2
  <2> QED
    BY <2>3
<1>3. ASSUME NEW h \in Nat, h \in K
      PROVE  h + 1 \in K
  <2>1. SUFFICES ASSUME h + 1 <= L + 1
                 PROVE  Good(h + 1)
    OBVIOUS
  <2>2. PICK d \in 0 .. L + 1 : d = L + 1 - (h + 1) /\ d + 1 = L + 1 - h /\ ~(d > L) /\ d \in Nat
    BY <1>0, <2>1
  <2>3. Good(h)
    BY <1>0, <1>3, <2>1
  <2>4. ASSUME NEW p \in SomePlaces, p.node \in Level(root, d)
        PROVE  Gathers(f[d][p.node][Dotted(p.names)], p, h + 1)
    <3>1. f[d][p.node][Dotted(p.names)] = Collect(Dotted(p.names), p.node, f[d + 1])
      BY <1>1, <2>2, <2>4 DEF IsCalls
    <3>2. ASSUME NEW i \in NamedEntries(p.node)
          PROVE  Gathers(f[d + 1][Entered(p, i).node][Dotted(Entered(p, i).names)], Entered(p, i), h)
      <4>1. PICK q \in SomePlaces : q = Entered(p, i)
        BY EnteredTyped
      <4>2. q.node \in Inside(p.node)
        <5>1. p.node \in Nodes /\ i \in EntriesOf(p.node)
          BY DEF SomePlaces, NamedEntries
        <5>2. q.node = p.node.entries[i].value
          BY <4>1, EnteredTyped
        <5> QED
          BY <5>1, <5>2, EntriesTyped
      <4>3. q.node \in Level(root, d + 1)
        <5>1. Level(root, d + 1) = UNION {Inside(m) : m \in Level(root, d)}
          BY <2>2, LevelNext
        <5> QED
          BY <2>4, <4>2, <5>1
      <4> QED
        BY <2>2, <2>3, <4>1, <4>3
    <3> QED
      BY <3>1, <3>2, CollectStep
  <2> QED
    BY <2>2, <2>4
<1>4. Nat \subseteq K
  <2> HIDE DEF K
  <2> QED
    BY <1>2, <1>3, SetInduction
<1>5. ASSUME NEW h \in 0 .. L + 1
      PROVE  Good(h)
  <2>1. h \in Nat /\ h <= L + 1
    BY <1>0
  <2>2. h \in K
    BY <1>4, <2>1, Zenon
  <2> QED
    BY <2>1, <2>2, Zenon
<1> QED
  BY <1>5, Zenon

-----------------------------------------------------------------------------
(* The number of places.                                                   *)

\* Of two places at most one comes before the other one.
LEMMA BeforeOnce ==
  ASSUME NEW p \in Seq(Nat), NEW q \in Seq(Nat), Before(p, q)
  PROVE  ~Before(q, p)
<1>1. PICK k \in DOMAIN q : /\ \A j \in 1 .. k - 1 : j \in DOMAIN p /\ p[j] = q[j]
                            /\ k \in DOMAIN p => p[k] < q[k]
  BY DEF Before
<1>2. SUFFICES ASSUME NEW l \in DOMAIN p, \A j \in 1 .. l - 1 : j \in DOMAIN q /\ q[j] = p[j],
                      l \in DOMAIN q => q[l] < p[l]
               PROVE  FALSE
  BY DEF Before
<1>3. PICK m \in Nat, n \in Nat : DOMAIN p = 1 .. m /\ DOMAIN q = 1 .. n
  BY LenProperties
<1>4. \A i \in 1 .. m : p[i] \in Nat
  BY <1>3
<1>5. \A i \in 1 .. n : q[i] \in Nat
  BY <1>3
<1>6. CASE k < l
  <2>1. k \in 1 .. l - 1 /\ k \in DOMAIN p
    BY <1>2, <1>3, <1>6
  <2>2. q[k] = p[k] /\ p[k] < q[k]
    BY <1>1, <1>2, <2>1
  <2> QED
    BY <1>1, <1>3, <1>5, <2>2
<1>7. CASE l < k
  <2>1. l \in 1 .. k - 1 /\ l \in DOMAIN q
    BY <1>1, <1>3, <1>7
  <2>2. p[l] = q[l] /\ q[l] < p[l]
    BY <1>1, <1>2, <2>1
  <2> QED
    BY <1>2, <1>3, <1>4, <2>2
<1>8. CASE k = l
  <2>1. p[k] < q[k] /\ q[k] < p[k] /\ p[k] \in Nat /\ q[k] \in Nat
    BY <1>1, <1>2, <1>3, <1>4, <1>5, <1>8
  <2> QED
    BY <2>1
<1>9. k \in Nat /\ l \in Nat
  BY <1>1, <1>2, <1>3
<1> QED
  BY <1>6, <1>7, <1>8, <1>9

LEMMA OrderPaths ==
  ASSUME NEW P, NEW order, IsOrder(order, P), NEW i \in 1 .. Len(order)
  PROVE  order[i].path \in Seq(Nat)
<1>1. order \in Seq(SomePlaces)
  BY DEF IsOrder
<1>2. order[i] \in SomePlaces
  BY <1>1, ElementOfSeq
<1> QED
  BY <1>2 DEF SomePlaces

\* The first k places of an order are k places.
LEMMA FirstOfOrder ==
  ASSUME NEW P, NEW order, IsOrder(order, P), NEW k \in 0 .. Len(order), NEW A,
         \A q : q \in A <=> \E i \in 1 .. k : order[i] = q
  PROVE  Cardinality(A) = k
<1>1. order \in Seq(SomePlaces) /\ Len(order) \in Nat /\ k \in Nat
  BY DEF IsOrder
<1>2. \A i \in 1 .. k : i \in 1 .. Len(order)
  BY <1>1
<1>3. ASSUME NEW i \in 1 .. k, NEW j \in 1 .. k, i < j, order[i] = order[j]
      PROVE  FALSE
  <2>1. order[i].path \in Seq(Nat)
    BY <1>2, OrderPaths
  <2>2. Before(order[i].path, order[j].path)
    BY <1>2, <1>3 DEF IsOrder
  <2> QED
    BY <1>3, <2>1, <2>2, BeforeOnce
<1>4. PICK f : f = [i \in 1 .. k |-> order[i]]
  OBVIOUS
<1>5. f \in [1 .. k -> A]
  BY <1>4
<1>6. ASSUME NEW i \in 1 .. k, NEW j \in 1 .. k, f[i] = f[j]
      PROVE  i = j
  <2>1. order[i] = order[j] /\ order[j] = order[i]
    BY <1>4, <1>6
  <2>2. ~(i < j) /\ ~(j < i)
    BY <1>3, <2>1
  <2> QED
    BY <2>2
<1>7. \A q \in A : \E i \in 1 .. k : f[i] = q
  BY <1>4
<1>8. f \in Bijection(1 .. k, A)
  <2>1. f \in Injection(1 .. k, A)
    BY <1>5, <1>6, Fun_IsInj
  <2>2. f \in Surjection(1 .. k, A)
    BY <1>5, <1>7, Fun_IsSurj
  <2> QED
    BY <2>1, <2>2, Zenon DEF Bijection
<1>9. ExistsBijection(1 .. k, A)
  BY <1>8, Zenon DEF ExistsBijection
<1> QED
  BY <1>1, <1>9, FS_CountingElements

\* The number of places, and of those before the i-th one.
LEMMA OrderCounts ==
  ASSUME NEW P, NEW order, IsOrder(order, P)
  PROVE  /\ Cardinality(P) = Len(order)
         /\ \A i \in 1 .. Len(order) :
               Cardinality({q \in P : Before(q.path, order[i].path)}) = i - 1
<1>1. order \in Seq(SomePlaces) /\ Len(order) \in Nat
  BY DEF IsOrder
<1>2. Cardinality(P) = Len(order)
  <2>1. Len(order) \in 0 .. Len(order)
    BY <1>1
  <2>2. \A q : q \in P <=> \E i \in 1 .. Len(order) : order[i] = q
    BY DEF IsOrder
  <2> QED
    BY <2>1, <2>2, FirstOfOrder
<1>3. ASSUME NEW i \in 1 .. Len(order)
      PROVE  Cardinality({q \in P : Before(q.path, order[i].path)}) = i - 1
  <2>1. PICK A : A = {q \in P : Before(q.path, order[i].path)}
    OBVIOUS
  <2>2. PICK k \in 0 .. Len(order) : k = i - 1
    BY <1>1
  <2>3. ASSUME NEW j \in 1 .. Len(order)
        PROVE  Before(order[j].path, order[i].path) <=> j < i
    <3>1. order[j].path \in Seq(Nat) /\ order[i].path \in Seq(Nat)
      BY OrderPaths
    <3>2. CASE j < i
      BY <3>2 DEF IsOrder
    <3>3. CASE j = i
      BY <3>1, <3>3, BeforeOnce
    <3>4. CASE j > i
      <4>1. Before(order[i].path, order[j].path)
        BY <3>4 DEF IsOrder
      <4> QED
        BY <3>1, <3>4, <4>1, BeforeOnce
    <3> QED
      BY <3>2, <3>3, <3>4
  <2>4. ASSUME NEW q
        PROVE  q \in A <=> \E j \in 1 .. k : order[j] = q
    <3>1. q \in P <=> \E j \in 1 .. Len(order) : order[j] = q
      BY DEF IsOrder
    <3>2. \A j \in 1 .. Len(order) : j < i <=> j \in 1 .. k
      BY <1>1, <2>2
    <3>3. \A j \in 1 .. k : j \in 1 .. Len(order)
      BY <1>1, <2>2
    <3> QED
      BY <2>1, <2>3, <3>1, <3>2, <3>3
  <2>5. Cardinality(A) = k
    BY <2>4, FirstOfOrder
  <2> QED
    BY <2>1, <2>2, <2>5
<1> QED
  BY <1>2, <1>3

\* MembersExact of one file.
MembersRight(root) ==
    LET result     == CollectMembers(root)
        places     == UNION {Places(root, k) : k \in 1 .. DepthLimit}
        earlier(p) == {q \in places : Before(q.path, p.path)}
    IN  IF Places(root, DepthLimit + 1) # {} THEN result.throws
        ELSE /\ ~result.throws
             /\ result.success <=>
                   \A p \in {Root(root)} \cup places : NamedEntries(p.node) = EntriesOf(p.node)
             /\ Len(result.members) = Cardinality(places)
             /\ \A p \in places : result.members[Cardinality(earlier(p)) + 1] =
                                     [name |-> Dotted(p.names), node |-> p.node]

LEMMA RootTyped ==
  ASSUME NEW node \in Nodes
  PROVE  Root(node) \in SomePlaces
<1>1. <<>> \in Seq(Nat) /\ <<>> \in Seq(Names)
  BY EmptySeq
<1> QED
  BY <1>1, Zenon DEF Root, SomePlaces

LEMMA MembersAreRight ==
  ASSUME NEW root \in Nodes
  PROVE  MembersRight(root)
<1>0. DepthLimit \in Nat
  BY DepthLimitAssumption
<1>1. PICK r \in SomePlaces : r = Root(root)
  BY RootTyped
<1>2. r.node = root /\ r.names = <<>>
  BY <1>1 DEF Root
<1>3. PICK h \in Nat : h = DepthLimit + 1
  BY <1>0
<1>4. PICK f : IsCalls(f, root) /\ CollectMembers(root) = f[0][root][<<>>]
  BY CollectMembersIs
<1>5. PICK result : result = CollectMembers(root)
  OBVIOUS
<1>6. Gathers(result, r, h)
  <2>1. h \in 0 .. DepthLimit + 1 /\ DepthLimit + 1 - h = 0
    BY <1>0, <1>3
  <2>2. r.node \in Level(root, 0)
    BY <1>2, LevelStart
  <2>3. Gathers(f[0][r.node][Dotted(r.names)], r, h)
    BY <1>4, <2>1, <2>2, CallsGather
  <2>4. Dotted(<<>>) = <<>>
    <3>1. <<>> \in Seq(Names)
      BY EmptySeq
    <3> QED
      BY <3>1, DottedTyped
  <2> QED
    BY <1>2, <1>4, <1>5, <2>3, <2>4
<1>7. PICK places : places = UNION {Places(root, k) : k \in 1 .. DepthLimit}
  OBVIOUS
<1>8. ASSUME NEW k \in Nat, NEW q \in Places(root, k)
      PROVE  q \in Under({r}, k) /\ q \in SomePlaces /\ (q.names = <<>> <=> k = 0)
  <2>1. q \in Under({r}, k)
    BY <1>1, PlacesAreUnder
  <2>2. IsBelow(q, r, k)
    BY <2>1, UnderBelow
  <2>3. q \in SomePlaces /\ Len(q.names) = k
    <3>1. Len(r.names) = 0
      BY <1>2
    <3> QED
      BY <2>2, <3>1 DEF IsBelow
  <2>4. q.names \in Seq(Names)
    BY <2>3 DEF SomePlaces
  <2>5. q.names = <<>> <=> Len(q.names) = 0
    BY <2>4, EmptySeq
  <2> QED
    BY <2>1, <2>3, <2>5
<1>9. ASSUME NEW q
      PROVE  q \in Reached(r, h) <=> \E k \in 0 .. DepthLimit : q \in Places(root, k)
  <2>1. \A k \in Nat : k < h <=> k \in 0 .. DepthLimit
    BY <1>0, <1>3
  <2>2. \A k \in 0 .. DepthLimit : k \in Nat
    BY <1>0
  <2>3. \A k \in Nat : q \in Places(root, k) <=> q \in Under({r}, k)
    BY <1>1, PlacesAreUnder
  <2> QED
    BY <1>8, <2>1, <2>2, <2>3 DEF Reached
<1>10. ASSUME NEW q
       PROVE  /\ q \in places <=> \E k \in 1 .. DepthLimit : q \in Places(root, k)
              /\ q \in Places(root, 0) <=> q = r
  <2>1. Places(root, 0) = {r}
    BY <1>1, PlacesAreUnder, UnderStart
  <2> QED
    BY <1>7, <2>1
<1>11. \A k \in 0 .. DepthLimit : k = 0 \/ k \in 1 .. DepthLimit
  BY <1>0
<1>12. \A k \in 1 .. DepthLimit : k \in 0 .. DepthLimit /\ k \in Nat /\ k # 0
  BY <1>0
<1>13. 0 \in 0 .. DepthLimit
  BY <1>0
<1>14. ASSUME NEW q
       PROVE  /\ q \in Reached(r, h) <=> q = r \/ q \in places
              /\ q \in {p \in Reached(r, h) : p.names # <<>>} <=> q \in places
  <2>1. q \in Reached(r, h) <=> q = r \/ q \in places
    BY <1>9, <1>10, <1>11, <1>12, <1>13
  <2>2. q \in places => q.names # <<>>
    BY <1>8, <1>10, <1>12
  <2> QED
    BY <1>2, <2>1, <2>2
<1>15. Places(root, DepthLimit + 1) = Under({r}, h)
  BY <1>1, <1>3, PlacesAreUnder
<1>16. CASE Under({r}, h) # {}
  <2>1. result.throws
    BY <1>6, <1>16, Zenon DEF Gathers
  <2> QED
    BY <1>5, <1>15, <1>16, <2>1, Zenon DEF MembersRight
<1>17. CASE Under({r}, h) = {}
  <2>1. /\ ~result.throws
        /\ result.success <=> \A q \in Reached(r, h) : NamedEntries(q.node) = EntriesOf(q.node)
        /\ Lists(result.members, {q \in Reached(r, h) : q.names # <<>>})
    BY <1>6, <1>17, Zenon DEF Gathers
  <2>2. result.success <=> \A p \in {Root(root)} \cup places : NamedEntries(p.node) = EntriesOf(p.node)
    <3>1. \A p : p \in {Root(root)} \cup places <=> p \in Reached(r, h)
      BY <1>1, <1>14
    <3> QED
      BY <2>1, <3>1
  <2>3. Lists(result.members, places)
    <3>1. PICK listed : listed = {q \in Reached(r, h) : q.names # <<>>}
      OBVIOUS
    <3>2. \A q : q \in listed <=> q \in places
      BY <1>14, <3>1
    <3> QED
      BY <2>1, <3>1, <3>2, ListsSame
  <2>4. PICK order : IsOrder(order, places) /\ IsMembers(result.members, order)
    BY <2>3 DEF Lists
  <2>5. Len(result.members) = Cardinality(places)
    BY <2>4, OrderCounts DEF IsMembers
  <2>6. ASSUME NEW p \in places
        PROVE  result.members[Cardinality({q \in places : Before(q.path, p.path)}) + 1] =
                  [name |-> Dotted(p.names), node |-> p.node]
    <3>1. PICK i \in 1 .. Len(order) : order[i] = p
      BY <2>4 DEF IsOrder
    <3>2. Cardinality({q \in places : Before(q.path, order[i].path)}) = i - 1
      BY <2>4, <3>1, OrderCounts
    <3>3. PICK c : c = Cardinality({q \in places : Before(q.path, p.path)})
      OBVIOUS
    <3>4. c + 1 = i
      BY <3>1, <3>2, <3>3
    <3>5. result.members[i] = Member(p)
      BY <2>4, <3>1 DEF IsMembers
    <3> QED
      BY <3>3, <3>4, <3>5, Zenon DEF Member
  <2> QED
    BY <1>5, <1>7, <1>15, <1>17, <2>1, <2>2, <2>5, <2>6, Zenon DEF MembersRight
<1> QED
  BY <1>16, <1>17

-----------------------------------------------------------------------------
(* The nodes inside a node.                                                *)

LEMMA InsideIs ==
  ASSUME NEW node
  PROVE  Level(node, 1) = Inside(node)
<1>1. Level(node, 0 + 1) = UNION {Inside(m) : m \in Level(node, 0)}
  BY LevelNext
<1>2. Level(node, 0) = {node}
  BY LevelStart
<1> QED
  BY <1>1, <1>2

LEMMA LevelInside ==
  ASSUME NEW node, NEW m \in Inside(node)
  PROVE  \A k \in Nat : Level(m, k) \subseteq Level(node, k + 1)
<1> DEFINE K == {k \in Nat : Level(m, k) \subseteq Level(node, k + 1)}
<1>1. 0 \in K
  <2>1. Level(m, 0) = {m} /\ Level(node, 0 + 1) = Inside(node)
    BY LevelStart, InsideIs
  <2> QED
    BY <2>1
<1>2. ASSUME NEW k \in Nat, k \in K
      PROVE  k + 1 \in K
  <2>1. Level(m, k + 1) = UNION {Inside(x) : x \in Level(m, k)}
    BY LevelNext
  <2>2. Level(node, k + 1 + 1) = UNION {Inside(x) : x \in Level(node, k + 1)}
    BY LevelNext
  <2>3. Level(m, k) \subseteq Level(node, k + 1)
    BY <1>2
  <2>4. Level(m, k + 1) \subseteq Level(node, k + 1 + 1)
    BY <2>1, <2>2, <2>3, Zenon
  <2> QED
    BY <2>4
<1>3. Nat \subseteq K
  <2> HIDE DEF K
  <2> QED
    BY <1>1, <1>2, SetInduction
<1> QED
  BY <1>3

LEMMA LevelIn ==
  ASSUME NEW node, NEW k \in Nat, NEW x \in Level(node, k), NEW y \in Inside(x)
  PROVE  y \in Level(node, k + 1)
<1>1. Level(node, k + 1) = UNION {Inside(m) : m \in Level(node, k)}
  BY LevelNext
<1> QED
  BY <1>1, Zenon

LEMMA ItemInside ==
  ASSUME NEW node, node.kind = "sequence", NEW i \in DOMAIN node.items
  PROVE  node.items[i] \in Inside(node)
BY DEF Inside, ToSet

LEMMA EntryInside ==
  ASSUME NEW node, node.kind = "map", NEW i \in DOMAIN node.entries
  PROVE  node.entries[i].value \in Inside(node)
<1>1. Inside(node) = {e.value : e \in ToSet(node.entries)}
  BY DEF Inside
<1>2. node.entries[i] \in ToSet(node.entries)
  BY DEF ToSet
<1> QED
  BY <1>1, <1>2

-----------------------------------------------------------------------------
(* FromNode, one container at a time.                                      *)

\* The containers of a type.
Containers == {"list", "set", "map"}

IsType(type) ==
    /\ type.containers \in Seq(Containers)
    /\ \/ type.scalar.kind \in {"bool", "string"}
       \/ /\ type.scalar.kind = "int"
          /\ type.scalar.min \in Int /\ type.scalar.max \in Int

\* The type of the elements.
Inner(type) == [containers |-> Tail(type.containers), scalar |-> type.scalar]

IsInner(inner, type, n) ==
    /\ IsType(inner) /\ inner.scalar = type.scalar
    /\ Len(type.containers) = n + 1 /\ Len(inner.containers) = n
    /\ \A k \in Nat : k < n => inner.containers[k + 1] = type.containers[k + 2]

LEMMA InnerTyped ==
  ASSUME NEW type, IsType(type), type.containers # <<>>
  PROVE  \E n \in Nat : IsInner(Inner(type), type, n)
<1>1. PICK inner : inner = Inner(type)
  OBVIOUS
<1>2. inner.containers = Tail(type.containers) /\ inner.scalar = type.scalar
  BY <1>1 DEF Inner
<1>3. PICK s \in Seq(Containers) : s = type.containers
  BY DEF IsType
<1>4. PICK n \in Nat : Len(s) = n + 1
  <2>1. Len(s) - 1 \in Nat /\ Len(s) = (Len(s) - 1) + 1
    BY <1>3
  <2> QED
    BY <2>1
<1>5. /\ Tail(s) \in Seq(Containers) /\ Len(Tail(s)) = n
      /\ \A k \in Nat : k < n => Tail(s)[k + 1] = s[k + 2]
  BY <1>3, <1>4
<1>6. IsType(inner)
  BY <1>2, <1>3, <1>5, Zenon DEF IsType
<1>7. IsInner(inner, type, n)
  BY <1>2, <1>3, <1>4, <1>5, <1>6, Zenon DEF IsInner
<1> QED
  BY <1>1, <1>7, Zenon

\* One level of from.
FromContainer(m, container, next) ==
    IF container = "map" THEN FromMap(m, next) ELSE FromSequence(m, container, next)

FromAt(node, type, k, next) ==
    [m \in Level(node, k) |->
        IF k = Len(type.containers) THEN FromScalar(m, type.scalar)
        ELSE FromContainer(m, type.containers[k + 1], next)]

IsFrom(f, node, type, d) ==
    f = [k \in d .. Len(type.containers) |-> FromAt(node, type, k, f[k + 1])]

LEMMA FromExists ==
  ASSUME NEW node, NEW type, Len(type.containers) \in Nat
  PROVE  \E f : IsFrom(f, node, type, 0)
<1>0. PICK L \in Nat : L = Len(type.containers)
  OBVIOUS
<1> DEFINE K == {k \in Nat : k <= L => \E f : IsFrom(f, node, type, L - k)}
<1>1. 0 \in K
  <2>3. PICK f : f = [k \in L .. L |-> [m \in Level(node, k) |-> FromScalar(m, type.scalar)]]
    OBVIOUS
  <2>4. ASSUME NEW k \in L .. L
        PROVE  f[k] = FromAt(node, type, k, f[k + 1])
    <3>1. k = Len(type.containers)
      BY <1>0
    <3>2. f[k] = [m \in Level(node, k) |-> FromScalar(m, type.scalar)]
      BY <2>3
    <3> QED
      BY <3>1, <3>2, Zenon DEF FromAt
  <2>5. IsFrom(f, node, type, L)
    BY <1>0, <2>3, <2>4 DEF IsFrom
  <2>6. L - 0 = L
    BY <1>0
  <2> QED
    BY <2>5, <2>6
<1>2. ASSUME NEW k \in Nat, k \in K
      PROVE  k + 1 \in K
  <2>1. SUFFICES ASSUME k + 1 <= L
                 PROVE  \E g : IsFrom(g, node, type, L - (k + 1))
    OBVIOUS
  <2>2. PICK d \in Nat : d = L - (k + 1) /\ d + 1 = L - k /\ d < L
    BY <2>1
  <2>3. PICK f : IsFrom(f, node, type, d + 1)
    BY <1>0, <1>2, <2>1, <2>2
  <2>4. PICK g : g = [j \in d .. L |-> IF j = d THEN FromAt(node, type, d, f[d + 1]) ELSE f[j]]
    OBVIOUS
  <2>5. ASSUME NEW j \in d .. L
        PROVE  g[j] = FromAt(node, type, j, g[j + 1])
    <3>1. CASE j = d
      <4>1. g[j] = FromAt(node, type, d, f[d + 1]) /\ g[d + 1] = f[d + 1]
        BY <1>0, <2>2, <2>4, <3>1
      <4> QED
        BY <3>1, <4>1
    <3>2. CASE j # d
      <4>1. j \in d + 1 .. L /\ g[j] = f[j]
        BY <1>0, <2>2, <2>4, <3>2
      <4>2. f[j] = FromAt(node, type, j, f[j + 1])
        BY <1>0, <2>3, <4>1 DEF IsFrom
      <4>3. CASE j = L
        BY <1>0, <4>1, <4>2, <4>3, Zenon DEF FromAt
      <4>4. CASE j # L
        <5>1. j + 1 \in d .. L /\ j + 1 # d
          BY <1>0, <2>2, <4>1, <4>4
        <5>2. g[j + 1] = f[j + 1]
          BY <2>4, <5>1
        <5> QED
          BY <4>1, <4>2, <5>2
      <4> QED
        BY <4>3, <4>4
    <3> QED
      BY <3>1, <3>2
  <2>6. IsFrom(g, node, type, d)
    BY <1>0, <2>4, <2>5 DEF IsFrom
  <2> QED
    BY <2>2, <2>6
<1>3. Nat \subseteq K
  <2> HIDE DEF K
  <2> QED
    BY <1>1, <1>2, SetInduction
<1>4. L \in K /\ L - L = 0
  BY <1>0, <1>3
<1> QED
  BY <1>0, <1>4

\* What FromNode does at each level.
IsFromLevels(f, node, type) ==
    \A k \in 0 .. Len(type.containers) : \A m \in Level(node, k) :
        f[k][m] = IF k = Len(type.containers) THEN FromScalar(m, type.scalar)
                  ELSE FromContainer(m, type.containers[k + 1], f[k + 1])

LEMMA FromNodeLevels ==
  ASSUME NEW node, NEW type, Len(type.containers) \in Nat
  PROVE  \E f : IsFromLevels(f, node, type) /\ FromNode(node, type) = f[0][node]
<1>1. PICK f : f = CHOOSE g : IsFrom(g, node, type, 0)
  OBVIOUS
<1>2. IsFrom(f, node, type, 0)
  BY <1>1, FromExists, Zenon
<1>3. f = CHOOSE from : from = [k \in 0 .. Len(type.containers) |->
            [m \in Level(node, k) |->
                IF k = Len(type.containers) THEN FromScalar(m, type.scalar)
                ELSE IF type.containers[k + 1] = "map" THEN FromMap(m, from[k + 1])
                ELSE FromSequence(m, type.containers[k + 1], from[k + 1])]]
  BY <1>1 DEF IsFrom, FromAt, FromContainer
<1>4. FromNode(node, type) = f[0][node]
  BY <1>3 DEF FromNode
<1>5. ASSUME NEW k \in 0 .. Len(type.containers), NEW m \in Level(node, k)
      PROVE  f[k][m] = IF k = Len(type.containers) THEN FromScalar(m, type.scalar)
                       ELSE FromContainer(m, type.containers[k + 1], f[k + 1])
  <2>1. f[k] = FromAt(node, type, k, f[k + 1])
    BY <1>2 DEF IsFrom
  <2> QED
    BY <2>1 DEF FromAt
<1> QED
  BY <1>4, <1>5, Zenon DEF IsFromLevels

\* What FromMap does with the results of the values.
KeysOf(node) == [i \in DOMAIN node.entries |-> node.entries[i].key]
TextsOf(node) == [i \in DOMAIN node.entries |-> node.entries[i].key.text]

MapOf(node, keys, texts, mapped) ==
    IF \/ node.kind # "map"
       \/ \E i \in DOMAIN keys : keys[i].kind # "scalar"
       \/ ~AllOk(mapped)
    THEN Failed
    ELSE Ok([key \in ToSet(texts) |-> mapped[FirstOf(texts, key)].value])

LEMMA FromMapIs ==
  ASSUME NEW node, NEW element
  PROVE  FromMap(node, element) =
            MapOf(node, KeysOf(node), TextsOf(node),
                  [i \in DOMAIN node.entries |-> element[node.entries[i].value]])
<1>1. FromMap(node, element) =
         MapOf(node, KeysOf(node), [i \in DOMAIN KeysOf(node) |-> KeysOf(node)[i].text],
               [i \in DOMAIN KeysOf(node) |-> element[node.entries[i].value]])
  BY Zenon DEF FromMap, MapOf, KeysOf
<1>2. DOMAIN KeysOf(node) = DOMAIN node.entries
      /\ \A i \in DOMAIN node.entries : KeysOf(node)[i] = node.entries[i].key
  BY DEF KeysOf
<1>3. [i \in DOMAIN KeysOf(node) |-> KeysOf(node)[i].text] = TextsOf(node)
  BY <1>2 DEF TextsOf
<1>4. [i \in DOMAIN KeysOf(node) |-> element[node.entries[i].value]] =
         [i \in DOMAIN node.entries |-> element[node.entries[i].value]]
  BY <1>2
<1> QED
  BY <1>1, <1>3, <1>4, Zenon

\* What is read depends on the elements' readings only.
LEMMA FromContainerSame ==
  ASSUME NEW m, NEW container, NEW a, NEW b, \A x \in Inside(m) : a[x] = b[x]
  PROVE  FromContainer(m, container, a) = FromContainer(m, container, b)
<1>1. FromMap(m, a) = FromMap(m, b)
  <2>1. CASE m.kind # "map"
    BY <2>1 DEF FromMap
  <2>2. CASE m.kind = "map"
    <3>1. \A i \in DOMAIN m.entries : a[m.entries[i].value] = b[m.entries[i].value]
      BY <2>2, EntryInside
    <3>2. [i \in DOMAIN m.entries |-> a[m.entries[i].value]] = [i \in DOMAIN m.entries |-> b[m.entries[i].value]]
      BY <3>1
    <3> QED
      BY <3>2, FromMapIs, Zenon
  <2> QED
    BY <2>1, <2>2
<1>2. FromSequence(m, container, a) = FromSequence(m, container, b)
  <2>1. CASE m.kind # "sequence"
    BY <2>1 DEF FromSequence
  <2>2. CASE m.kind = "sequence"
    <3>1. \A i \in DOMAIN m.items : a[m.items[i]] = b[m.items[i]]
      BY <2>2, ItemInside
    <3>2. [i \in DOMAIN m.items |-> a[m.items[i]]] = [i \in DOMAIN m.items |-> b[m.items[i]]]
      BY <3>1
    <3> QED
      BY <3>2, Zenon DEF FromSequence
  <2> QED
    BY <2>1, <2>2
<1> QED
  BY <1>1, <1>2, Zenon DEF FromContainer

\* A level further down in a node is a level of the node inside.
LEMMA FromShift ==
  ASSUME NEW node, NEW type, IsType(type), type.containers # <<>>, NEW m \in Inside(node),
         NEW f, IsFromLevels(f, node, type), NEW g, IsFromLevels(g, m, Inner(type))
  PROVE  f[1][m] = g[0][m]
<1>1. PICK inner : inner = Inner(type)
  OBVIOUS
<1>2. PICK n \in Nat : IsInner(inner, type, n)
  BY <1>1, InnerTyped
<1>3. /\ Len(type.containers) = n + 1 /\ Len(inner.containers) = n /\ inner.scalar = type.scalar
      /\ \A k \in Nat : k < n => inner.containers[k + 1] = type.containers[k + 2]
  BY <1>2 DEF IsInner
<1>4. \A k \in Nat : Level(m, k) \subseteq Level(node, k + 1)
  BY LevelInside
<1> DEFINE Agrees(k) == \A x \in Level(m, k) : f[k + 1][x] = g[k][x]
           K == {j \in Nat : j <= n => Agrees(n - j)}
<1>5. Agrees(n)
  <2>1. ASSUME NEW x \in Level(m, n)
        PROVE  f[n + 1][x] = g[n][x]
    <3>1. x \in Level(node, n + 1)
      BY <1>4, <2>1
    <3>2. n + 1 \in 0 .. n + 1 /\ n \in 0 .. n
      OBVIOUS
    <3>3. f[n + 1][x] = FromScalar(x, type.scalar)
      BY <1>3, <3>1, <3>2, Zenon DEF IsFromLevels
    <3>4. g[n][x] = FromScalar(x, type.scalar)
      BY <1>1, <1>3, <3>2, Zenon DEF IsFromLevels
    <3> QED
      BY <3>3, <3>4
  <2> QED
    BY <2>1
<1>6. ASSUME NEW k \in Nat, k < n, Agrees(k + 1)
      PROVE  Agrees(k)
  <2>1. ASSUME NEW x \in Level(m, k)
        PROVE  f[k + 1][x] = g[k][x]
    <3>1. x \in Level(node, k + 1)
      BY <1>4, <2>1
    <3>2. /\ k + 1 \in 0 .. n + 1 /\ k \in 0 .. n /\ k # n /\ k + 1 # n + 1
          /\ k + 1 + 1 = k + 2 /\ k + 1 \in Nat
      BY <1>6
    <3>3. f[k + 1][x] = FromContainer(x, type.containers[k + 2], f[k + 2])
      BY <1>3, <3>1, <3>2, Zenon DEF IsFromLevels
    <3>4. g[k][x] = FromContainer(x, inner.containers[k + 1], g[k + 1])
      BY <1>1, <1>3, <3>2, Zenon DEF IsFromLevels
    <3>5. inner.containers[k + 1] = type.containers[k + 2]
      BY <1>3, <1>6
    <3>6. ASSUME NEW y \in Inside(x)
          PROVE  f[k + 2][y] = g[k + 1][y]
      <4>1. y \in Level(m, k + 1)
        BY LevelIn
      <4> QED
        BY <1>6, <3>2, <4>1
    <3>7. FromContainer(x, type.containers[k + 2], f[k + 2]) = FromContainer(x, type.containers[k + 2], g[k + 1])
      BY <3>6, FromContainerSame
    <3> QED
      BY <3>3, <3>4, <3>5, <3>7
  <2> QED
    BY <2>1
<1>7. 0 \in K
  <2>1. n - 0 = n
    OBVIOUS
  <2> QED
    BY <1>5, <2>1
<1>8. ASSUME NEW j \in Nat, j \in K
      PROVE  j + 1 \in K
  <2>1. SUFFICES ASSUME j + 1 <= n PROVE Agrees(n - (j + 1))
    OBVIOUS
  <2>2. PICK k \in Nat : k = n - (j + 1) /\ k + 1 = n - j /\ k < n
    BY <2>1
  <2>3. Agrees(k + 1)
    BY <1>8, <2>1, <2>2
  <2>4. Agrees(k)
    BY <1>6, <2>2, <2>3
  <2> QED
    BY <2>2, <2>4
<1>9. Nat \subseteq K
  <2> HIDE DEF K
  <2> QED
    BY <1>7, <1>8, SetInduction
<1>10. n \in K /\ n - n = 0
  BY <1>9
<1>11. Agrees(0)
  BY <1>10
<1>12. m \in Level(m, 0) /\ 0 + 1 = 1
  BY LevelStart
<1> QED
  BY <1>11, <1>12

\* The scalar type of a template reads the node itself.
LEMMA FromScalarIs ==
  ASSUME NEW node, NEW type, type.containers = <<>>
  PROVE  FromNode(node, type) = FromScalar(node, type.scalar)
<1>1. Len(type.containers) = 0
  OBVIOUS
<1>2. PICK f : IsFromLevels(f, node, type) /\ FromNode(node, type) = f[0][node]
  BY <1>1, FromNodeLevels
<1>3. node \in Level(node, 0) /\ 0 \in 0 .. 0
  BY LevelStart
<1> QED
  BY <1>1, <1>2, <1>3, Zenon DEF IsFromLevels

\* f reads the nodes of a set as elements of the type.
ReadsInside(f, nodes, type) == \A m \in nodes : f[m] = FromNode(m, type)

\* The outermost container of a type reads the nodes inside by the inner type.
LEMMA FromContainerIs ==
  ASSUME NEW node, NEW type, IsType(type), type.containers # <<>>
  PROVE  \E f : /\ ReadsInside(f, Inside(node), Inner(type))
                /\ FromNode(node, type) = FromContainer(node, type.containers[1], f)
<1>1. /\ Len(type.containers) \in Nat \ {0} /\ Len(Inner(type).containers) \in Nat
  <2>1. PICK n \in Nat : IsInner(Inner(type), type, n)
    BY InnerTyped
  <2>2. Len(type.containers) = n + 1 /\ Len(Inner(type).containers) = n
    BY <2>1 DEF IsInner
  <2> QED
    BY <2>2
<1>2. PICK f : IsFromLevels(f, node, type) /\ FromNode(node, type) = f[0][node]
  BY <1>1, FromNodeLevels
<1>3. node \in Level(node, 0) /\ 0 \in 0 .. Len(type.containers) /\ Len(type.containers) # 0 /\ 0 + 1 = 1
  BY <1>1, LevelStart
<1>4. f[0][node] = FromContainer(node, type.containers[1], f[1])
  BY <1>2, <1>3, Zenon DEF IsFromLevels
<1>5. ASSUME NEW m \in Inside(node)
      PROVE  f[1][m] = FromNode(m, Inner(type))
  <2>1. PICK g : IsFromLevels(g, m, Inner(type)) /\ FromNode(m, Inner(type)) = g[0][m]
    BY <1>1, FromNodeLevels
  <2>2. f[1][m] = g[0][m]
    BY <1>2, <2>1, FromShift
  <2> QED
    BY <2>1, <2>2
<1> QED
  BY <1>2, <1>4, <1>5, Zenon DEF ReadsInside

-----------------------------------------------------------------------------
(* The parts of a value.                                                   *)

IsParts(f, v, s, k) ==
    f = [j \in 0 .. k |-> IF j = 0 THEN {v} ELSE UNION {Elements(x, s[j]) : x \in f[j - 1]}]

LEMMA PartsExists ==
  ASSUME NEW v, NEW s, NEW k \in Nat
  PROVE  \E f : IsParts(f, v, s, k)
<1> DEFINE K == {n \in Nat : \E f : IsParts(f, v, s, n)}
<1>1. 0 \in K
  <2>1. IsParts([j \in 0 .. 0 |-> {v}], v, s, 0)
    BY DEF IsParts
  <2> QED
    BY <2>1
<1>2. ASSUME NEW n \in Nat, n \in K
      PROVE  n + 1 \in K
  <2>1. PICK f : IsParts(f, v, s, n)
    BY <1>2
  <2>2. PICK g : g = [j \in 0 .. n + 1 |-> IF j = n + 1 THEN UNION {Elements(x, s[n + 1]) : x \in f[n]} ELSE f[j]]
    OBVIOUS
  <2>3. ASSUME NEW j \in 0 .. n + 1
        PROVE  g[j] = IF j = 0 THEN {v} ELSE UNION {Elements(x, s[j]) : x \in g[j - 1]}
    <3>1. CASE j = n + 1
      <4>1. g[j] = UNION {Elements(x, s[n + 1]) : x \in f[n]} /\ g[n] = f[n] /\ j # 0 /\ j - 1 = n
        BY <2>2, <3>1
      <4> QED
        BY <4>1
    <3>2. CASE j # n + 1
      <4>1. j \in 0 .. n /\ g[j] = f[j]
        BY <2>2, <3>2
      <4>2. j # 0 => g[j - 1] = f[j - 1]
        BY <2>2, <4>1
      <4>3. f[j] = IF j = 0 THEN {v} ELSE UNION {Elements(x, s[j]) : x \in f[j - 1]}
        BY <2>1, <4>1 DEF IsParts
      <4> QED
        BY <4>1, <4>2, <4>3
    <3> QED
      BY <3>1, <3>2
  <2>4. g = [j \in 0 .. n + 1 |-> IF j = 0 THEN {v} ELSE UNION {Elements(x, s[j]) : x \in g[j - 1]}]
    BY <2>2, <2>3
  <2>5. IsParts(g, v, s, n + 1)
    BY <2>4, Zenon DEF IsParts
  <2> QED
    BY <2>5
<1>3. Nat \subseteq K
  <2> HIDE DEF K
  <2> QED
    BY <1>1, <1>2, SetInduction
<1> QED
  BY <1>3

LEMMA PartsStep ==
  ASSUME NEW v, NEW s, NEW k \in Nat, NEW f, IsParts(f, v, s, k), NEW j \in Nat, j < k
  PROVE  \A y : y \in f[j + 1] <=> \E x \in f[j] : y \in Elements(x, s[j + 1])
<1>1. PICK i \in 1 .. k : i = j + 1 /\ i - 1 = j
  <2>1. j + 1 \in 1 .. k /\ j + 1 - 1 = j
    OBVIOUS
  <2> QED
    BY <2>1
<1>2. f[i] = IF i = 0 THEN {v} ELSE UNION {Elements(x, s[i]) : x \in f[i - 1]}
  <2>1. i \in 0 .. k
    OBVIOUS
  <2> QED
    BY <2>1, Zenon DEF IsParts
<1>3. i # 0
  OBVIOUS
<1>4. f[i] = UNION {Elements(x, s[i]) : x \in f[j]}
  BY <1>1, <1>2, <1>3
<1>5. \A y : y \in f[i] <=> \E x \in f[j] : y \in Elements(x, s[i])
  BY <1>4, Zenon
<1> QED
  BY <1>1, <1>5

LEMMA PartsIs ==
  ASSUME NEW v, NEW s, NEW k \in Nat
  PROVE  \E f : IsParts(f, v, s, k) /\ Parts(v, s, k) = f[k]
<1>1. PICK f : f = CHOOSE g : IsParts(g, v, s, k)
  OBVIOUS
<1>2. IsParts(f, v, s, k)
  BY <1>1, PartsExists
<1>3. Parts(v, s, k) = f[k]
  BY <1>1 DEF Parts, IsParts
<1> QED
  BY <1>2, <1>3

LEMMA PartsUnique ==
  ASSUME NEW v, NEW s, NEW k \in Nat, NEW n \in Nat, NEW f, NEW g,
         IsParts(f, v, s, k), IsParts(g, v, s, n)
  PROVE  \A j \in Nat : j <= k /\ j <= n => f[j] = g[j]
<1> DEFINE K == {j \in Nat : j <= k /\ j <= n => f[j] = g[j]}
<1>1. 0 \in K
  BY DEF IsParts
<1>2. ASSUME NEW j \in Nat, j \in K
      PROVE  j + 1 \in K
  <2>1. SUFFICES ASSUME j + 1 <= k, j + 1 <= n
                 PROVE  f[j + 1] = g[j + 1]
    OBVIOUS
  <2>4. j < k /\ j < n
    BY <2>1
  <2>2. \A y : y \in f[j + 1] <=> \E x \in f[j] : y \in Elements(x, s[j + 1])
    BY <2>4, PartsStep
  <2>3. \A y : y \in g[j + 1] <=> \E x \in g[j] : y \in Elements(x, s[j + 1])
    BY <2>4, PartsStep
  <2>5. f[j] = g[j]
    BY <1>2, <2>4
  <2> QED
    BY <2>2, <2>3, <2>5, Zenon
<1>3. Nat \subseteq K
  <2> HIDE DEF K
  <2> QED
    BY <1>1, <1>2, SetInduction
<1> QED
  BY <1>3

LEMMA PartsStart ==
  ASSUME NEW v, NEW s
  PROVE  Parts(v, s, 0) = {v}
<1>1. PICK f : IsParts(f, v, s, 0) /\ Parts(v, s, 0) = f[0]
  BY PartsIs
<1>2. f[0] = {v}
  BY <1>1 DEF IsParts
<1> QED
  BY <1>1, <1>2

LEMMA PartsNext ==
  ASSUME NEW v, NEW s, NEW k \in Nat
  PROVE  \A y : y \in Parts(v, s, k + 1) <=> \E x \in Parts(v, s, k) : y \in Elements(x, s[k + 1])
<1>1. PICK g : IsParts(g, v, s, k) /\ Parts(v, s, k) = g[k]
  BY PartsIs
<1>2. PICK h : IsParts(h, v, s, k + 1) /\ Parts(v, s, k + 1) = h[k + 1]
  BY PartsIs
<1>5. k + 1 \in Nat /\ k < k + 1
  OBVIOUS
<1>3. \A y : y \in h[k + 1] <=> \E x \in h[k] : y \in Elements(x, s[k + 1])
  BY <1>2, <1>5, PartsStep, Zenon
<1>4. h[k] = g[k]
  BY <1>1, <1>2, PartsUnique
<1> QED
  BY <1>1, <1>2, <1>3, <1>4, Zenon

\* t are the containers inside the outermost of s.
IsTail(t, s, n) == \A k \in Nat : k < n => t[k + 1] = s[k + 2]

\* The parts of a value are those of its elements.
LEMMA PartsInside ==
  ASSUME NEW v, NEW s, NEW t, NEW n \in Nat, IsTail(t, s, n)
  PROVE  \A k \in Nat : k <= n =>
            \A y : y \in Parts(v, s, k + 1) <=> \E x \in Elements(v, s[1]) : y \in Parts(x, t, k)
<1> DEFINE Split(k) == \A y : y \in Parts(v, s, k + 1) <=> \E x \in Elements(v, s[1]) : y \in Parts(x, t, k)
           K == {k \in Nat : k <= n => Split(k)}
<1>1. 0 \in K
  <2>1. \A y : y \in Parts(v, s, 0 + 1) <=> \E x \in Parts(v, s, 0) : y \in Elements(x, s[0 + 1])
    BY PartsNext
  <2>2. Parts(v, s, 0) = {v} /\ 0 + 1 = 1
    BY PartsStart
  <2>3. Parts(v, s, 0 + 1) = Elements(v, s[1])
    BY <2>1, <2>2
  <2>4. \A x : Parts(x, t, 0) = {x}
    BY PartsStart
  <2>5. Split(0)
    BY <2>3, <2>4
  <2> QED
    BY <2>5
<1>2. ASSUME NEW k \in Nat, k \in K
      PROVE  k + 1 \in K
  <2>1. SUFFICES ASSUME k + 1 <= n PROVE Split(k + 1)
    OBVIOUS
  <2>2. Split(k) /\ k < n
    BY <1>2, <2>1
  <2>3. t[k + 1] = s[k + 2] /\ k + 1 + 1 = k + 2
    BY <2>2 DEF IsTail
  <2>4. ASSUME NEW y
        PROVE  y \in Parts(v, s, k + 1 + 1) <=> \E x \in Parts(v, s, k + 1) : y \in Elements(x, s[k + 2])
    <3>1. y \in Parts(v, s, k + 1 + 1) <=> \E x \in Parts(v, s, k + 1) : y \in Elements(x, s[k + 1 + 1])
      BY PartsNext
    <3> QED
      BY <2>3, <3>1, Zenon
  <2>5. ASSUME NEW y, NEW x
        PROVE  y \in Parts(x, t, k + 1) <=> \E z \in Parts(x, t, k) : y \in Elements(z, s[k + 2])
    <3>1. y \in Parts(x, t, k + 1) <=> \E z \in Parts(x, t, k) : y \in Elements(z, t[k + 1])
      BY PartsNext
    <3> QED
      BY <2>3, <3>1, Zenon
  <2> QED
    BY <2>2, <2>4, <2>5, Zenon
<1>3. Nat \subseteq K
  <2> HIDE DEF K
  <2> QED
    BY <1>1, <1>2, SetInduction
<1> QED
  BY <1>3

-----------------------------------------------------------------------------
(* ToNode, one container at a time.                                        *)

\* One level of to.
ToAt(v, type, k, next) ==
    [x \in Parts(v, type.containers, k) |->
        IF k = Len(type.containers) THEN ScalarToNode(x, type.scalar)
        ELSE ContainerToNode(x, type.containers[k + 1], next)]

IsTo(f, v, type, d) ==
    f = [k \in d .. Len(type.containers) |-> ToAt(v, type, k, f[k + 1])]

LEMMA ToExists ==
  ASSUME NEW v, NEW type, Len(type.containers) \in Nat
  PROVE  \E f : IsTo(f, v, type, 0)
<1>0. PICK L \in Nat : L = Len(type.containers)
  OBVIOUS
<1> DEFINE K == {k \in Nat : k <= L => \E f : IsTo(f, v, type, L - k)}
<1>1. 0 \in K
  <2>3. PICK f : f = [k \in L .. L |-> [x \in Parts(v, type.containers, k) |-> ScalarToNode(x, type.scalar)]]
    OBVIOUS
  <2>4. ASSUME NEW k \in L .. L
        PROVE  f[k] = ToAt(v, type, k, f[k + 1])
    <3>1. k = Len(type.containers)
      BY <1>0
    <3>2. f[k] = [x \in Parts(v, type.containers, k) |-> ScalarToNode(x, type.scalar)]
      BY <2>3
    <3> QED
      BY <3>1, <3>2, Zenon DEF ToAt
  <2>5. IsTo(f, v, type, L)
    BY <1>0, <2>3, <2>4 DEF IsTo
  <2>6. L - 0 = L
    BY <1>0
  <2> QED
    BY <2>5, <2>6
<1>2. ASSUME NEW k \in Nat, k \in K
      PROVE  k + 1 \in K
  <2>1. SUFFICES ASSUME k + 1 <= L
                 PROVE  \E g : IsTo(g, v, type, L - (k + 1))
    OBVIOUS
  <2>2. PICK d \in Nat : d = L - (k + 1) /\ d + 1 = L - k /\ d < L
    BY <2>1
  <2>3. PICK f : IsTo(f, v, type, d + 1)
    BY <1>0, <1>2, <2>1, <2>2
  <2>4. PICK g : g = [j \in d .. L |-> IF j = d THEN ToAt(v, type, d, f[d + 1]) ELSE f[j]]
    OBVIOUS
  <2>5. ASSUME NEW j \in d .. L
        PROVE  g[j] = ToAt(v, type, j, g[j + 1])
    <3>1. CASE j = d
      <4>1. g[j] = ToAt(v, type, d, f[d + 1]) /\ g[d + 1] = f[d + 1]
        BY <1>0, <2>2, <2>4, <3>1
      <4> QED
        BY <3>1, <4>1
    <3>2. CASE j # d
      <4>1. j \in d + 1 .. L /\ g[j] = f[j]
        BY <1>0, <2>2, <2>4, <3>2
      <4>2. f[j] = ToAt(v, type, j, f[j + 1])
        BY <1>0, <2>3, <4>1 DEF IsTo
      <4>3. CASE j = L
        BY <1>0, <4>1, <4>2, <4>3, Zenon DEF ToAt
      <4>4. CASE j # L
        <5>1. j + 1 \in d .. L /\ j + 1 # d
          BY <1>0, <2>2, <4>1, <4>4
        <5>2. g[j + 1] = f[j + 1]
          BY <2>4, <5>1
        <5> QED
          BY <4>1, <4>2, <5>2
      <4> QED
        BY <4>3, <4>4
    <3> QED
      BY <3>1, <3>2
  <2>6. IsTo(g, v, type, d)
    BY <1>0, <2>4, <2>5 DEF IsTo
  <2> QED
    BY <2>2, <2>6
<1>3. Nat \subseteq K
  <2> HIDE DEF K
  <2> QED
    BY <1>1, <1>2, SetInduction
<1>4. L \in K /\ L - L = 0
  BY <1>0, <1>3
<1> QED
  BY <1>0, <1>4

\* What ToNode does at each level.
IsToLevels(f, v, type) ==
    \A k \in 0 .. Len(type.containers) : \A x \in Parts(v, type.containers, k) :
        f[k][x] = IF k = Len(type.containers) THEN ScalarToNode(x, type.scalar)
                  ELSE ContainerToNode(x, type.containers[k + 1], f[k + 1])

LEMMA ToNodeLevels ==
  ASSUME NEW v, NEW type, Len(type.containers) \in Nat
  PROVE  \E f : IsToLevels(f, v, type) /\ ToNode(v, type) = f[0][v]
<1>1. PICK f : f = CHOOSE g : IsTo(g, v, type, 0)
  OBVIOUS
<1>2. IsTo(f, v, type, 0)
  BY <1>1, ToExists, Zenon
<1>3. f = CHOOSE to : to = [k \in 0 .. Len(type.containers) |->
            [x \in Parts(v, type.containers, k) |->
                IF k = Len(type.containers) THEN ScalarToNode(x, type.scalar)
                ELSE ContainerToNode(x, type.containers[k + 1], to[k + 1])]]
  BY <1>1 DEF IsTo, ToAt
<1>4. ToNode(v, type) = f[0][v]
  BY <1>3 DEF ToNode
<1>5. ASSUME NEW k \in 0 .. Len(type.containers), NEW x \in Parts(v, type.containers, k)
      PROVE  f[k][x] = IF k = Len(type.containers) THEN ScalarToNode(x, type.scalar)
                       ELSE ContainerToNode(x, type.containers[k + 1], f[k + 1])
  <2>1. f[k] = ToAt(v, type, k, f[k + 1])
    BY <1>2 DEF IsTo
  <2> QED
    BY <2>1 DEF ToAt
<1> QED
  BY <1>4, <1>5, Zenon DEF IsToLevels

\* SetToSeq lists a finite set, each element once.
LEMMA SetToSeqIs ==
  ASSUME NEW S, IsFiniteSet(S)
  PROVE  \E n \in Nat : /\ SetToSeq(S) \in [1 .. n -> S]
                        /\ IsInjective(SetToSeq(S))
                        /\ \A x \in S : \E i \in 1 .. n : SetToSeq(S)[i] = x
<1>1. PICK n \in Nat : n = Cardinality(S) /\ ExistsBijection(1 .. n, S)
  BY FS_CardinalityType
<1>2. PICK f \in Bijection(1 .. n, S) : TRUE
  BY <1>1 DEF ExistsBijection
<1>3. f \in [1 .. n -> S] /\ IsInjective(f)
  BY <1>2 DEF Bijection, Injection, IsInjective
<1>4. PICK q : q = SetToSeq(S)
  OBVIOUS
<1>5. q = CHOOSE g \in [1 .. n -> S] : IsInjective(g)
  BY <1>1, <1>4 DEF SetToSeq
<1>6. q \in [1 .. n -> S] /\ IsInjective(q)
  BY <1>3, <1>5, Zenon
<1>7. q \in Injection(1 .. n, S)
  BY <1>6 DEF Injection, IsInjective
<1>8. IsFiniteSet(1 .. n) /\ Cardinality(1 .. n) = n
  BY FS_Interval
<1>9. q \in Surjection(1 .. n, S)
  BY <1>1, <1>7, <1>8, FS_Injection, Zenon
<1>10. \A x \in S : \E i \in 1 .. n : q[i] = x
  BY <1>9 DEF Surjection
<1> QED
  BY <1>4, <1>6, <1>10, Zenon

\* A set, and the keys of a map, are finite.
Orderly(x, container) ==
    /\ container = "set" => IsFiniteSet(x)
    /\ container = "map" => IsFiniteSet(DOMAIN x)

\* What is written depends on what is written for the elements only.
LEMMA ContainerToNodeSame ==
  ASSUME NEW v, NEW container, Orderly(v, container), NEW a, NEW b,
         \A x \in Elements(v, container) : a[x] = b[x]
  PROVE  ContainerToNode(v, container, a) = ContainerToNode(v, container, b)
<1>1. CASE container = "map"
  <2>1. PICK keys : keys = SetToSeq(DOMAIN v)
    OBVIOUS
  <2>2. PICK n \in Nat : keys \in [1 .. n -> DOMAIN v]
    BY <1>1, <2>1, SetToSeqIs DEF Orderly
  <2>3. \A i \in DOMAIN keys : v[keys[i]] \in Elements(v, container)
    BY <1>1, <2>2 DEF Elements
  <2>4. \A i \in DOMAIN keys : a[v[keys[i]]] = b[v[keys[i]]]
    BY <2>3
  <2>5. [i \in DOMAIN keys |-> [key |-> [kind |-> "scalar", text |-> keys[i]], value |-> a[v[keys[i]]]]]
      = [i \in DOMAIN keys |-> [key |-> [kind |-> "scalar", text |-> keys[i]], value |-> b[v[keys[i]]]]]
    BY <2>4
  <2> QED
    BY <1>1, <2>1, <2>5, Zenon DEF ContainerToNode
<1>2. CASE container # "map"
  <2>1. PICK members : members = IF container = "set" THEN SetToSeq(v) ELSE v
    OBVIOUS
  <2>2. ASSUME NEW i \in DOMAIN members
        PROVE  members[i] \in Elements(v, container)
    <3>1. CASE container = "set"
      <4>1. PICK n \in Nat : SetToSeq(v) \in [1 .. n -> v]
        BY <3>1, SetToSeqIs DEF Orderly
      <4>2. members[i] \in v
        BY <2>1, <3>1, <4>1
      <4> QED
        BY <3>1, <4>2 DEF Elements
    <3>2. CASE container # "set"
      BY <2>1, <3>2 DEF Elements
    <3> QED
      BY <3>1, <3>2
  <2>3. [i \in DOMAIN members |-> a[members[i]]] = [i \in DOMAIN members |-> b[members[i]]]
    BY <2>2
  <2> QED
    BY <1>2, <2>1, <2>3, Zenon DEF ContainerToNode
<1> QED
  BY <1>1, <1>2

\* Every container inside a value is finite.
IsWritable(v, s, n) ==
    \A k \in Nat : k < n => \A x \in Parts(v, s, k) : Orderly(x, s[k + 1])

LEMMA WritableEach ==
  ASSUME NEW v, NEW s, NEW t, NEW n \in Nat, IsTail(t, s, n), Orderly(v, s[1]),
         \A x \in Elements(v, s[1]) : IsWritable(x, t, n)
  PROVE  IsWritable(v, s, n + 1)
<1>1. ASSUME NEW k \in Nat, k < n + 1, NEW y \in Parts(v, s, k)
      PROVE  Orderly(y, s[k + 1])
  <2>1. CASE k = 0
    <3>1. y = v /\ 0 + 1 = 1
      BY <2>1, PartsStart
    <3> QED
      BY <2>1, <3>1
  <2>2. CASE k # 0
    <3>1. PICK j \in Nat : k = j + 1 /\ j < n /\ j <= n /\ k + 1 = j + 2
      <4>1. k - 1 \in Nat /\ k = (k - 1) + 1 /\ k - 1 < n /\ k - 1 <= n /\ k + 1 = (k - 1) + 2
        BY <1>1, <2>2
      <4> QED
        BY <4>1
    <3>2. y \in Parts(v, s, j + 1)
      BY <3>1
    <3>3. PICK x \in Elements(v, s[1]) : y \in Parts(x, t, j)
      BY <3>1, <3>2, PartsInside
    <3>4. Orderly(y, t[j + 1])
      BY <3>1, <3>3 DEF IsWritable
    <3>5. t[j + 1] = s[j + 2]
      BY <3>1 DEF IsTail
    <3> QED
      BY <3>1, <3>4, <3>5
  <2> QED
    BY <2>1, <2>2
<1> QED
  BY <1>1, Zenon DEF IsWritable

\* The parts of an element are written as parts of the value.
LEMMA ToShift ==
  ASSUME NEW v, NEW type, NEW inner, NEW n \in Nat, IsInner(inner, type, n),
         IsWritable(v, type.containers, n + 1),
         NEW m \in Elements(v, type.containers[1]),
         NEW f, IsToLevels(f, v, type), NEW g, IsToLevels(g, m, inner)
  PROVE  f[1][m] = g[0][m]
<1>3. /\ Len(type.containers) = n + 1 /\ Len(inner.containers) = n /\ inner.scalar = type.scalar
      /\ \A k \in Nat : k < n => inner.containers[k + 1] = type.containers[k + 2]
  BY DEF IsInner
<1>4. \A k \in Nat : k <= n =>
         \A x \in Parts(m, inner.containers, k) : x \in Parts(v, type.containers, k + 1)
  <2>1. IsTail(inner.containers, type.containers, n)
    BY <1>3, Zenon DEF IsTail
  <2> QED
    BY <2>1, PartsInside, Zenon
<1> DEFINE Agrees(k) == \A x \in Parts(m, inner.containers, k) : f[k + 1][x] = g[k][x]
           K == {j \in Nat : j <= n => Agrees(n - j)}
<1>5. Agrees(n)
  <2>1. ASSUME NEW x \in Parts(m, inner.containers, n)
        PROVE  f[n + 1][x] = g[n][x]
    <3>2. n + 1 \in 0 .. n + 1 /\ n \in 0 .. n /\ n <= n
      OBVIOUS
    <3>1. x \in Parts(v, type.containers, n + 1)
      BY <1>4, <2>1, <3>2
    <3>3. f[n + 1][x] = ScalarToNode(x, type.scalar)
      BY <1>3, <3>1, <3>2, Zenon DEF IsToLevels
    <3>4. g[n][x] = ScalarToNode(x, type.scalar)
      BY <1>3, <3>2, Zenon DEF IsToLevels
    <3> QED
      BY <3>3, <3>4
  <2> QED
    BY <2>1
<1>6. ASSUME NEW k \in Nat, k < n, Agrees(k + 1)
      PROVE  Agrees(k)
  <2>1. ASSUME NEW x \in Parts(m, inner.containers, k)
        PROVE  f[k + 1][x] = g[k][x]
    <3>2. /\ k + 1 \in 0 .. n + 1 /\ k \in 0 .. n /\ k # n /\ k + 1 # n + 1
          /\ k + 1 + 1 = k + 2 /\ k + 1 \in Nat /\ k <= n /\ k + 1 < n + 1
      BY <1>6
    <3>1. x \in Parts(v, type.containers, k + 1)
      BY <1>4, <2>1, <3>2
    <3>3. f[k + 1][x] = ContainerToNode(x, type.containers[k + 2], f[k + 2])
      BY <1>3, <3>1, <3>2, Zenon DEF IsToLevels
    <3>4. g[k][x] = ContainerToNode(x, inner.containers[k + 1], g[k + 1])
      BY <1>3, <3>2, Zenon DEF IsToLevels
    <3>5. inner.containers[k + 1] = type.containers[k + 2]
      BY <1>3, <1>6
    <3>6. ASSUME NEW y \in Elements(x, type.containers[k + 2])
          PROVE  f[k + 2][y] = g[k + 1][y]
      <4>1. y \in Parts(m, inner.containers, k + 1)
        BY <2>1, <3>5, <3>6, PartsNext, Zenon
      <4> QED
        BY <1>6, <3>2, <4>1
    <3>7. Orderly(x, type.containers[k + 2])
      BY <3>1, <3>2, Zenon DEF IsWritable
    <3>8. ContainerToNode(x, type.containers[k + 2], f[k + 2]) = ContainerToNode(x, type.containers[k + 2], g[k + 1])
      BY <3>6, <3>7, ContainerToNodeSame
    <3> QED
      BY <3>3, <3>4, <3>5, <3>8
  <2> QED
    BY <2>1
<1>7. 0 \in K
  <2>1. n - 0 = n
    OBVIOUS
  <2> QED
    BY <1>5, <2>1
<1>8. ASSUME NEW j \in Nat, j \in K
      PROVE  j + 1 \in K
  <2>1. SUFFICES ASSUME j + 1 <= n PROVE Agrees(n - (j + 1))
    OBVIOUS
  <2>2. PICK k \in Nat : k = n - (j + 1) /\ k + 1 = n - j /\ k < n
    BY <2>1
  <2>3. Agrees(k + 1)
    BY <1>8, <2>1, <2>2
  <2>4. Agrees(k)
    BY <1>6, <2>2, <2>3
  <2> QED
    BY <2>2, <2>4
<1>9. Nat \subseteq K
  <2> HIDE DEF K
  <2> QED
    BY <1>7, <1>8, SetInduction
<1>10. n \in K /\ n - n = 0
  BY <1>9
<1>11. Agrees(0)
  BY <1>10
<1>12. m \in Parts(m, inner.containers, 0) /\ 0 + 1 = 1
  BY PartsStart
<1> QED
  BY <1>11, <1>12

\* A type without containers writes a scalar.
LEMMA ToScalarIs ==
  ASSUME NEW v, NEW type, type.containers = <<>>
  PROVE  ToNode(v, type) = ScalarToNode(v, type.scalar)
<1>1. Len(type.containers) = 0
  OBVIOUS
<1>2. PICK f : IsToLevels(f, v, type) /\ ToNode(v, type) = f[0][v]
  BY <1>1, ToNodeLevels
<1>3. v \in Parts(v, type.containers, 0) /\ 0 \in 0 .. 0
  BY PartsStart
<1> QED
  BY <1>1, <1>2, <1>3, Zenon DEF IsToLevels

\* f writes the values of a set as elements of the type.
WritesInside(f, values, type) == \A x \in values : f[x] = ToNode(x, type)

\* The outermost container of a type writes the elements by the inner type.
LEMMA ToContainerIs ==
  ASSUME NEW v, NEW type, NEW inner, NEW n \in Nat, IsInner(inner, type, n),
         IsWritable(v, type.containers, n + 1)
  PROVE  \E f : /\ WritesInside(f, Elements(v, type.containers[1]), inner)
                /\ ToNode(v, type) = ContainerToNode(v, type.containers[1], f)
<1>1. Len(type.containers) = n + 1 /\ Len(inner.containers) = n
  BY DEF IsInner
<1>2. PICK f : IsToLevels(f, v, type) /\ ToNode(v, type) = f[0][v]
  BY <1>1, ToNodeLevels
<1>3. v \in Parts(v, type.containers, 0) /\ 0 \in 0 .. n + 1 /\ n + 1 # 0 /\ 0 + 1 = 1
  BY <1>1, PartsStart
<1>4. f[0][v] = ContainerToNode(v, type.containers[1], f[1])
  BY <1>1, <1>2, <1>3, Zenon DEF IsToLevels
<1>5. ASSUME NEW m \in Elements(v, type.containers[1])
      PROVE  f[1][m] = ToNode(m, inner)
  <2>1. PICK g : IsToLevels(g, m, inner) /\ ToNode(m, inner) = g[0][m]
    BY <1>1, ToNodeLevels
  <2>2. f[1][m] = g[0][m]
    BY <1>2, <2>1, ToShift
  <2> QED
    BY <2>1, <2>2
<1> QED
  BY <1>2, <1>4, <1>5, Zenon DEF WritesInside

-----------------------------------------------------------------------------
(* What is read is finite, and its elements were read.                     *)

\* A result is Failed, or a value.
IsResult(result) == result = Failed \/ \E v : result = Ok(v)

LEMMA ResultIs ==
  ASSUME NEW result, IsResult(result), result.ok
  PROVE  result = Ok(result.value)
<1>1. result # Failed
  BY ResultFields, Zenon
<1>2. PICK v : result = Ok(v)
  BY <1>1 DEF IsResult
<1> QED
  BY <1>2, ResultFields, Zenon

LEMMA OkSame ==
  ASSUME NEW v, NEW w, Ok(v) = Ok(w)
  PROVE  v = w
BY ResultFields, Zenon

LEMMA OkFailed ==
  ASSUME NEW v
  PROVE  Ok(v) # Failed
BY ResultFields, Zenon

LEMMA ScalarResult ==
  ASSUME NEW node, NEW type, IsType(type)
  PROVE  IsResult(FromScalar(node, type.scalar))
<1>1. PICK scalar : scalar = type.scalar
  OBVIOUS
<1>2. scalar.kind \in {"bool", "string", "int"}
  BY <1>1 DEF IsType
<1>3. IsResult(Failed)
  BY DEF IsResult
<1>4. IsResult(Ok(node.text)) /\ IsResult(Ok(TRUE)) /\ IsResult(Ok(FALSE))
  BY DEF IsResult
<1>5. IsResult(ParseBool(node.text))
  BY <1>3, <1>4, Zenon DEF ParseBool
<1>6. \A text, base : IsResult(FromChars(text, base, scalar))
  BY Zenon DEF IsResult, FromChars
<1>7. IsResult(ParseArithmetic(node.text, scalar))
  BY <1>3, <1>6, Zenon DEF ParseArithmetic
<1>8. CASE node.kind # "scalar"
  BY <1>1, <1>3, <1>8, Zenon DEF FromScalar
<1>9. CASE node.kind = "scalar"
  <2>1. CASE scalar.kind = "bool"
    <3>1. FromScalar(node, scalar) = ParseBool(node.text)
      BY <1>9, <2>1 DEF FromScalar
    <3> QED
      BY <1>1, <1>5, <3>1
  <2>2. CASE scalar.kind = "string"
    <3>1. FromScalar(node, scalar) = Ok(node.text)
      BY <1>9, <2>2 DEF FromScalar
    <3> QED
      BY <1>1, <1>4, <3>1
  <2>3. CASE scalar.kind = "int"
    <3>1. FromScalar(node, scalar) = ParseArithmetic(node.text, scalar)
      BY <1>9, <2>3 DEF FromScalar
    <3> QED
      BY <1>1, <1>7, <3>1
  <2> QED
    BY <1>2, <2>1, <2>2, <2>3
<1> QED
  BY <1>8, <1>9

LEMMA FromNodeResult ==
  ASSUME NEW node, NEW type, IsType(type)
  PROVE  IsResult(FromNode(node, type))
<1>1. CASE type.containers = <<>>
  BY <1>1, FromScalarIs, ScalarResult, Zenon
<1>2. CASE type.containers # <<>>
  <2>1. PICK f : FromNode(node, type) = FromContainer(node, type.containers[1], f)
    BY <1>2, FromContainerIs, Zenon
  <2>2. IsResult(FromSequence(node, type.containers[1], f))
    BY Zenon DEF IsResult, FromSequence
  <2>3. IsResult(FromMap(node, f))
    BY Zenon DEF IsResult, FromMap
  <2> QED
    BY <2>1, <2>2, <2>3, Zenon DEF FromContainer
<1> QED
  BY <1>1, <1>2

\* v was read from a node.
IsReadAs(v, type) == \E node \in Nodes : FromNode(node, type) = Ok(v)

\* v is a value of a container.
IsHeld(v, container) ==
    /\ Orderly(v, container)
    /\ container # "set" => v = [i \in DOMAIN v |-> v[i]]

LEMMA ToSetFinite ==
  ASSUME NEW q, NEW n \in Nat, DOMAIN q = 1 .. n
  PROVE  IsFiniteSet(ToSet(q))
<1>1. PICK g : g = [i \in 1 .. n |-> q[i]]
  OBVIOUS
<1>2. g \in Surjection(1 .. n, ToSet(q))
  BY <1>1 DEF Surjection, ToSet
<1>3. IsFiniteSet(1 .. n)
  BY FS_Interval
<1> QED
  BY <1>2, <1>3, FS_Surjection, Zenon

LEMMA ItemsTyped ==
  ASSUME NEW node \in Nodes, node.kind = "sequence"
  PROVE  \E n \in Nat : DOMAIN node.items = 1 .. n /\ \A i \in 1 .. n : node.items[i] \in Nodes
<1>1. AreNodes(Nodes)
  BY NodesAssumption
<1>2. node.items \in Seq(Nodes)
  BY <1>1 DEF AreNodes
<1> QED
  BY <1>2

LEMMA EntriesDomain ==
  ASSUME NEW node \in Nodes, node.kind = "map"
  PROVE  \E n \in Nat : DOMAIN node.entries = 1 .. n /\ \A i \in 1 .. n : node.entries[i].value \in Nodes
<1>1. PICK E : E = [key : Nodes, value : Nodes]
  OBVIOUS
<1>2. node.entries \in Seq(E)
  BY <1>1, MapNodes
<1>3. PICK n \in Nat : DOMAIN node.entries = 1 .. n
  BY <1>2
<1>4. \A i \in 1 .. n : node.entries[i].value \in Nodes
  BY <1>3, EntriesTyped DEF EntriesOf
<1> QED
  BY <1>3, <1>4

LEMMA SequenceRead ==
  ASSUME NEW node \in Nodes, NEW container \in {"list", "set"}, NEW f, NEW v,
         FromSequence(node, container, f) = Ok(v),
         NEW inner, IsType(inner), ReadsInside(f, Inside(node), inner)
  PROVE  IsHeld(v, container) /\ \A x \in Elements(v, container) : IsReadAs(x, inner)
<1>1. PICK items : items = [i \in DOMAIN node.items |-> f[node.items[i]]]
  OBVIOUS
<1>2. /\ node.kind = "sequence" /\ AllOk(items)
      /\ v = IF container = "set" THEN ToSet(Values(items)) ELSE Values(items)
  <2>1. FromSequence(node, container, f) =
           IF node.kind # "sequence" \/ ~AllOk(items) THEN Failed
           ELSE Ok(IF container = "set" THEN ToSet(Values(items)) ELSE Values(items))
    BY <1>1, Zenon DEF FromSequence
  <2>2. node.kind = "sequence" /\ AllOk(items)
    BY <2>1, OkFailed, Zenon
  <2>3. Ok(v) = Ok(IF container = "set" THEN ToSet(Values(items)) ELSE Values(items))
    BY <2>1, <2>2, Zenon
  <2> QED
    BY <2>2, <2>3, OkSame, Zenon
<1>3. PICK n \in Nat : DOMAIN node.items = 1 .. n /\ \A i \in 1 .. n : node.items[i] \in Nodes
  BY <1>2, ItemsTyped
<1>4. PICK values : values = Values(items)
  OBVIOUS
<1>5. DOMAIN values = 1 .. n /\ values = [i \in DOMAIN values |-> values[i]]
      /\ \A i \in 1 .. n : values[i] = items[i].value
  BY <1>1, <1>3, <1>4 DEF Values
<1>6. ASSUME NEW i \in 1 .. n
      PROVE  IsReadAs(values[i], inner)
  <2>1. items[i] = FromNode(node.items[i], inner)
    <3>1. node.items[i] \in Inside(node)
      BY <1>2, <1>3, ItemInside
    <3> QED
      BY <1>1, <1>3, <3>1 DEF ReadsInside
  <2>2. items[i].ok
    BY <1>1, <1>2, <1>3 DEF AllOk
  <2>3. FromNode(node.items[i], inner) = Ok(values[i])
    BY <1>5, <2>1, <2>2, FromNodeResult, ResultIs, Zenon
  <2> QED
    BY <1>3, <2>3, Zenon DEF IsReadAs
<1>7. ASSUME NEW x \in Elements(v, container)
      PROVE  \E i \in 1 .. n : x = values[i]
  <2>1. CASE container = "set"
    <3>1. x \in ToSet(values)
      BY <1>2, <1>4, <2>1 DEF Elements
    <3> QED
      BY <1>5, <3>1 DEF ToSet
  <2>2. CASE container # "set"
    <3>1. v = values
      BY <1>2, <1>4, <2>2
    <3> QED
      BY <1>5, <2>2, <3>1 DEF Elements
  <2> QED
    BY <2>1, <2>2
<1>8. Orderly(v, container)
  <2>1. container = "set" => IsFiniteSet(v)
    BY <1>2, <1>4, <1>5, ToSetFinite
  <2>2. container # "map"
    OBVIOUS
  <2> QED
    BY <2>1, <2>2, Zenon DEF Orderly
<1>9. IsHeld(v, container)
  BY <1>2, <1>4, <1>5, <1>8, Zenon DEF IsHeld
<1> QED
  BY <1>6, <1>7, <1>9, Zenon

\* There is a first index of a text that occurs.
LEMMA FirstOfIs ==
  ASSUME NEW texts, NEW n \in Nat, DOMAIN texts = 1 .. n, NEW key \in ToSet(texts)
  PROVE  FirstOf(texts, key) \in 1 .. n /\ texts[FirstOf(texts, key)] = key
<1>1. PICK i0 \in 1 .. n : texts[i0] = key
  BY DEF ToSet
<1> DEFINE Q == {k \in 1 .. n : texts[k] = key}
<1>2. Q \in SUBSET Nat /\ Q # {}
  BY <1>1
<1>3. PICK i \in Q : \A k \in Q : i <= k
  <2> HIDE DEF Q
  <2> QED
    BY <1>2, LeastElement
<1>4. \A j \in 1 .. i - 1 : texts[j] # key
  <2>1. SUFFICES ASSUME NEW j \in 1 .. i - 1, texts[j] = key
                 PROVE  FALSE
    OBVIOUS
  <2>2. j \in 1 .. n /\ ~ (i <= j)
    BY <1>3
  <2> QED
    BY <1>3, <2>1, <2>2
<1>5. i \in 1 .. n /\ texts[i] = key
  BY <1>3
<1> QED
  BY <1>4, <1>5, Zenon DEF FirstOf

LEMMA MapRead ==
  ASSUME NEW node \in Nodes, NEW f, NEW v, FromMap(node, f) = Ok(v),
         NEW inner, IsType(inner), ReadsInside(f, Inside(node), inner)
  PROVE  IsHeld(v, "map") /\ \A x \in Elements(v, "map") : IsReadAs(x, inner)
<1>1. PICK mapped : mapped = [i \in DOMAIN node.entries |-> f[node.entries[i].value]]
  OBVIOUS
<1>2. PICK texts : texts = TextsOf(node)
  OBVIOUS
<1>3. /\ node.kind = "map" /\ AllOk(mapped)
      /\ v = [key \in ToSet(texts) |-> mapped[FirstOf(texts, key)].value]
  <2>1. FromMap(node, f) = MapOf(node, KeysOf(node), texts, mapped)
    BY <1>1, <1>2, FromMapIs, Zenon
  <2>2. node.kind = "map" /\ AllOk(mapped)
    BY <2>1, OkFailed, Zenon DEF MapOf
  <2>3. Ok(v) = Ok([key \in ToSet(texts) |-> mapped[FirstOf(texts, key)].value])
    BY <2>1, OkFailed, Zenon DEF MapOf
  <2> QED
    BY <2>2, <2>3, OkSame, Zenon
<1>4. PICK n \in Nat : DOMAIN node.entries = 1 .. n /\ \A i \in 1 .. n : node.entries[i].value \in Nodes
  BY <1>3, EntriesDomain
<1>5. DOMAIN texts = 1 .. n
  BY <1>2, <1>4 DEF TextsOf
<1>6. ASSUME NEW i \in 1 .. n
      PROVE  IsReadAs(mapped[i].value, inner)
  <2>1. mapped[i] = FromNode(node.entries[i].value, inner)
    <3>1. node.entries[i].value \in Inside(node)
      BY <1>3, <1>4, EntryInside
    <3> QED
      BY <1>1, <1>4, <3>1 DEF ReadsInside
  <2>2. mapped[i].ok
    BY <1>1, <1>3, <1>4 DEF AllOk
  <2>3. FromNode(node.entries[i].value, inner) = Ok(mapped[i].value)
    BY <2>1, <2>2, FromNodeResult, ResultIs, Zenon
  <2> QED
    BY <1>4, <2>3, Zenon DEF IsReadAs
<1>7. DOMAIN v = ToSet(texts) /\ v = [key \in DOMAIN v |-> v[key]]
  BY <1>3
<1>8. ASSUME NEW x \in Elements(v, "map")
      PROVE  IsReadAs(x, inner)
  <2>1. PICK key \in DOMAIN v : x = v[key]
    BY DEF Elements
  <2>2. FirstOf(texts, key) \in 1 .. n
    BY <1>5, <1>7, <2>1, FirstOfIs
  <2>3. x = mapped[FirstOf(texts, key)].value
    BY <1>3, <1>7, <2>1
  <2> QED
    BY <1>6, <2>2, <2>3, Zenon
<1>9. IsFiniteSet(DOMAIN v)
  BY <1>5, <1>7, ToSetFinite
<1>10. IsHeld(v, "map")
  BY <1>7, <1>9 DEF IsHeld, Orderly
<1> QED
  BY <1>8, <1>10

-----------------------------------------------------------------------------
(* What was written is read as the same container.                         *)

\* Reading an element that was written gives the element.
Returns(values, type) == \A x \in values : FromNode(ToNode(x, type), type) = Ok(x)

LEMMA AllReturned ==
  ASSUME NEW results, NEW values, DOMAIN results = DOMAIN values,
         \A i \in DOMAIN values : results[i] = Ok(values[i])
  PROVE  AllOk(results) /\ Values(results) = [i \in DOMAIN values |-> values[i]]
<1>1. \A i \in DOMAIN values : results[i].ok /\ results[i].value = values[i]
  BY ResultFields, Zenon
<1>2. AllOk(results)
  BY <1>1 DEF AllOk
<1>3. Values(results) = [i \in DOMAIN values |-> values[i]]
  BY <1>1 DEF Values
<1> QED
  BY <1>2, <1>3

LEMMA SequenceAgain ==
  ASSUME NEW v, NEW container \in {"list", "set"}, IsHeld(v, container),
         NEW inner, Returns(Elements(v, container), inner),
         NEW a, WritesInside(a, Elements(v, container), inner),
         NEW f, ReadsInside(f, Inside(ContainerToNode(v, container, a)), inner)
  PROVE  FromSequence(ContainerToNode(v, container, a), container, f) = Ok(v)
<1>1. PICK members : members = IF container = "set" THEN SetToSeq(v) ELSE v
  OBVIOUS
<1>2. PICK w : w = ContainerToNode(v, container, a)
  OBVIOUS
<1>3. w = [kind |-> "sequence", items |-> [i \in DOMAIN members |-> a[members[i]]]]
  <2>1. container # "map"
    OBVIOUS
  <2> QED
    BY <1>1, <1>2, <2>1, Zenon DEF ContainerToNode
<1>4. /\ w.kind = "sequence" /\ DOMAIN w.items = DOMAIN members
      /\ \A i \in DOMAIN members : w.items[i] = a[members[i]]
  BY <1>3
<1>5. /\ \A i \in DOMAIN members : members[i] \in Elements(v, container)
      /\ v = IF container = "set" THEN ToSet(members) ELSE [i \in DOMAIN members |-> members[i]]
  <2>1. CASE container = "set"
    <3>1. PICK n \in Nat : /\ members \in [1 .. n -> v]
                           /\ \A x \in v : \E i \in 1 .. n : members[i] = x
      <4>1. IsFiniteSet(v) /\ members = SetToSeq(v)
        BY <1>1, <2>1 DEF IsHeld, Orderly
      <4> QED
        BY <4>1, SetToSeqIs
    <3>2. v = ToSet(members)
      BY <3>1 DEF ToSet
    <3>3. \A i \in DOMAIN members : members[i] \in v
      BY <3>1
    <3> QED
      BY <2>1, <3>2, <3>3 DEF Elements
  <2>2. CASE container # "set"
    <3>1. members = v /\ v = [i \in DOMAIN v |-> v[i]]
      BY <1>1, <2>2 DEF IsHeld
    <3> QED
      BY <2>2, <3>1 DEF Elements
  <2> QED
    BY <2>1, <2>2
<1>6. PICK results : results = [i \in DOMAIN w.items |-> f[w.items[i]]]
  OBVIOUS
<1>7. ASSUME NEW i \in DOMAIN members
      PROVE  results[i] = Ok(members[i])
  <2>1. w.items[i] \in Inside(w) /\ results[i] = f[w.items[i]]
    BY <1>4, <1>6, ItemInside
  <2>2. results[i] = FromNode(w.items[i], inner)
    BY <1>2, <2>1 DEF ReadsInside
  <2>3. w.items[i] = ToNode(members[i], inner)
    BY <1>4, <1>5 DEF WritesInside
  <2> QED
    BY <1>5, <2>2, <2>3 DEF Returns
<1>8. AllOk(results) /\ Values(results) = [i \in DOMAIN members |-> members[i]]
  <2>1. DOMAIN results = DOMAIN members
    BY <1>4, <1>6
  <2> QED
    BY <1>7, <2>1, AllReturned
<1>9. v = IF container = "set" THEN ToSet(Values(results)) ELSE Values(results)
  <2>1. ToSet([i \in DOMAIN members |-> members[i]]) = ToSet(members)
    BY DEF ToSet
  <2> QED
    BY <1>5, <1>8, <2>1
<1>10. FromSequence(w, container, f) =
          IF w.kind # "sequence" \/ ~AllOk(results) THEN Failed
          ELSE Ok(IF container = "set" THEN ToSet(Values(results)) ELSE Values(results))
  BY <1>6, Zenon DEF FromSequence
<1> QED
  BY <1>2, <1>4, <1>8, <1>9, <1>10, Zenon

LEMMA MapAgain ==
  ASSUME NEW v, IsHeld(v, "map"),
         NEW inner, Returns(Elements(v, "map"), inner),
         NEW a, WritesInside(a, Elements(v, "map"), inner),
         NEW f, ReadsInside(f, Inside(ContainerToNode(v, "map", a)), inner)
  PROVE  FromMap(ContainerToNode(v, "map", a), f) = Ok(v)
<1>1. PICK keys : keys = SetToSeq(DOMAIN v)
  OBVIOUS
<1>2. PICK w : w = ContainerToNode(v, "map", a)
  OBVIOUS
<1>3. w = [kind |-> "map",
           entries |-> [i \in DOMAIN keys |->
                           [key |-> [kind |-> "scalar", text |-> keys[i]], value |-> a[v[keys[i]]]]]]
  BY <1>1, <1>2, Zenon DEF ContainerToNode
<1>4. /\ w.kind = "map" /\ DOMAIN w.entries = DOMAIN keys
      /\ \A i \in DOMAIN keys : /\ w.entries[i].key.kind = "scalar"
                                /\ w.entries[i].key.text = keys[i]
                                /\ w.entries[i].value = a[v[keys[i]]]
  BY <1>3
<1>5. PICK n \in Nat : /\ keys \in [1 .. n -> DOMAIN v] /\ IsInjective(keys)
                       /\ \A x \in DOMAIN v : \E i \in 1 .. n : keys[i] = x
  <2>1. IsFiniteSet(DOMAIN v)
    BY DEF IsHeld, Orderly
  <2> QED
    BY <1>1, <2>1, SetToSeqIs
<1>6. v = [key \in DOMAIN v |-> v[key]]
  BY DEF IsHeld
<1>7. PICK results : results = [i \in DOMAIN w.entries |-> f[w.entries[i].value]]
  OBVIOUS
<1>8. PICK values : values = [i \in DOMAIN keys |-> v[keys[i]]]
  OBVIOUS
<1>9. ASSUME NEW i \in DOMAIN keys
      PROVE  results[i] = Ok(values[i])
  <2>1. w.entries[i].value \in Inside(w) /\ results[i] = f[w.entries[i].value]
    BY <1>4, <1>7, EntryInside
  <2>2. results[i] = FromNode(w.entries[i].value, inner)
    BY <1>2, <2>1 DEF ReadsInside
  <2>3. values[i] \in Elements(v, "map") /\ values[i] = v[keys[i]]
    BY <1>5, <1>8 DEF Elements
  <2>4. w.entries[i].value = ToNode(values[i], inner)
    BY <1>4, <2>3 DEF WritesInside
  <2> QED
    BY <2>2, <2>3, <2>4 DEF Returns
<1>10. AllOk(results)
  <2>1. DOMAIN results = DOMAIN values /\ DOMAIN values = DOMAIN keys
    BY <1>4, <1>7, <1>8
  <2> QED
    BY <1>9, <2>1, AllReturned
<1>11. TextsOf(w) = keys
  <2>1. TextsOf(w) = [i \in DOMAIN keys |-> keys[i]]
    BY <1>4 DEF TextsOf
  <2> QED
    BY <1>5, <2>1
<1>12. ToSet(keys) = DOMAIN v
  BY <1>5 DEF ToSet
<1>13. ASSUME NEW key \in DOMAIN v
       PROVE  results[FirstOf(keys, key)].value = v[key]
  <2>1. PICK i : i = FirstOf(keys, key)
    OBVIOUS
  <2>2. DOMAIN keys = 1 .. n
    BY <1>5
  <2>3. i \in DOMAIN keys /\ keys[i] = key
    BY <1>12, <2>1, <2>2, FirstOfIs
  <2>4. results[i] = Ok(v[key])
    BY <1>8, <1>9, <2>3
  <2> QED
    BY <2>1, <2>4, ResultFields, Zenon
<1>14. [key \in ToSet(keys) |-> results[FirstOf(keys, key)].value] = v
  BY <1>6, <1>12, <1>13
<1>15. ~ \E i \in DOMAIN KeysOf(w) : KeysOf(w)[i].kind # "scalar"
  BY <1>4 DEF KeysOf
<1>16. FromMap(w, f) = MapOf(w, KeysOf(w), keys, results)
  BY <1>7, <1>11, FromMapIs, Zenon
<1>17. MapOf(w, KeysOf(w), keys, results) = Ok(v)
  BY <1>4, <1>10, <1>14, <1>15, Zenon DEF MapOf
<1> QED
  BY <1>2, <1>16, <1>17

-----------------------------------------------------------------------------
(* The decimal digits of a number.                                         *)

DecimalDigits == {"0", "1", "2", "3", "4", "5", "6", "7", "8", "9"}

LEMMA DigitIs ==
  ASSUME NEW d \in 0 .. 9
  PROVE  /\ LowerDigits[d + 1] \in DecimalDigits
         /\ LowerDigits[d + 1] \in Digits(10)
         /\ DigitValue[LowerDigits[d + 1]] = d
<1>1. PICK c : c = LowerDigits[d + 1]
  OBVIOUS
<1>2. c \in DecimalDigits
  BY <1>1 DEF LowerDigits, DecimalDigits
<1>3. ASSUME NEW n \in 0 .. 15, c \in {LowerDigits[n + 1], UpperDigits[n + 1]}
      PROVE  n = d
  BY <1>1, <1>3, SMTT(60) DEF LowerDigits, UpperDigits
<1>4. d \in 0 .. 15 /\ c \in {LowerDigits[d + 1], UpperDigits[d + 1]}
  BY <1>1
<1>5. d = CHOOSE n \in 0 .. 15 : c \in {LowerDigits[n + 1], UpperDigits[n + 1]}
  BY <1>3, <1>4, Zenon
<1>6. c \in {"0", "1", "2", "3", "4", "5", "6", "7", "8", "9",
             "a", "b", "c", "d", "e", "f", "A", "B", "C", "D", "E", "F"}
  BY <1>2 DEF DecimalDigits
<1>7. DigitValue[c] = d /\ c \in DOMAIN DigitValue
  BY <1>5, <1>6, Zenon DEF DigitValue
<1>8. c \in Digits(10)
  <2>1. d < 10
    OBVIOUS
  <2> QED
    BY <1>7, <2>1, Zenon DEF Digits
<1> QED
  BY <1>1, <1>2, <1>7, <1>8

LEMMA DigitTyped ==
  ASSUME NEW c \in DecimalDigits
  PROVE  \E d \in 0 .. 9 : c = LowerDigits[d + 1]
<1>1. /\ LowerDigits[0 + 1] = "0" /\ LowerDigits[1 + 1] = "1" /\ LowerDigits[2 + 1] = "2"
      /\ LowerDigits[3 + 1] = "3" /\ LowerDigits[4 + 1] = "4" /\ LowerDigits[5 + 1] = "5"
      /\ LowerDigits[6 + 1] = "6" /\ LowerDigits[7 + 1] = "7" /\ LowerDigits[8 + 1] = "8"
      /\ LowerDigits[9 + 1] = "9"
  BY DEF LowerDigits
<1> QED
  BY <1>1 DEF DecimalDigits

\* The values of the first k digits.
IsValues(f, digits, base, k) ==
    f = [i \in 0 .. k |-> IF i = 0 THEN 0 ELSE f[i - 1] * base + DigitValue[digits[i]]]

LEMMA ValuesExist ==
  ASSUME NEW digits, NEW base, NEW k \in Nat
  PROVE  \E f : IsValues(f, digits, base, k)
<1> DEFINE K == {n \in Nat : \E f : IsValues(f, digits, base, n)}
<1>1. 0 \in K
  <2>1. IsValues([i \in 0 .. 0 |-> 0], digits, base, 0)
    BY DEF IsValues
  <2> QED
    BY <2>1
<1>2. ASSUME NEW n \in Nat, n \in K
      PROVE  n + 1 \in K
  <2>1. PICK f : IsValues(f, digits, base, n)
    BY <1>2
  <2>2. PICK g : g = [i \in 0 .. n + 1 |->
                         IF i = n + 1 THEN f[n] * base + DigitValue[digits[n + 1]] ELSE f[i]]
    OBVIOUS
  <2>3. ASSUME NEW i \in 0 .. n + 1
        PROVE  g[i] = IF i = 0 THEN 0 ELSE g[i - 1] * base + DigitValue[digits[i]]
    <3>1. CASE i = n + 1
      <4>1. g[i] = f[n] * base + DigitValue[digits[i]] /\ g[n] = f[n] /\ i # 0 /\ i - 1 = n
        BY <2>2, <3>1
      <4> QED
        BY <4>1
    <3>2. CASE i # n + 1
      <4>1. i \in 0 .. n /\ g[i] = f[i]
        BY <2>2, <3>2
      <4>2. i # 0 => g[i - 1] = f[i - 1]
        BY <2>2, <4>1
      <4>3. f[i] = IF i = 0 THEN 0 ELSE f[i - 1] * base + DigitValue[digits[i]]
        BY <2>1, <4>1 DEF IsValues
      <4> QED
        BY <4>1, <4>2, <4>3
    <3> QED
      BY <3>1, <3>2
  <2>4. g = [i \in 0 .. n + 1 |-> IF i = 0 THEN 0 ELSE g[i - 1] * base + DigitValue[digits[i]]]
    BY <2>2, <2>3
  <2>5. IsValues(g, digits, base, n + 1)
    BY <2>4, Zenon DEF IsValues
  <2> QED
    BY <2>5
<1>3. Nat \subseteq K
  <2> HIDE DEF K
  <2> QED
    BY <1>1, <1>2, SetInduction
<1> QED
  BY <1>3

LEMMA PositionalIs ==
  ASSUME NEW digits, NEW base, Len(digits) \in Nat
  PROVE  \E f : IsValues(f, digits, base, Len(digits)) /\ Positional(digits, base) = f[Len(digits)]
<1>1. PICK f : f = CHOOSE g : IsValues(g, digits, base, Len(digits))
  OBVIOUS
<1>2. IsValues(f, digits, base, Len(digits))
  BY <1>1, ValuesExist
<1>3. Positional(digits, base) = f[Len(digits)]
  BY <1>1 DEF Positional, IsValues
<1> QED
  BY <1>2, <1>3

LEMMA PositionalNone ==
  ASSUME NEW base
  PROVE  Positional(<<>>, base) = 0
<1>1. Len(<<>>) = 0
  OBVIOUS
<1>2. PICK f : IsValues(f, <<>>, base, 0) /\ Positional(<<>>, base) = f[0]
  BY <1>1, PositionalIs
<1> QED
  BY <1>2 DEF IsValues

LEMMA PositionalAppend ==
  ASSUME NEW S, NEW digits \in Seq(S), NEW c \in S, NEW base
  PROVE  Positional(Append(digits, c), base) = Positional(digits, base) * base + DigitValue[c]
<1>1. PICK n \in Nat : n = Len(digits)
  OBVIOUS
<1>2. PICK longer : longer = Append(digits, c)
  OBVIOUS
<1>3. Len(longer) = n + 1 /\ longer[n + 1] = c /\ \A i \in 1 .. n : longer[i] = digits[i]
  BY <1>1, <1>2
<1>4. PICK f : IsValues(f, digits, base, n) /\ Positional(digits, base) = f[n]
  BY <1>1, PositionalIs
<1>5. PICK g : IsValues(g, longer, base, n + 1) /\ Positional(longer, base) = g[n + 1]
  BY <1>3, PositionalIs
<1> DEFINE K == {i \in Nat : i <= n => f[i] = g[i]}
<1>6. 0 \in K
  BY <1>4, <1>5 DEF IsValues
<1>7. ASSUME NEW i \in Nat, i \in K
      PROVE  i + 1 \in K
  <2>1. SUFFICES ASSUME i + 1 <= n PROVE f[i + 1] = g[i + 1]
    OBVIOUS
  <2>2. PICK j \in 1 .. n : j = i + 1 /\ j - 1 = i /\ j \in 0 .. n /\ j \in 0 .. n + 1 /\ j # 0
    <3>1. i + 1 \in 1 .. n /\ i + 1 - 1 = i /\ i + 1 \in 0 .. n /\ i + 1 \in 0 .. n + 1 /\ i + 1 # 0
      BY <2>1
    <3> QED
      BY <3>1
  <2>3. f[j] = f[i] * base + DigitValue[digits[j]]
    BY <1>4, <2>2 DEF IsValues
  <2>4. g[j] = g[i] * base + DigitValue[longer[j]]
    BY <1>5, <2>2 DEF IsValues
  <2>5. f[i] = g[i]
    BY <1>7, <2>1
  <2> QED
    BY <1>3, <2>2, <2>3, <2>4, <2>5
<1>8. Nat \subseteq K
  <2> HIDE DEF K
  <2> QED
    BY <1>6, <1>7, SetInduction
<1>9. f[n] = g[n]
  BY <1>8
<1>10. PICK m : m = n + 1 /\ m - 1 = n /\ m \in 0 .. n + 1 /\ m # 0
  <2>1. n + 1 - 1 = n /\ n + 1 \in 0 .. n + 1 /\ n + 1 # 0
    OBVIOUS
  <2> QED
    BY <2>1
<1>11. g[m] = g[n] * base + DigitValue[longer[m]]
  BY <1>5, <1>10 DEF IsValues
<1> QED
  BY <1>2, <1>3, <1>4, <1>5, <1>9, <1>10, <1>11

\* The digits of the numbers up to m.
NextDigits(f, n) ==
    IF n < 10 THEN <<LowerDigits[n + 1]>> ELSE Append(f[n \div 10], LowerDigits[(n % 10) + 1])

IsDecimals(f, m) == f = [n \in 0 .. m |-> NextDigits(f, n)]

LEMMA TenthIs ==
  ASSUME NEW n \in Nat
  PROVE  /\ n \div 10 \in Nat /\ n % 10 \in 0 .. 9 /\ n = (n \div 10) * 10 + (n % 10)
         /\ n \div 10 <= n /\ (n # 0 => n \div 10 < n)
BY SMT

LEMMA DecimalsExist ==
  ASSUME NEW m \in Nat
  PROVE  \E f : IsDecimals(f, m)
<1> DEFINE K == {n \in Nat : \E f : IsDecimals(f, n)}
<1>1. 0 \in K
  <2>1. PICK f : f = [n \in 0 .. 0 |-> <<LowerDigits[n + 1]>>]
    OBVIOUS
  <2>2. \A n \in 0 .. 0 : n < 10
    OBVIOUS
  <2>3. IsDecimals(f, 0)
    BY <2>1, <2>2, Zenon DEF IsDecimals, NextDigits
  <2> QED
    BY <2>3
<1>2. ASSUME NEW k \in Nat, k \in K
      PROVE  k + 1 \in K
  <2>1. PICK f : IsDecimals(f, k)
    BY <1>2
  <2>2. PICK g : g = [n \in 0 .. k + 1 |-> IF n = k + 1 THEN NextDigits(f, n) ELSE f[n]]
    OBVIOUS
  <2>3. \A n \in 0 .. k : g[n] = f[n]
    BY <2>2
  <2>4. ASSUME NEW n \in 0 .. k + 1
        PROVE  g[n] = NextDigits(g, n)
    <3>1. n >= 10 => n \div 10 \in 0 .. k
      BY TenthIs
    <3>2. NextDigits(g, n) = NextDigits(f, n)
      <4>1. CASE n < 10
        BY <4>1, Zenon DEF NextDigits
      <4>2. CASE ~(n < 10)
        <5>1. g[n \div 10] = f[n \div 10]
          BY <2>3, <3>1, <4>2
        <5> QED
          BY <4>2, <5>1, Zenon DEF NextDigits
      <4> QED
        BY <4>1, <4>2
    <3>3. g[n] = NextDigits(f, n)
      <4>1. CASE n = k + 1
        BY <2>2, <4>1
      <4>2. CASE n # k + 1
        <5>1. n \in 0 .. k
          BY <4>2
        <5> QED
          BY <2>1, <2>3, <5>1 DEF IsDecimals
      <4> QED
        BY <4>1, <4>2
    <3> QED
      BY <3>2, <3>3
  <2>5. g = [n \in 0 .. k + 1 |-> NextDigits(g, n)]
    BY <2>2, <2>4
  <2>6. IsDecimals(g, k + 1)
    BY <2>5, Zenon DEF IsDecimals
  <2> QED
    BY <2>6
<1>3. Nat \subseteq K
  <2> HIDE DEF K
  <2> QED
    BY <1>1, <1>2, SetInduction
<1> QED
  BY <1>3

\* digits spell n in base 10.
IsSpelling(digits, n) ==
    /\ digits \in Seq(DecimalDigits) /\ digits # <<>>
    /\ Positional(digits, 10) = n

\* std::to_chars writes the digits of the number.
LEMMA DecimalIs ==
  ASSUME NEW m \in Nat
  PROVE  IsSpelling(Decimal(m), m)
<1>1. PICK f : f = CHOOSE g : IsDecimals(g, m)
  OBVIOUS
<1>2. IsDecimals(f, m)
  BY <1>1, DecimalsExist
<1>3. Decimal(m) = f[m]
  BY <1>1, Zenon DEF Decimal, IsDecimals, NextDigits
<1>4. \A n \in 0 .. m : f[n] = NextDigits(f, n)
  BY <1>2 DEF IsDecimals
<1> DEFINE K == {k \in Nat : \A n \in Nat : n < k /\ n <= m => IsSpelling(f[n], n)}
<1>5. 0 \in K
  OBVIOUS
<1>6. ASSUME NEW k \in Nat, k \in K
      PROVE  k + 1 \in K
  <2>1. SUFFICES ASSUME k <= m PROVE IsSpelling(f[k], k)
    BY <1>6
  <2>2. f[k] = NextDigits(f, k)
    BY <1>4, <2>1
  <2>3. CASE k < 10
    <3>1. PICK c : c = LowerDigits[k + 1]
      OBVIOUS
    <3>2. c \in DecimalDigits /\ DigitValue[c] = k
      BY <2>3, <3>1, DigitIs
    <3>3. f[k] = <<c>>
      BY <2>2, <2>3, <3>1, Zenon DEF NextDigits
    <3>4. <<c>> = Append(<<>>, c) /\ <<>> \in Seq(DecimalDigits) /\ <<c>> \in Seq(DecimalDigits) /\ <<c>> # <<>>
      BY <3>2
    <3>5. Positional(<<c>>, 10) = 0 * 10 + DigitValue[c]
      BY <3>2, <3>4, PositionalAppend, PositionalNone, Zenon
    <3>6. Positional(<<c>>, 10) = k
      BY <3>2, <3>5
    <3> QED
      BY <3>3, <3>4, <3>6, Zenon DEF IsSpelling
  <2>4. CASE ~(k < 10)
    <3>1. PICK c : c = LowerDigits[(k % 10) + 1]
      OBVIOUS
    <3>2. PICK q \in Nat : q = k \div 10 /\ q < k /\ q <= m /\ k = q * 10 + (k % 10) /\ k % 10 \in 0 .. 9
      BY <2>1, <2>4, TenthIs
    <3>3. c \in DecimalDigits /\ DigitValue[c] = k % 10
      BY <3>1, <3>2, DigitIs
    <3>4. f[k] = Append(f[q], c)
      BY <2>2, <2>4, <3>1, <3>2, Zenon DEF NextDigits
    <3>5. IsSpelling(f[q], q)
      BY <1>6, <3>2
    <3>6. f[q] \in Seq(DecimalDigits) /\ Positional(f[q], 10) = q
      BY <3>5 DEF IsSpelling
    <3>7. Positional(Append(f[q], c), 10) = q * 10 + DigitValue[c]
      BY <3>3, <3>6, PositionalAppend
    <3>8. Append(f[q], c) \in Seq(DecimalDigits) /\ Append(f[q], c) # <<>>
      BY <3>3, <3>6
    <3> QED
      BY <3>2, <3>3, <3>4, <3>7, <3>8, Zenon DEF IsSpelling
  <2> QED
    BY <2>3, <2>4
<1>7. Nat \subseteq K
  <2> HIDE DEF K
  <2> QED
    BY <1>5, <1>6, SetInduction
<1>8. m + 1 \in K /\ m < m + 1 /\ m <= m
  BY <1>7
<1> QED
  BY <1>3, <1>8

-----------------------------------------------------------------------------
(* Scalars that were written.                                              *)

LEMMA TrimCompact ==
  ASSUME NEW S, NEW text \in Seq(S), text # <<>>,
         \A i \in 1 .. Len(text) : text[i] \notin Whitespace
  PROVE  Trim(text, Whitespace) = text
<1>1. Len(text) \in Nat \ {0}
  OBVIOUS
<1>2. \A i \in 1 .. Len(text) : i \in Kept(text, Whitespace)
  BY KeptIs, Zenon
<1>3. 1 \in 1 .. Len(text) /\ Len(text) \in 1 .. Len(text)
  BY <1>1
<1>4. PICK low, high \in Kept(text, Whitespace) :
         /\ \A i \in Kept(text, Whitespace) : low <= i /\ i <= high
         /\ Trim(text, Whitespace) = SubSeq(text, low, high)
  BY <1>2, <1>3, TrimIs, Zenon
<1>5. low \in 1 .. Len(text) /\ high \in 1 .. Len(text)
  BY KeptIs
<1>6. low <= 1 /\ Len(text) <= high
  BY <1>2, <1>3, <1>4
<1>7. low = 1 /\ high = Len(text)
  BY <1>1, <1>5, <1>6
<1>8. SubSeq(text, 1, Len(text)) = text
  OBVIOUS
<1> QED
  BY <1>4, <1>7, <1>8

\* The letters of the words that are written are small already.
LEMMA SmallLetters ==
  ASSUME NEW c \in {"t", "r", "u", "e", "f", "a", "l", "s"}
  PROVE  ToLowerAscii(c) = c /\ c \notin Whitespace
<1>1. PICK upper : upper = <<"A", "B", "C", "D", "E", "F", "G", "H", "I", "J", "K", "L", "M",
                             "N", "O", "P", "Q", "R", "S", "T", "U", "V", "W", "X", "Y", "Z">>
  OBVIOUS
<1>2. c \notin ToSet(upper)
  <2>1. SUFFICES ASSUME NEW i \in DOMAIN upper, c = upper[i]
                 PROVE  FALSE
    BY DEF ToSet
  <2>2. i \in 1 .. 26
    BY <1>1
  <2> QED
    BY <1>1, <2>1, <2>2, SMTT(60)
<1>3. ToLowerAscii(c) = c
  BY <1>1, <1>2, Zenon DEF ToLowerAscii
<1>4. c \notin Whitespace
  BY Zenon DEF Whitespace
<1> QED
  BY <1>3, <1>4

LEMMA WordRead ==
  ASSUME NEW text \in Seq({"t", "r", "u", "e", "f", "a", "l", "s"}), text # <<>>
  PROVE  Lower(Trim(text, Whitespace)) = text
<1>1. \A i \in 1 .. Len(text) : text[i] \in {"t", "r", "u", "e", "f", "a", "l", "s"}
  OBVIOUS
<1>2. \A i \in 1 .. Len(text) : ToLowerAscii(text[i]) = text[i] /\ text[i] \notin Whitespace
  BY <1>1, SmallLetters, Zenon
<1>3. Trim(text, Whitespace) = text
  BY <1>2, TrimCompact, Zenon
<1>4. Lower(text) = [i \in 1 .. Len(text) |-> text[i]]
  BY <1>2 DEF Lower
<1>5. [i \in 1 .. Len(text) |-> text[i]] = text
  OBVIOUS
<1> QED
  BY <1>3, <1>4, <1>5

LEMMA BoolAgain ==
  ASSUME NEW v \in {TRUE, FALSE}, NEW scalar, scalar.kind = "bool"
  PROVE  FromScalar(ScalarToNode(v, scalar), scalar) = Ok(v)
<1> DEFINE word == IF v THEN <<"t", "r", "u", "e">> ELSE <<"f", "a", "l", "s", "e">>
<1>1. word \in Seq({"t", "r", "u", "e", "f", "a", "l", "s"}) /\ word # <<>>
  <2>1. PICK L : L = {"t", "r", "u", "e", "f", "a", "l", "s"}
    OBVIOUS
  <2>2. /\ "t" \in L /\ "r" \in L /\ "u" \in L /\ "e" \in L
        /\ "f" \in L /\ "a" \in L /\ "l" \in L /\ "s" \in L
    BY <2>1
  <2>3. <<"t", "r", "u", "e">> \in Seq(L) /\ <<"t", "r", "u", "e">> # <<>>
    BY <2>2
  <2>4. <<"f", "a", "l", "s", "e">> \in Seq(L) /\ <<"f", "a", "l", "s", "e">> # <<>>
    BY <2>2
  <2>5. word = <<"t", "r", "u", "e">> \/ word = <<"f", "a", "l", "s", "e">>
    OBVIOUS
  <2> HIDE DEF word
  <2> QED
    BY <2>1, <2>3, <2>4, <2>5
<1>2. Lower(Trim(word, Whitespace)) = word
  <2> HIDE DEF word
  <2> QED
    BY <1>1, WordRead
<1>3. ParseBool(word) = Ok(v)
  <2>1. CASE v = TRUE
    <3>1. word = <<"t", "r", "u", "e">>
      BY <2>1
    <3>2. word \in TRUE_WORDS
      BY <3>1, Zenon DEF TRUE_WORDS
    <3> HIDE DEF word
    <3> QED
      BY <1>2, <2>1, <3>2, Zenon DEF ParseBool
  <2>2. CASE v = FALSE
    <3>1. word = <<"f", "a", "l", "s", "e">>
      BY <2>2
    <3>2. word \in FALSE_WORDS
      BY <3>1, Zenon DEF FALSE_WORDS
    <3>3. word \notin TRUE_WORDS
      BY <3>1 DEF TRUE_WORDS
    <3> HIDE DEF word
    <3> QED
      BY <1>2, <2>2, <3>2, <3>3, Zenon DEF ParseBool
  <2> QED
    BY <2>1, <2>2
<1> HIDE DEF word
<1>4. ScalarToNode(v, scalar) = [kind |-> "scalar", text |-> word]
  BY Zenon DEF ScalarToNode, word
<1>5. ScalarToNode(v, scalar).kind = "scalar" /\ ScalarToNode(v, scalar).text = word
  BY <1>4
<1>6. FromScalar(ScalarToNode(v, scalar), scalar) = ParseBool(word)
  BY <1>5 DEF FromScalar
<1> QED
  BY <1>3, <1>6

\* The text that an integer is written as.
Written(v) == IF v < 0 THEN <<"-">> \o Decimal(-v) ELSE Decimal(v)
WrittenReading(v) == [plus |-> 0, prefix |-> 0, minus |-> IF v < 0 THEN 1 ELSE 0]

LEMMA WrittenIs ==
  ASSUME NEW v \in Int
  PROVE  \E digits : /\ IsSpelling(digits, IF v < 0 THEN -v ELSE v)
                     /\ Written(v) = IF v < 0 THEN <<"-">> \o digits ELSE digits
<1>1. CASE v < 0
  <2>1. -v \in Nat
    BY <1>1
  <2>2. IsSpelling(Decimal(-v), -v)
    BY <2>1, DecimalIs
  <2> QED
    BY <1>1, <2>2, Zenon DEF Written
<1>2. CASE ~(v < 0)
  <2>1. v \in Nat
    BY <1>2
  <2>2. IsSpelling(Decimal(v), v)
    BY <2>1, DecimalIs
  <2> QED
    BY <1>2, <2>2, Zenon DEF Written
<1> QED
  BY <1>1, <1>2

\* An integer of the type is a meaning of the text it is written as.
LEMMA WrittenMeaning ==
  ASSUME NEW v \in Int, NEW type, v \in type.min .. type.max, type.min \in Int
  PROVE  v \in Meanings(Written(v), type) /\ Written(v) \in Seq(DecimalDigits \cup {"-"})
<1>1. PICK text : text = Written(v)
  OBVIOUS
<1>2. PICK r : r = WrittenReading(v)
  OBVIOUS
<1>3. PICK digits : /\ IsSpelling(digits, IF v < 0 THEN -v ELSE v)
                    /\ text = IF v < 0 THEN <<"-">> \o digits ELSE digits
  BY <1>1, WrittenIs
<1>4. digits \in Seq(DecimalDigits) /\ digits # <<>> /\ Positional(digits, 10) = IF v < 0 THEN -v ELSE v
  BY <1>3, Zenon DEF IsSpelling
<1>5. PICK k \in {0, 1} : k = IF v < 0 THEN 1 ELSE 0
  OBVIOUS
<1>6. r \in AllReadings /\ r.plus = 0 /\ r.prefix = 0 /\ r.minus = k /\ Base(r) = 10
  BY <1>2, <1>5 DEF WrittenReading, AllReadings, Base
<1>7. /\ text \in Seq(DecimalDigits \cup {"-"}) /\ text # <<>>
      /\ Len(text) = k + Len(digits) /\ Len(digits) \in Nat \ {0}
      /\ k = 1 => text[1] = "-"
  <2>1. CASE v < 0
    <3>1. text = <<"-">> \o digits
      BY <1>3, <2>1
    <3> QED
      BY <1>4, <1>5, <2>1, <3>1
  <2>2. CASE ~(v < 0)
    <3>1. text = digits
      BY <1>3, <2>2
    <3> QED
      BY <1>4, <1>5, <2>2, <3>1
  <2> QED
    BY <2>1, <2>2
<1>8. \A i \in 1 .. Len(digits) : text[k + i] = digits[i]
  <2>1. CASE v < 0
    <3>1. text = <<"-">> \o digits
      BY <1>3, <2>1
    <3> QED
      BY <1>4, <1>5, <2>1, <3>1
  <2>2. CASE ~(v < 0)
    <3>1. text = digits
      BY <1>3, <2>2
    <3> QED
      BY <1>4, <1>5, <2>2, <3>1
  <2> QED
    BY <2>1, <2>2
<1>9. Left(text, r) = digits
  <2>1. SubSeq(text, k + 1, Len(text)) = digits
    <3>1. CASE v < 0
      BY <1>3, <1>4, <1>5, <3>1
    <3>2. CASE ~(v < 0)
      BY <1>3, <1>4, <1>5, <3>2
    <3> QED
      BY <3>1, <3>2
  <2>2. r.plus + r.prefix + r.minus + 1 = k + 1
    BY <1>6
  <2> QED
    BY <2>1, <2>2, Zenon DEF Left
<1>10. \A i \in 1 .. Len(digits) : digits[i] \in Digits(Base(r))
  <2>1. \A c \in DecimalDigits : c \in Digits(10)
    BY DigitTyped, DigitIs, Zenon
  <2> QED
    BY <1>4, <1>6, <2>1
<1>11. r \in Readings(text, type)
  <2>1. ToSet(Left(text, r)) \subseteq Digits(Base(r))
    BY <1>4, <1>9, <1>10 DEF ToSet
  <2>2. r.minus = 1 => /\ r.plus + r.prefix + 1 <= Len(text)
                       /\ text[r.plus + r.prefix + 1] = "-"
                       /\ type.min < 0
                       /\ r.plus = 0 \/ r.prefix = 2
    BY <1>5, <1>6, <1>7
  <2>3. r.plus # 1 /\ r.prefix # 2
    BY <1>6
  <2> QED
    BY <1>4, <1>6, <1>9, <2>1, <2>2, <2>3, ReadingIs, Zenon
<1>12. text \in Bodies(text)
  <2>1. \A i \in 1 .. Len(text) : text[i] \notin Whitespace
    BY <1>7, <1>11, ReadingCompact, Zenon
  <2>2. text = Trim(text, Whitespace)
    BY <1>7, <2>1, TrimCompact, Zenon
  <2> QED
    BY <1>7, <2>1, <2>2, TrimmedBody, Zenon
<1>13. v = NumberRead(text, r)
  <2>1. Positional(Left(text, r), Base(r)) = IF v < 0 THEN -v ELSE v
    BY <1>4, <1>6, <1>9
  <2>2. NumberRead(text, r) = IF r.minus = 1 THEN -(IF v < 0 THEN -v ELSE v) ELSE IF v < 0 THEN -v ELSE v
    BY <2>1, Zenon DEF NumberRead
  <2> QED
    BY <1>5, <1>6, <2>2
<1>14. v \in Meanings(text, type)
  BY <1>11, <1>12, <1>13, MeaningIs, Zenon
<1> QED
  BY <1>1, <1>7, <1>14

LEMMA IntAgain ==
  ASSUME NEW v \in Int, NEW scalar, scalar.kind = "int", v \in scalar.min .. scalar.max, scalar.min \in Int
  PROVE  FromScalar(ScalarToNode(v, scalar), scalar) = Ok(v)
<1>1. PICK w : w = ScalarToNode(v, scalar)
  OBVIOUS
<1>2. w.kind = "scalar" /\ w.text = Written(v)
  <2>1. w = ArithmeticToNode(v)
    BY <1>1 DEF ScalarToNode
  <2>2. w = [kind |-> "scalar", text |-> Written(v)]
    BY <2>1, Zenon DEF ArithmeticToNode, Written
  <2> QED
    BY <2>2
<1>3. FromScalar(w, scalar) = ParseArithmetic(w.text, scalar)
  BY <1>2 DEF FromScalar
<1>4. PICK result : result = ParseArithmetic(Written(v), scalar)
  OBVIOUS
<1>5. Written(v) \in Seq(DecimalDigits \cup {"-"}) /\ v \in Meanings(Written(v), scalar)
  BY WrittenMeaning
<1>6. Meanings(Written(v), scalar) = IF result.ok THEN {result.value} ELSE {}
  BY <1>4, <1>5, ParseNumberExact, Zenon
<1>7. result.ok /\ v = result.value
  BY <1>5, <1>6, Zenon
<1>8. IsResult(result)
  <2>1. \A text, base : IsResult(FromChars(text, base, scalar))
    BY Zenon DEF IsResult, FromChars
  <2>2. IsResult(Failed)
    BY DEF IsResult
  <2> QED
    BY <1>4, <2>1, <2>2, Zenon DEF ParseArithmetic
<1>9. result = Ok(v)
  BY <1>7, <1>8, ResultIs
<1> QED
  BY <1>1, <1>2, <1>3, <1>4, <1>9

\* A scalar that was read is written as a scalar that is read as the same.
LEMMA ScalarAgain ==
  ASSUME NEW type, IsType(type), NEW node \in Nodes, NEW v, FromScalar(node, type.scalar) = Ok(v)
  PROVE  FromScalar(ScalarToNode(v, type.scalar), type.scalar) = Ok(v)
<1>1. PICK scalar : scalar = type.scalar
  OBVIOUS
<1>2. node.kind = "scalar"
  BY OkFailed, Zenon DEF FromScalar
<1>3. CASE scalar.kind = "bool"
  <2>1. ParseBool(node.text) = Ok(v)
    BY <1>1, <1>2, <1>3 DEF FromScalar
  <2>2. Ok(v) = Ok(TRUE) \/ Ok(v) = Ok(FALSE)
    BY <2>1, OkFailed, Zenon DEF ParseBool
  <2>3. v \in {TRUE, FALSE}
    BY <2>2, OkSame, Zenon
  <2> QED
    BY <1>1, <1>3, <2>3, BoolAgain
<1>4. CASE scalar.kind = "string"
  <2>1. ScalarToNode(v, scalar) = [kind |-> "scalar", text |-> v]
    BY <1>4 DEF ScalarToNode
  <2>2. ScalarToNode(v, scalar).kind = "scalar" /\ ScalarToNode(v, scalar).text = v
    BY <2>1
  <2>3. FromScalar(ScalarToNode(v, scalar), scalar) = Ok(v)
    BY <1>4, <2>2 DEF FromScalar
  <2> QED
    BY <1>1, <2>3
<1>5. CASE scalar.kind = "int"
  <2>1. ParseArithmetic(node.text, scalar) = Ok(v)
    BY <1>1, <1>2, <1>5 DEF FromScalar
  <2>2. node.text \in Seq(ToSet(node.text))
    BY <1>2, ScalarNodes
  <2>3. Meanings(node.text, scalar) = IF Ok(v).ok THEN {Ok(v).value} ELSE {}
    BY <2>1, <2>2, ParseNumberExact, Zenon
  <2>4. v \in Meanings(node.text, scalar)
    BY <2>3, ResultFields, Zenon
  <2>5. v \in scalar.min .. scalar.max
    BY <2>4, MeaningIs, Zenon
  <2>6. scalar.min \in Int /\ scalar.max \in Int
    BY <1>1, <1>5 DEF IsType
  <2>7. v \in Int
    BY <2>5, <2>6
  <2> QED
    BY <1>1, <1>5, <2>5, <2>6, <2>7, IntAgain
<1>6. scalar.kind \in {"bool", "string", "int"}
  BY <1>1 DEF IsType
<1> QED
  BY <1>3, <1>4, <1>5, <1>6

-----------------------------------------------------------------------------
(* Values that were written.                                               *)

\* A value is read again from what it is written to.
IsStable(v, type) ==
    /\ IsWritable(v, type.containers, Len(type.containers))
    /\ FromNode(ToNode(v, type), type) = Ok(v)

StableBelow(n) ==
    \A type, v : IsType(type) /\ Len(type.containers) = n /\ IsReadAs(v, type) => IsStable(v, type)

LEMMA StableScalars == StableBelow(0)
<1>1. SUFFICES ASSUME NEW type, NEW v, IsType(type), Len(type.containers) = 0, IsReadAs(v, type)
               PROVE  IsStable(v, type)
  BY Zenon DEF StableBelow
<1>2. type.containers = <<>>
  <2>1. type.containers \in Seq(Containers)
    BY <1>1 DEF IsType
  <2> QED
    BY <1>1, <2>1
<1>3. PICK node \in Nodes : FromNode(node, type) = Ok(v)
  BY <1>1 DEF IsReadAs
<1>4. FromScalar(node, type.scalar) = Ok(v)
  BY <1>2, <1>3, FromScalarIs
<1>5. FromScalar(ScalarToNode(v, type.scalar), type.scalar) = Ok(v)
  BY <1>1, <1>4, ScalarAgain
<1>6. FromNode(ToNode(v, type), type) = Ok(v)
  BY <1>2, <1>5, FromScalarIs, ToScalarIs, Zenon
<1>7. IsWritable(v, type.containers, 0)
  BY DEF IsWritable
<1> QED
  BY <1>1, <1>6, <1>7, Zenon DEF IsStable

\* What is read as a container has elements that were read.
LEMMA ContainerRead ==
  ASSUME NEW node \in Nodes, NEW container \in Containers, NEW f, NEW v,
         FromContainer(node, container, f) = Ok(v),
         NEW inner, IsType(inner), ReadsInside(f, Inside(node), inner)
  PROVE  IsHeld(v, container) /\ \A x \in Elements(v, container) : IsReadAs(x, inner)
<1>1. CASE container = "map"
  <2>1. FromMap(node, f) = Ok(v)
    BY <1>1 DEF FromContainer
  <2> QED
    BY <1>1, <2>1, MapRead
<1>2. CASE container # "map"
  <2>1. FromSequence(node, container, f) = Ok(v)
    BY <1>2 DEF FromContainer
  <2>2. container \in {"list", "set"}
    BY <1>2 DEF Containers
  <2> QED
    BY <2>1, <2>2, SequenceRead
<1> QED
  BY <1>1, <1>2

\* What is written as a container is read as the same container.
LEMMA ContainerAgain ==
  ASSUME NEW v, NEW container \in Containers, IsHeld(v, container),
         NEW inner, Returns(Elements(v, container), inner),
         NEW a, WritesInside(a, Elements(v, container), inner),
         NEW f, ReadsInside(f, Inside(ContainerToNode(v, container, a)), inner)
  PROVE  FromContainer(ContainerToNode(v, container, a), container, f) = Ok(v)
<1>1. CASE container = "map"
  <2>1. FromMap(ContainerToNode(v, container, a), f) = Ok(v)
    BY <1>1, MapAgain
  <2> QED
    BY <1>1, <2>1 DEF FromContainer
<1>2. CASE container # "map"
  <2>1. container \in {"list", "set"}
    BY <1>2 DEF Containers
  <2>2. FromSequence(ContainerToNode(v, container, a), container, f) = Ok(v)
    BY <2>1, SequenceAgain
  <2> QED
    BY <1>2, <2>2 DEF FromContainer
<1> QED
  BY <1>1, <1>2

LEMMA StableContainers ==
  ASSUME NEW n \in Nat, StableBelow(n)
  PROVE  StableBelow(n + 1)
<1>1. SUFFICES ASSUME NEW type, NEW v, IsType(type), Len(type.containers) = n + 1, IsReadAs(v, type)
               PROVE  IsStable(v, type)
  BY Zenon DEF StableBelow
<1>2. type.containers # <<>> /\ type.containers[1] \in Containers
  <2>1. type.containers \in Seq(Containers)
    BY <1>1 DEF IsType
  <2> QED
    BY <1>1, <2>1
<1>3. PICK inner : inner = Inner(type)
  OBVIOUS
<1>4. IsInner(inner, type, n) /\ IsType(inner) /\ Len(inner.containers) = n
  <2>1. PICK m \in Nat : IsInner(inner, type, m)
    BY <1>1, <1>2, <1>3, InnerTyped
  <2>2. Len(type.containers) = m + 1
    BY <2>1 DEF IsInner
  <2>3. m = n
    BY <1>1, <2>2
  <2> QED
    BY <2>1, <2>3, Zenon DEF IsInner
<1>5. PICK container : container = type.containers[1]
  OBVIOUS
<1>6. PICK node \in Nodes : FromNode(node, type) = Ok(v)
  BY <1>1 DEF IsReadAs
<1>7. PICK f : ReadsInside(f, Inside(node), inner) /\ FromNode(node, type) = FromContainer(node, container, f)
  BY <1>1, <1>2, <1>3, <1>5, FromContainerIs, Zenon
<1>8. IsHeld(v, container) /\ \A x \in Elements(v, container) : IsReadAs(x, inner)
  <2>1. FromContainer(node, container, f) = Ok(v)
    BY <1>6, <1>7
  <2> QED
    BY <1>2, <1>4, <1>5, <1>7, <2>1, ContainerRead
<1>9. \A x \in Elements(v, container) : IsStable(x, inner)
  BY <1>4, <1>8, Zenon DEF StableBelow
<1>10. IsWritable(v, type.containers, n + 1)
  <2>1. IsTail(inner.containers, type.containers, n)
    BY <1>4, Zenon DEF IsInner, IsTail
  <2>2. Orderly(v, type.containers[1])
    BY <1>5, <1>8 DEF IsHeld
  <2>3. \A x \in Elements(v, type.containers[1]) : IsWritable(x, inner.containers, n)
    BY <1>4, <1>5, <1>9 DEF IsStable
  <2> QED
    BY <2>1, <2>2, <2>3, WritableEach
<1>11. PICK a : WritesInside(a, Elements(v, container), inner) /\ ToNode(v, type) = ContainerToNode(v, container, a)
  BY <1>4, <1>5, <1>10, ToContainerIs, Zenon
<1>12. PICK w : w = ToNode(v, type)
  OBVIOUS
<1>13. PICK g : ReadsInside(g, Inside(w), inner) /\ FromNode(w, type) = FromContainer(w, container, g)
  BY <1>1, <1>2, <1>3, <1>5, FromContainerIs, Zenon
<1>14. Returns(Elements(v, container), inner)
  BY <1>9 DEF Returns, IsStable
<1>15. FromContainer(w, container, g) = Ok(v)
  BY <1>2, <1>5, <1>8, <1>11, <1>12, <1>13, <1>14, ContainerAgain
<1> QED
  BY <1>1, <1>10, <1>12, <1>13, <1>15 DEF IsStable

LEMMA AllStable ==
  ASSUME NEW type, IsType(type), NEW v, IsReadAs(v, type)
  PROVE  FromNode(ToNode(v, type), type) = Ok(v)
<1> DEFINE K == {n \in Nat : StableBelow(n)}
<1>1. 0 \in K
  BY StableScalars
<1>2. ASSUME NEW n \in Nat, n \in K
      PROVE  n + 1 \in K
  BY <1>2, StableContainers
<1>3. Nat \subseteq K
  <2> HIDE DEF K
  <2> QED
    BY <1>1, <1>2, SetInduction
<1>4. PICK n \in Nat : n = Len(type.containers)
  <2>1. type.containers \in Seq(Containers)
    BY DEF IsType
  <2> QED
    BY <2>1
<1>5. StableBelow(n)
  BY <1>3
<1> QED
  BY <1>4, <1>5, Zenon DEF StableBelow, IsStable

-----------------------------------------------------------------------------
(* The results.                                                            *)

\* For all input over any alphabet of bytes, StringToWstring takes what
\* Unicode calls UTF-8 and nothing else, and WstringToString gives it back:
\* the checks of DecodeUtf8CodePoint on the lead byte, the continuation bytes
\* and the code point leave out no case and let none through.
THEOREM Utf8Exactness == Spec => []Utf8Exact
<1>1. InputOver => Utf8Exact
  <2>1. SUFFICES ASSUME InputOver, kind = "bytes"
                 PROVE  Utf8Exact
    BY Zenon DEF Utf8Exact
  <2>2. input \in Seq(Alphabet["bytes"])
    BY <2>1, Zenon DEF InputOver
  <2>3. input \in Seq(Byte)
    BY <2>2, AlphabetAssumption, SeqSubset, Zenon DEF Byte
  <2>4. PICK text \in Seq(Byte) : text = input
    BY <2>3, Zenon
  <2>5. ASSUME NEW size \in {2, 4}
        PROVE  /\ DecodeFrom(text, size).valid <=> IsUtf8(text)
               /\ DecodeFrom(text, size).valid =>
                     WstringToString(DecodeFrom(text, size).text, size) = text
    <3>1. DecodeFrom(text, size).valid <=> IsUtf8(text)
      BY DecodeValid, Zenon DEF Byte
    <3>2. ASSUME DecodeFrom(text, size).valid
          PROVE  WstringToString(DecodeFrom(text, size).text, size) = text
      <4>1. EncodeFrom(DecodeFrom(text, size).text, size) = Valid(text)
        BY <3>2, DecodeBack, Zenon DEF Byte
      <4> QED
        BY <4>1, ValidFields, Zenon DEF WstringToString, TextOf
    <3> QED
      BY <3>1, <3>2
  <2> QED
    BY <2>4, <2>5, Zenon DEF Utf8Exact
<1> QED
  BY <1>1, InputInvariant, PTL

\* For all input over any alphabet of units, WstringToString takes the strings
\* with no lone surrogate and no unit beyond the last code point and nothing
\* else; what it returns is UTF-8, and StringToWstring gives the string back.
THEOREM WideExactness == Spec => []WideExact
<1>1. InputOver => WideExact
  <2>1. SUFFICES ASSUME InputOver, kind = "units"
                 PROVE  WideExact
    BY SMT DEF WideExact
  <2>2. input \in Seq(Alphabet["units"])
    BY <2>1, Zenon DEF InputOver
  <2>3. input \in Seq(Nat)
    BY <2>2, AlphabetAssumption, SeqSubset, Zenon
  <2>4. PICK text \in Seq(Nat) : text = input
    BY <2>3, Zenon
  <2>5. ASSUME NEW size \in {2, 4}, size = 2 => \A i \in DOMAIN text : text[i] <= 65535
        PROVE  /\ EncodeFrom(text, size).valid <=> IsWide(text, size)
               /\ EncodeFrom(text, size).valid =>
                     /\ IsUtf8(EncodeFrom(text, size).text)
                     /\ StringToWstring(EncodeFrom(text, size).text, size) = text
    <3>1. text \in Seq(WideUnits(size))
      <4>1. ASSUME NEW i \in DOMAIN text
            PROVE  text[i] \in WideUnits(size)
        <5>1. text[i] \in Nat
          BY SMT
        <5>2. size = 2 => ~Astral(text[i])
          BY <2>5, <5>1, SMT DEF Astral
        <5> QED
          BY <5>1, <5>2, Zenon DEF WideUnits
      <4>2. Len(text) \in Nat /\ DOMAIN text = 1 .. Len(text) /\ text = [i \in 1 .. Len(text) |-> text[i]]
        BY SMT
      <4> QED
        BY <4>1, <4>2, SMT
    <3>2. EncodeFrom(text, size).valid <=> IsWide(text, size)
      BY <3>1, EncodeValid, Zenon
    <3>3. ASSUME EncodeFrom(text, size).valid
          PROVE  /\ IsUtf8(EncodeFrom(text, size).text)
                 /\ StringToWstring(EncodeFrom(text, size).text, size) = text
      <4>1. PICK utf8 : utf8 = EncodeFrom(text, size).text
        BY Zenon
      <4>2. utf8 \in Seq(Byte) /\ DecodeFrom(utf8, size) = Valid(text)
        BY <3>1, <3>3, <4>1, EncodeBack, Zenon
      <4>3. DecodeFrom(utf8, size).valid /\ DecodeFrom(utf8, size).text = text
        BY <4>2, ValidFields, Zenon
      <4>4. IsUtf8(utf8)
        BY <4>2, <4>3, DecodeValid, Zenon DEF Byte
      <4> QED
        BY <4>1, <4>3, <4>4, Zenon DEF StringToWstring, TextOf
    <3> QED
      BY <3>2, <3>3
  <2> QED
    BY <2>4, <2>5, SMT DEF WideExact
<1> QED
  BY <1>1, InputInvariant, PTL

\* For all input over any alphabet, parse accepts a pattern exactly when it is
\* one by the comment above parse; the items it then builds are all made, spell
\* the pattern, and hold no empty literal and no two literals in a row.
THEOREM ParseFaithfulness == Spec => []ParseFaithful
<1>1. InputOver => ParseFaithful
  <2>1. SUFFICES ASSUME InputOver, kind = "pattern"
                 PROVE  FaithfullyParsed(input)
    BY FaithfulIs, Zenon
  <2>2. input \in Seq(Alphabet["pattern"])
    BY <2>1, Zenon DEF InputOver
  <2>3. PICK C : C = Alphabet["pattern"] \cup Directives \cup {"%", LeftBrace, RightBrace}
    BY Zenon
  <2>4. IsCharSet(C) /\ Alphabet["pattern"] \subseteq C
    BY <2>3, Zenon DEF IsCharSet
  <2>5. input \in Seq(C)
    BY <2>2, <2>4, SeqSubset, Zenon
  <2>6. PICK pattern \in Seq(C) : pattern = input
    BY <2>5, Zenon
  <2>7. FaithfullyParsed(pattern)
    BY <2>4, ParseExact, Zenon
  <2> QED
    BY <2>6, <2>7, Zenon
<1> QED
  BY <1>1, InputInvariant, PTL

\* For all input over any alphabet and all ranges of integers, ParseArithmetic
\* takes a text exactly when its trimmed body is a plus sign, a prefix for base
\* 16, a minus sign and digits as the type allows them, with a value in the
\* type's range, and returns this value: its early returns for the signs, the
\* prefix and from_chars' end pointer let no other text through.
THEOREM NumbersExactness == Spec => []NumbersExact
<1>1. InputOver => NumbersExact
  <2>1. SUFFICES ASSUME InputOver, kind = "number", NEW type \in IntTypes
                 PROVE  Meanings(input, type) =
                           IF ParseArithmetic(input, type).ok
                           THEN {ParseArithmetic(input, type).value} ELSE {}
    BY Zenon DEF NumbersExact
  <2>2. input \in Seq(Alphabet["number"])
    BY <2>1, Zenon DEF InputOver
  <2>3. PICK text \in Seq(Alphabet["number"]) : text = input
    BY <2>2, Zenon
  <2>4. Meanings(text, type) =
           IF ParseArithmetic(text, type).ok THEN {ParseArithmetic(text, type).value} ELSE {}
    BY ParseNumberExact
  <2> QED
    BY <2>3, <2>4, Zenon
<1> QED
  BY <1>1, InputInvariant, PTL

\* For all YAML files, CollectMembers throws exactly when one nests deeper than
\* the limit; otherwise its members are the nodes that are reached by valid
\* names, each under its dotted name in lower case and at its place in the
\* order of the file, none of them left out, doubled or moved by the
\* recursion, and it reports success exactly when no key was skipped.
THEOREM MembersExactness == Spec => []MembersExact
<1>1. InputOver => MembersExact
  <2>1. SUFFICES ASSUME InputOver, kind = "node"
                 PROVE  MembersRight(input)
    BY Zenon DEF MembersExact, MembersRight
  <2>2. input \in Nodes
    BY <2>1, AlphabetAssumption, Zenon DEF InputOver
  <2> QED
    BY <2>2, MembersAreRight
<1> QED
  BY <1>1, InputInvariant, PTL

\* A value that was read from a node of a file and saved loads as the same
\* value, for any nodes and any nesting of containers.
THEOREM ConversionStability == Spec => []ConversionStable
<1>1. InputOver => ConversionStable
  <2>1. SUFFICES ASSUME InputOver, kind = "node", NEW type \in Types, FromNode(input, type).ok
                 PROVE  FromNode(ToNode(FromNode(input, type).value, type), type) = FromNode(input, type)
    BY Zenon DEF ConversionStable
  <2>2. IsType(type)
    BY TypesAssumption DEF IsType, Containers
  <2>3. FromNode(input, type) = Ok(FromNode(input, type).value)
    BY <2>1, <2>2, FromNodeResult, ResultIs
  <2>4. IsReadAs(FromNode(input, type).value, type)
    <3>1. input \in Nodes
      BY <2>1, AlphabetAssumption, Zenon DEF InputOver
    <3> QED
      BY <2>3, <3>1, Zenon DEF IsReadAs
  <2> QED
    BY <2>2, <2>3, <2>4, AllStable, Zenon
<1> QED
  BY <1>1, InputInvariant, PTL
=============================================================================
