-------------------------- MODULE FormatterProofs --------------------------
(***************************************************************************)
(* What holds of Formatter for any threads, records, patterns, capacities  *)
(* and conversions: every record that is written is exact, whatever the    *)
(* cached dates, the growing buffers and setFormatter did in between.      *)
(*                                                                         *)
(* The argument is an invariant of each call, which has put out the exact  *)
(* texts of the items so far, and of each cached date, which is that of    *)
(* its key once it is valid.  That the code's arithmetic gives the exact   *)
(* text of a time is shown apart from it.                                  *)
(***************************************************************************)
EXTENDS Formatter, Recursion

-----------------------------------------------------------------------------
(* Division and the moment of a time.                                      *)

\* A quotient is known by the interval its multiples give.
LEMMA QuotientUnique ==
  ASSUME NEW x \in Int, NEW d \in Nat \ {0}, NEW q \in Int, d * q <= x, x < d * q + d
  PROVE  x \div d = q
<1>1. PICK y \in Int : y = x \div d
  OBVIOUS
<1>2. d * y <= x /\ x < d * y + d
  BY <1>1
<1>3. d * (y - q) < d /\ d * (q - y) < d
  BY <1>2
<1>4. ASSUME NEW z \in Int, z >= 1
      PROVE  d * z >= d
  BY <1>4
<1>5. ~(y - q >= 1) /\ ~(q - y >= 1)
  BY <1>3, <1>4
<1> QED
  BY <1>1, <1>5

\* Dividing twice is dividing by the product.
LEMMA QuotientTwice ==
  ASSUME NEW x \in Int, NEW a \in Nat \ {0}, NEW b \in Nat \ {0}
  PROVE  (x \div a) \div b = x \div (a * b)
<1>1. PICK k \in Int : k = x \div a
  OBVIOUS
<1>2. a * k <= x /\ x < a * k + a
  BY <1>1
<1>3. PICK q \in Int : q = k \div b
  OBVIOUS
<1>4. b * q <= k /\ k + 1 <= b * q + b
  BY <1>3
<1>5. ASSUME NEW u \in Int, NEW v \in Int, u <= v
      PROVE  a * u <= a * v
  BY <1>5
<1>6. a * (b * q) <= a * k /\ a * (k + 1) <= a * (b * q + b)
  BY <1>4, <1>5
<1>7. a * (b * q) = (a * b) * q /\ a * (b * q + b) = (a * b) * q + a * b /\ a * (k + 1) = a * k + a
  OBVIOUS
<1>8. a * b \in Nat \ {0}
  OBVIOUS
<1>9. x \div (a * b) = q
  <2>1. PICK p \in Nat \ {0} : p = a * b
    BY <1>8
  <2>2. p * q <= x /\ x < p * q + p
    BY <1>2, <1>6, <1>7, <2>1
  <2> QED
    BY <2>1, <2>2, QuotientUnique
<1> QED
  BY <1>1, <1>3, <1>9

LEMMA QuotientRemainder ==
  ASSUME NEW k \in Int, NEW P \in Nat \ {0}
  PROVE  k % P \in 0 .. P - 1 /\ k \div P \in Int /\ k = P * (k \div P) + (k % P)
<1>1. k % P \in 0 .. P - 1
  OBVIOUS
<1>2. k = P * (k \div P) + (k % P)
  OBVIOUS
<1> QED
  BY <1>1, <1>2

\* The remainder of C++, corrected, is that of \div, which is never negative.
LEMMA NonNegativeRemainder ==
  ASSUME NEW k \in Int, NEW P \in Nat \ {0}, P = Power10[MICROSECONDS_WIDTH]
  PROVE  NonNegative(Remainder(k, P)) = k % P
<1>1. PICK m \in 0 .. P - 1 : m = k % P
  BY QuotientRemainder
<1>2. PICK d \in Int : d = k \div P /\ k = P * d + m
  BY <1>1, QuotientRemainder
<1>3. CASE k >= 0
  BY <1>1, <1>2, <1>3 DEF NonNegative, Remainder, Truncated
<1>4. CASE k < 0
  <2>1. -k \in Int
    OBVIOUS
  <2>2. PICK r \in 0 .. P - 1 : r = (-k) % P
    BY <2>1, QuotientRemainder
  <2>3. PICK q \in Int : q = (-k) \div P /\ -k = P * q + r
    BY <2>1, <2>2, QuotientRemainder
  <2>4. Remainder(k, P) = -r
    BY <1>4, <2>3 DEF Remainder, Truncated
  <2>5. NonNegative(Remainder(k, P)) = IF r = 0 THEN 0 ELSE P - r
    BY <2>4 DEF NonNegative
  <2>6. P * (-q) = -(P * q) /\ P * (-q - 1) = -(P * q) - P
    OBVIOUS
  <2>7. CASE r = 0
    <3>1. P * (-q) <= k /\ k < P * (-q) + P
      BY <2>3, <2>6, <2>7
    <3>2. d = -q
      <4>1. PICK e \in Int : e = -q
        OBVIOUS
      <4> QED
        BY <1>2, <3>1, <4>1, QuotientUnique
    <3>3. P * d = P * (-q)
      BY <3>2
    <3>4. m = 0
      BY <1>2, <2>3, <2>6, <2>7, <3>3
    <3> QED
      BY <1>1, <2>5, <2>7, <3>4
  <2>8. CASE r # 0
    <3>1. P * (-q - 1) <= k /\ k < P * (-q - 1) + P
      BY <2>3, <2>6, <2>8
    <3>2. d = -q - 1
      BY <1>2, <3>1, QuotientUnique
    <3>3. P * d = P * (-q - 1)
      BY <3>2
    <3>4. m = P - r
      BY <1>2, <2>3, <2>6, <3>3
    <3> QED
      BY <1>1, <2>5, <2>8, <3>4
  <2> QED
    BY <2>7, <2>8
<1> QED
  BY <1>3, <1>4

W == MICROSECONDS_WIDTH

LEMMA Powers ==
  /\ \A n \in 0 .. W : Power10[n] \in Nat \ {0}
  /\ Power10[0] = 1 /\ \A n \in 1 .. W : Power10[n] = 10 * Power10[n - 1]
<1>0. PICK w \in Nat : w = W
  BY FormatterAssumption DEF W
<1> DEFINE V == Nat \ {0}
           step == [i \in 1 .. w |-> [v \in V |-> 10 * v]]
<1>1. IsStep(step, V, w) /\ 1 \in V
  BY DEF IsStep
<1>2. HasRun(1, step, V, w)
  <2> HIDE DEF step
  <2> QED
    BY <1>1, StepRecursion
<1>3. PICK f \in [0 .. w -> V] : f[0] = 1 /\ \A i \in 1 .. w : f[i] = step[i][f[i - 1]]
  <2> HIDE DEF step
  <2> QED
    BY <1>2 DEF HasRun
<1>4. \A i \in 1 .. w : i - 1 \in 0 .. w
  OBVIOUS
<1>5. f = [n \in 0 .. w |-> IF n = 0 THEN 1 ELSE 10 * f[n - 1]]
  <2>1. \A i \in 1 .. w : f[i] = 10 * f[i - 1]
    BY <1>3, <1>4
  <2>2. \A i \in 0 .. w : i # 0 => i \in 1 .. w
    OBVIOUS
  <2> HIDE DEF step, V
  <2> QED
    BY <1>3, <2>1, <2>2
<1>6. Power10 = [n \in 0 .. w |-> IF n = 0 THEN 1 ELSE 10 * Power10[n - 1]]
  BY <1>0, <1>5 DEF Power10, W
<1> DEFINE K == {i \in Nat : i \in 0 .. w => Power10[i] = f[i]}
<1>7. 0 \in K
  BY <1>3, <1>6
<1>8. ASSUME NEW i \in Nat, i \in K
      PROVE  i + 1 \in K
  <2>1. SUFFICES ASSUME i + 1 \in 0 .. w
                 PROVE  Power10[i + 1] = f[i + 1]
    OBVIOUS
  <2>2. i \in 0 .. w /\ i + 1 # 0 /\ (i + 1) - 1 = i
    BY <2>1
  <2> HIDE DEF step
  <2>3. f[i + 1] = 10 * f[i] /\ Power10[i + 1] = 10 * Power10[i]
    BY <1>5, <1>6, <2>1, <2>2
  <2> QED
    BY <1>8, <2>2, <2>3
<1>9. Nat \subseteq K
  <2> HIDE DEF K
  <2> QED
    BY <1>7, <1>8, SetInduction
<1>10. \A i \in 0 .. w : Power10[i] = f[i]
  BY <1>9
<1> QED
  BY <1>0, <1>3, <1>4, <1>5, <1>10

\* The one date and number of microseconds that give a time back.
LEMMA MomentExact ==
  ASSUME NEW time \in Int
  PROVE  /\ Moment(time).second = SecondOf(time)
         /\ Moment(time).micro = (time \div TicksPerMicro) % Power10[W]
         /\ Moment(time).micro \in 0 .. Power10[W] - 1
<1>1. PICK a \in Nat \ {0} : a = TicksPerMicro
  BY FormatterAssumption
<1>2. PICK P \in Nat \ {0} : P = Power10[W]
  <2>1. W \in 0 .. W
    BY FormatterAssumption DEF W
  <2> QED
    BY <2>1, Powers
<1>3. PICK S \in Nat \ {0} : S = a * P /\ S = TicksPerSecond
  BY <1>1, <1>2 DEF TicksPerSecond, W
<1>4. PICK k \in Int : k = time \div a /\ a * k <= time /\ time < a * k + a
  BY QuotientRemainder
<1>5. PICK m \in 0 .. P - 1 : m = k % P
  BY QuotientRemainder
<1>6. PICK s \in Int : s = k \div P /\ k = P * s + m
  BY <1>5, QuotientRemainder
<1>7. s = time \div S
  <2>1. (time \div a) \div P = time \div (a * P)
    BY QuotientTwice
  <2>2. s = (time \div a) \div P
    BY <1>4, <1>6
  <2>3. time \div (a * P) = time \div S
    BY <1>3
  <2> QED
    BY <2>1, <2>2, <2>3
<1>8. a * k = s * S + m * a
  <2>1. a * k = a * (P * s + m)
    BY <1>6
  <2>2. a * (P * s + m) = s * (a * P) + m * a
    OBVIOUS
  <2>3. s * (a * P) = s * S
    BY <1>3
  <2> QED
    BY <2>1, <2>2, <2>3
<1> DEFINE Moments == [second : s - 1 .. s + 1, micro : 0 .. P - 1]
           Gives(x) == time \in x.second * S + x.micro * a .. x.second * S + x.micro * a + a - 1
<1>9. Moment(time) = CHOOSE x \in Moments : Gives(x)
  BY <1>1, <1>2, <1>3, <1>7 DEF Moment, W
<1>10. \E x \in Moments : Gives(x)
  <2>1. [second |-> s, micro |-> m] \in Moments
    OBVIOUS
  <2>2. Gives([second |-> s, micro |-> m])
    <3>1. s * S \in Int /\ m * a \in Int
      OBVIOUS
    <3> QED
      BY <1>4, <1>8, <3>1
  <2> QED
    BY <2>1, <2>2
<1>11. Moment(time) \in Moments /\ Gives(Moment(time))
  <2> HIDE DEF Moments, Gives
  <2> QED
    BY <1>9, <1>10
<1>12. PICK t \in Int, n \in 0 .. P - 1 :
           /\ t = Moment(time).second /\ n = Moment(time).micro
           /\ t * S + n * a <= time /\ time < t * S + n * a + a
  <2>1. PICK x \in Moments : x = Moment(time) /\ Gives(x)
    BY <1>11
  <2>2. x.second \in Int /\ x.micro \in 0 .. P - 1
    BY <2>1
  <2>3. x.second * S \in Int /\ x.micro * a \in Int
    BY <2>2
  <2> QED
    BY <2>1, <2>2, <2>3
<1>13. t * S + n * a = a * (P * t + n)
  <2>1. t * S = t * (a * P)
    BY <1>3
  <2>2. t * (a * P) + n * a = a * (P * t + n)
    OBVIOUS
  <2> QED
    BY <2>1, <2>2
<1>14. P * t + n = k
  <2>1. PICK j \in Int : j = P * t + n
    OBVIOUS
  <2> QED
    BY <1>4, <1>12, <1>13, <2>1, QuotientUnique
<1>15. t = s
  <2>1. P * t <= k /\ k < P * t + P
    BY <1>14
  <2> QED
    BY <1>6, <2>1, QuotientUnique
<1>16. n = m
  <2>1. P * t = P * s
    BY <1>15
  <2> QED
    BY <1>6, <1>14, <2>1
<1> QED
  BY <1>1, <1>2, <1>3, <1>4, <1>5, <1>7, <1>12, <1>15, <1>16 DEF SecondOf

-----------------------------------------------------------------------------
(* Decimal digits.                                                         *)

DigitTokens == {Numeral(k) : k \in 0 .. 9}
DigitOf(token) == CHOOSE k \in 0 .. 9 : Numeral(k) = token

LEMMA DigitOfNumeral ==
  /\ \A k \in 0 .. 9 : DigitOf(Numeral(k)) = k
  /\ \A token \in DigitTokens : DigitOf(token) \in 0 .. 9 /\ Numeral(DigitOf(token)) = token
<1>1. ASSUME NEW k \in 0 .. 9
      PROVE  DigitOf(Numeral(k)) \in 0 .. 9 /\ Numeral(DigitOf(Numeral(k))) = Numeral(k)
  BY DEF DigitOf
<1>2. \A m, n \in 0 .. 9 : Numeral(m) = Numeral(n) => m = n
  BY FormatterAssumption
<1>3. \A k \in 0 .. 9 : DigitOf(Numeral(k)) = k
  BY <1>1, <1>2
<1> QED
  BY <1>1, <1>3 DEF DigitTokens

\* The values of the beginnings of digits.
Counts(u, digits) ==
    /\ u \in [0 .. W -> Nat] /\ u[0] = 0
    /\ \A i \in 1 .. W : u[i] = 10 * u[i - 1] + DigitOf(digits[i])

LEMMA NumberOfCounts ==
  ASSUME NEW digits \in [1 .. W -> DigitTokens]
  PROVE  \E u : Counts(u, digits) /\ NumberOf(digits) = u[W]
<1>0. PICK w \in Nat : w = W
  BY FormatterAssumption DEF W
<1> DEFINE step == [i \in 1 .. w |-> [v \in Nat |-> 10 * v + DigitOf(digits[i])]]
<1>1. \A i \in 1 .. w : DigitOf(digits[i]) \in Nat
  BY <1>0, DigitOfNumeral
<1>2. IsStep(step, Nat, w)
  <2>1. ASSUME NEW i \in 1 .. w, NEW v \in Nat
        PROVE  10 * v + DigitOf(digits[i]) \in Nat
    BY <1>1
  <2> QED
    BY <2>1 DEF IsStep
<1>3. HasRun(0, step, Nat, w)
  <2> HIDE DEF step
  <2> QED
    BY <1>2, StepRecursion
<1>4. PICK f \in [0 .. w -> Nat] : f[0] = 0 /\ \A i \in 1 .. w : f[i] = step[i][f[i - 1]]
  <2> HIDE DEF step
  <2> QED
    BY <1>3 DEF HasRun
<1>5. \A i \in 1 .. w : i - 1 \in 0 .. w
  OBVIOUS
<1>6. \A i \in 1 .. w : f[i] = 10 * f[i - 1] + DigitOf(digits[i])
  BY <1>4, <1>5
<1>7. f = [i \in 0 .. w |-> IF i = 0 THEN 0 ELSE 10 * f[i - 1] + DigitOf(digits[i])]
  <2>1. \A i \in 0 .. w : i # 0 => i \in 1 .. w
    OBVIOUS
  <2> HIDE DEF step
  <2> QED
    BY <1>4, <1>6, <2>1
<1> DEFINE upto == CHOOSE g : g = [i \in 0 .. w |-> IF i = 0 THEN 0
                                   ELSE 10 * g[i - 1] + DigitOf(digits[i])]
<1>8. Len(digits) = w
  BY <1>0
<1>9. NumberOf(digits) = upto[w]
  BY <1>8 DEF NumberOf, DigitOf
<1>10. upto = [i \in 0 .. w |-> IF i = 0 THEN 0 ELSE 10 * upto[i - 1] + DigitOf(digits[i])]
  BY <1>7
<1> DEFINE K == {i \in Nat : i \in 0 .. w => upto[i] = f[i]}
<1> HIDE DEF upto, step
<1>11. 0 \in K
  BY <1>4, <1>10
<1>12. ASSUME NEW i \in Nat, i \in K
       PROVE  i + 1 \in K
  <2>1. SUFFICES ASSUME i + 1 \in 0 .. w
                 PROVE  upto[i + 1] = f[i + 1]
    OBVIOUS
  <2>2. i \in 0 .. w /\ i + 1 # 0 /\ (i + 1) - 1 = i /\ i + 1 \in 1 .. w
    BY <2>1
  <2>3. /\ f[i + 1] = 10 * f[i] + DigitOf(digits[i + 1])
        /\ upto[i + 1] = 10 * upto[i] + DigitOf(digits[i + 1])
    BY <1>6, <1>10, <2>1, <2>2
  <2> QED
    BY <1>12, <2>2, <2>3
<1>13. w \in K
  <2> HIDE DEF K
  <2> QED
    BY <1>11, <1>12, SetInduction
<1>14. NumberOf(digits) = f[W]
  BY <1>0, <1>9, <1>13
<1>15. Counts(f, digits)
  BY <1>0, <1>4, <1>6 DEF Counts
<1> QED
  BY <1>14, <1>15

\* Different digits are different numbers.
LEMMA NumberOfInjective ==
  ASSUME NEW x \in [1 .. W -> DigitTokens], NEW y \in [1 .. W -> DigitTokens],
         NumberOf(x) = NumberOf(y)
  PROVE  x = y
<1>0. PICK w \in Nat : w = W
  BY FormatterAssumption DEF W
<1>1. PICK u : Counts(u, x) /\ NumberOf(x) = u[w]
  BY <1>0, NumberOfCounts
<1>2. PICK v : Counts(v, y) /\ NumberOf(y) = v[w]
  BY <1>0, NumberOfCounts
<1>3. ASSUME NEW i \in 1 .. w, u[i] = v[i]
      PROVE  u[i - 1] = v[i - 1] /\ x[i] = y[i]
  <2>1. PICK a \in 0 .. 9 : a = DigitOf(x[i]) /\ Numeral(a) = x[i]
    BY <1>0, DigitOfNumeral
  <2>2. PICK b \in 0 .. 9 : b = DigitOf(y[i]) /\ Numeral(b) = y[i]
    BY <1>0, DigitOfNumeral
  <2>3. i - 1 \in 0 .. w /\ u[i - 1] \in Nat /\ v[i - 1] \in Nat
    BY <1>0, <1>1, <1>2 DEF Counts
  <2>4. 10 * u[i - 1] + a = 10 * v[i - 1] + b
    BY <1>0, <1>1, <1>2, <1>3, <2>1, <2>2 DEF Counts
  <2>5. a = b /\ u[i - 1] = v[i - 1]
    BY <2>3, <2>4
  <2> QED
    BY <2>1, <2>2, <2>5
<1> DEFINE K == {n \in Nat : n <= w => u[w - n] = v[w - n]}
<1>4. 0 \in K
  <2>1. w - 0 = w
    OBVIOUS
  <2> QED
    BY <1>1, <1>2, <2>1
<1>5. ASSUME NEW n \in Nat, n \in K
      PROVE  n + 1 \in K
  <2>1. SUFFICES ASSUME n + 1 <= w
                 PROVE  u[w - (n + 1)] = v[w - (n + 1)]
    OBVIOUS
  <2>2. w - n \in 1 .. w /\ (w - n) - 1 = w - (n + 1)
    BY <2>1
  <2> QED
    BY <1>3, <1>5, <2>1, <2>2
<1>6. Nat \subseteq K
  <2> HIDE DEF K
  <2> QED
    BY <1>4, <1>5, SetInduction
<1>7. \A i \in 1 .. w : u[i] = v[i]
  <2>1. \A i \in 1 .. w : w - i \in K /\ w - i <= w /\ w - (w - i) = i
    BY <1>6
  <2> QED
    BY <2>1
<1> QED
  BY <1>0, <1>3, <1>7

\* The digits that are put out are those of the number.
LEMMA NumberOfDigits ==
  ASSUME NEW m \in 0 .. Power10[W] - 1,
         NEW digits, digits = [i \in 1 .. W |-> Numeral((m \div Power10[W - i]) % 10)]
  PROVE  digits \in [1 .. W -> DigitTokens] /\ NumberOf(digits) = m
<1>0. PICK w \in Nat : w = W
  BY FormatterAssumption DEF W
<1>1. \A i \in 0 .. w : Power10[i] \in Nat \ {0}
  BY <1>0, Powers
<1>2. \A i \in 0 .. w : w - i \in 0 .. w
  OBVIOUS
<1>3. m \in Nat
  BY <1>0, <1>1
<1>4. ASSUME NEW i \in 1 .. w
      PROVE  /\ (m \div Power10[w - i]) % 10 \in 0 .. 9
             /\ digits[i] = Numeral((m \div Power10[w - i]) % 10)
             /\ DigitOf(digits[i]) = (m \div Power10[w - i]) % 10
             /\ m \div Power10[w - i] = 10 * (m \div Power10[w - (i - 1)]) + DigitOf(digits[i])
  <2>1. PICK p \in Nat \ {0} : p = Power10[w - i]
    BY <1>1, <1>2
  <2>2. PICK q \in Int : q = m \div p
    BY <1>3
  <2>3. q % 10 \in 0 .. 9 /\ q = 10 * (q \div 10) + (q % 10)
    OBVIOUS
  <2>4. Power10[w - (i - 1)] = p * 10
    <3>1. w - (i - 1) \in 1 .. w /\ (w - (i - 1)) - 1 = w - i
      OBVIOUS
    <3> QED
      BY <1>0, <2>1, <3>1, Powers
  <2>5. q \div 10 = m \div Power10[w - (i - 1)]
    <3>1. 10 \in Nat \ {0} /\ m \in Int
      BY <1>3
    <3>2. (m \div p) \div 10 = m \div (p * 10)
      BY <3>1, QuotientTwice
    <3> QED
      BY <2>2, <2>4, <3>2
  <2>6. digits[i] = Numeral(q % 10)
    BY <1>0, <2>1, <2>2
  <2>7. DigitOf(digits[i]) = q % 10
    BY <2>3, <2>6, DigitOfNumeral
  <2> QED
    BY <2>1, <2>2, <2>3, <2>5, <2>6, <2>7
<1>5. digits \in [1 .. W -> DigitTokens]
  BY <1>0, <1>4 DEF DigitTokens
<1>6. PICK u : Counts(u, digits) /\ NumberOf(digits) = u[w]
  BY <1>0, <1>5, NumberOfCounts
<1> DEFINE K == {i \in Nat : i \in 0 .. w => u[i] = m \div Power10[w - i]}
<1>7. 0 \in K
  <2>1. m \div Power10[w] = 0
    <3>1. PICK p \in Nat \ {0} : p = Power10[w]
      BY <1>1
    <3> QED
      BY <1>0, <1>3, <3>1, QuotientUnique
  <2> QED
    BY <1>6, <2>1 DEF Counts
<1>8. ASSUME NEW i \in Nat, i \in K
      PROVE  i + 1 \in K
  <2>1. SUFFICES ASSUME i + 1 \in 0 .. w
                 PROVE  u[i + 1] = m \div Power10[w - (i + 1)]
    OBVIOUS
  <2>2. i \in 0 .. w /\ (i + 1) - 1 = i /\ i + 1 \in 1 .. w
    BY <2>1
  <2>3. u[i + 1] = 10 * u[i] + DigitOf(digits[i + 1])
    BY <1>0, <1>6, <2>2 DEF Counts
  <2>4. m \div Power10[w - (i + 1)] = 10 * (m \div Power10[w - i]) + DigitOf(digits[i + 1])
    BY <1>4, <2>2
  <2> QED
    BY <1>8, <2>2, <2>3, <2>4
<1>9. w \in K
  <2> HIDE DEF K
  <2> QED
    BY <1>7, <1>8, SetInduction
<1>10. m \div Power10[w - w] = m
  <2>1. w - w = 0 /\ Power10[0] = 1 /\ m \div 1 = m
    BY <1>3, Powers
  <2> QED
    BY <2>1
<1> QED
  BY <1>5, <1>6, <1>9, <1>10

\* %u puts out the microseconds of the time, before the epoch as well.
LEMMA MicrosecondsExact ==
  ASSUME NEW time \in Int
  PROVE  /\ Microseconds(time) \in [1 .. W -> DigitTokens]
         /\ Microseconds(time) = CHOOSE digits \in [1 .. W -> DigitTokens] :
                                     NumberOf(digits) = Moment(time).micro
<1>1. PICK m \in 0 .. Power10[W] - 1 :
          m = Moment(time).micro /\ m = (time \div TicksPerMicro) % Power10[W]
  BY MomentExact
<1>2. NonNegative(Remainder(time \div TicksPerMicro, Power10[W])) = m
  <2>1. PICK P \in Nat \ {0} : P = Power10[W]
    <3>1. W \in 0 .. W
      BY FormatterAssumption DEF W
    <3> QED
      BY <3>1, Powers
  <2>2. PICK k \in Int : k = time \div TicksPerMicro
    BY FormatterAssumption
  <2> QED
    BY <1>1, <2>1, <2>2, NonNegativeRemainder DEF W
<1>3. Microseconds(time) = [i \in 1 .. W |-> Numeral((m \div Power10[W - i]) % 10)]
  BY <1>2 DEF Microseconds, W
<1>4. PICK x \in [1 .. W -> DigitTokens] : x = Microseconds(time) /\ NumberOf(x) = m
  BY <1>3, NumberOfDigits
<1> DEFINE y == CHOOSE digits \in [1 .. W -> DigitTokens] : NumberOf(digits) = m
<1>5. y \in [1 .. W -> DigitTokens] /\ NumberOf(y) = m
  BY <1>4
<1>6. x = y
  <2> HIDE DEF y
  <2> QED
    BY <1>4, <1>5, NumberOfInjective
<1> QED
  BY <1>1, <1>4, <1>6

-----------------------------------------------------------------------------
(* Texts and the buffer.                                                   *)

Characters == Tokens \cup {Numeral(n) : n \in Int} \cup {"\t", "\n", "!"}
Texts == Seq(Characters)

LEMMA TokensAreTexts == Seq(Tokens) \subseteq Texts
<1>1. Tokens \subseteq Characters
  BY DEF Characters
<1> QED
  BY <1>1, SeqMonotonic DEF Texts

BufferInv(b) ==
    /\ b \in [inline : Texts, overflow : Texts, size : Nat]
    /\ b.size = IF b.overflow = <<>> THEN Len(b.inline) ELSE Len(b.overflow)

LEMMA BufferView ==
  ASSUME NEW b, BufferInv(b)
  PROVE  /\ Buffer!view(b) \in Texts
         /\ Buffer!view(b) = IF b.overflow = <<>> THEN b.inline ELSE b.overflow
BY SubSeqFull DEF BufferInv, Texts, Buffer!view

\* append appends, inline, at the spill and after it, for every capacity.
LEMMA Appends ==
  ASSUME NEW b, BufferInv(b), NEW data \in Texts
  PROVE  /\ BufferInv(Buffer!append(b, data))
         /\ Buffer!view(Buffer!append(b, data)) = Buffer!view(b) \o data
<1>0. PICK c : c = Buffer!append(b, data)
  OBVIOUS
<1>1. b.inline \in Texts /\ b.overflow \in Texts /\ b.size \in Nat
  BY DEF BufferInv
<1>2. CASE data = <<>>
  BY <1>2, BufferView DEF Buffer!append, Texts
<1>3. CASE data # <<>> /\ Buffer!Fits(b, data)
  <2>1. b.overflow = <<>> /\ SubSeq(b.inline, 1, b.size) = b.inline /\ b.size = Len(b.inline)
    BY <1>1, <1>3, SubSeqFull DEF Buffer!Fits, BufferInv, Texts
  <2>2. c = [b EXCEPT !.inline = b.inline \o data, !.size = b.size + Len(data)]
    BY <1>0, <1>3, <2>1 DEF Buffer!append
  <2>3. /\ b.inline \o data \in Texts /\ Len(b.inline \o data) = Len(b.inline) + Len(data)
        /\ b.size + Len(data) \in Nat
    BY <1>1 DEF Texts
  <2>4. c = [inline |-> b.inline \o data, overflow |-> <<>>, size |-> b.size + Len(data)]
    BY <2>1, <2>2 DEF BufferInv
  <2>5. <<>> \in Texts
    BY DEF Texts
  <2>6. BufferInv(c) /\ c.inline = b.inline \o data /\ c.overflow = <<>>
    BY <2>1, <2>3, <2>4, <2>5 DEF BufferInv
  <2>7. Buffer!view(b) = b.inline /\ Buffer!view(c) = b.inline \o data
    BY <2>1, <2>6, BufferView
  <2>8. BufferInv(c) /\ Buffer!view(c) = Buffer!view(b) \o data
    BY <2>6, <2>7
  <2> QED
    BY <1>0, <2>8, Zenon
<1>4. CASE data # <<>> /\ ~Buffer!Fits(b, data)
  <2>1. Buffer!Spilled(b) = Buffer!view(b)
    <3>1. SubSeq(b.inline, 1, Len(b.inline)) = b.inline
      BY <1>1, SubSeqFull DEF Texts
    <3> QED
      BY <3>1, BufferView DEF Buffer!Spilled, BufferInv
  <2>2. PICK v \in Texts : v = Buffer!view(b)
    BY BufferView
  <2>3. c = [b EXCEPT !.overflow = v \o data, !.size = Len(v) + Len(data)]
    BY <1>0, <1>4, <2>1, <2>2 DEF Buffer!append
  <2>4. /\ v \o data \in Texts /\ Len(v \o data) = Len(v) + Len(data)
        /\ v \o data # <<>> /\ Len(v) + Len(data) \in Nat
    BY <1>4 DEF Texts
  <2>5. c = [inline |-> b.inline, overflow |-> v \o data, size |-> Len(v) + Len(data)]
    BY <2>3 DEF BufferInv
  <2>6. BufferInv(c) /\ c.overflow = v \o data
    BY <1>1, <2>4, <2>5 DEF BufferInv
  <2> QED
    BY <1>0, <2>2, <2>4, <2>6, BufferView
<1> QED
  BY <1>2, <1>3, <1>4

LEMMA EmptyBufferInv ==
  BufferInv(Buffer!EmptyBuffer) /\ Buffer!view(Buffer!EmptyBuffer) = <<>>
<1>1. BufferInv(Buffer!EmptyBuffer)
  BY DEF BufferInv, Texts, Buffer!EmptyBuffer
<1> QED
  BY <1>1, BufferView DEF Buffer!EmptyBuffer

\* The text of the cache is without the mark in front.
LEMMA Unmarked ==
  ASSUME NEW text \in Texts
  PROVE  LET marked == <<"!">> \o text
         IN  /\ marked \in Texts /\ Len(marked) = Len(text) + 1 /\ marked # <<>>
             /\ Tail(marked) = text /\ SubSeq(marked, 2, Len(text) + 1) = text
<1> DEFINE marked == <<"!">> \o text
<1>1. <<"!">> \in Texts /\ Len(<<"!">>) = 1
  BY DEF Texts, Characters
<1>2. /\ marked \in Texts /\ Len(marked) = Len(text) + 1 /\ marked # <<>>
      /\ \A i \in 1 .. Len(text) : marked[i + 1] = text[i]
  BY <1>1 DEF Texts
<1>3. PICK m \in Texts : m = marked
  BY <1>2
<1>4. Tail(m) \in Texts /\ Len(Tail(m)) = Len(text) /\ \A i \in 1 .. Len(text) : Tail(m)[i] = text[i]
  BY <1>2, <1>3, HeadTailProperties DEF Texts
<1>5. Tail(m) = text
  BY <1>4, SeqEqual DEF Texts
<1>6. Tail(m) = SubSeq(m, 2, Len(m))
  BY <1>2, <1>3, TailIsSubSeq DEF Texts
<1> QED
  BY <1>2, <1>3, <1>5, <1>6

-----------------------------------------------------------------------------
(* What the items write.                                                   *)

LEMMA RecordTexts ==
  ASSUME NEW record \in Records
  PROVE  /\ {record.message, record.level, record.loggerName, record.fileName,
             record.threadName} \subseteq Texts
         /\ {record.time, record.elapsed, record.threadId, record.line, record.fiberId} \subseteq Int
BY TextAssumption, TokensAreTexts

LEMMA NumeralTexts ==
  ASSUME NEW n \in Int
  PROVE  AppendInteger(n) \in Texts
<1>1. Numeral(n) \in Characters
  BY DEF Characters
<1> QED
  BY <1>1 DEF AppendInteger, Texts

LEMMA MicrosecondsText ==
  ASSUME NEW time \in Int
  PROVE  Microseconds(time) \in Texts
<1>1. DigitTokens \subseteq Characters
  BY DEF DigitTokens, Characters
<1>2. W \in Nat
  BY FormatterAssumption DEF W
<1> QED
  BY <1>1, <1>2, MicrosecondsExact DEF Texts

\* %d aside, the code writes the exact text, and it is a text.
LEMMA PlainExact ==
  ASSUME NEW item \in Items(Tokens), NEW record \in Records, item.kind # "d"
  PROVE  ItemText(item, record) = ExactText(item, record) /\ ItemText(item, record) \in Texts
<1>1. CASE item.kind = "u"
  <2>1. ItemText(item, record) = Microseconds(record.time)
    BY <1>1 DEF ItemText
  <2>2. ExactText(item, record) = CHOOSE digits \in [1 .. W -> DigitTokens] :
                                      NumberOf(digits) = Moment(record.time).micro
    BY <1>1 DEF ExactText, W, DigitTokens
  <2> QED
    BY <2>1, <2>2, RecordTexts, MicrosecondsExact, MicrosecondsText
<1>2. CASE item.kind # "u"
  <2>1. ItemText(item, record) = ExactText(item, record)
    BY <1>2 DEF ExactText
  <2>2. CASE item.kind = "literal"
    <3>1. item.text \in Texts
      BY <2>2, TokensAreTexts DEF Items, Directives
    <3> QED
      BY <2>1, <2>2, <3>1 DEF ItemText
  <2>3. CASE item.kind # "literal"
    <3>1. item.kind \in Directives
      BY <2>3 DEF Items
    <3>2. Truncated(record.elapsed, TicksPerMilli) \in Int
      BY RecordTexts, FormatterAssumption DEF Truncated
    <3>3. <<"\n">> \in Texts /\ <<"\t">> \in Texts
      BY DEF Texts, Characters
    <3>4. PlaceText(item, record) \in Texts \/ item.kind \notin {"f", "T", "l", "F", "N"}
      BY <3>3, RecordTexts, NumeralTexts DEF PlaceText
    <3>5. ItemText(item, record) \in Texts
      BY <1>2, <2>3, <3>1, <3>2, <3>3, <3>4, RecordTexts, NumeralTexts DEF ItemText, Directives
    <3> QED
      BY <2>1, <3>5
  <2> QED
    BY <2>2, <2>3
<1> QED
  BY <1>1, <1>2

LEMMA DateExact ==
  ASSUME NEW item, NEW record \in Records, item.kind = "d"
  PROVE  ExactText(item, record) = DateText(DateFormat(item), SecondOf(record.time))
BY RecordTexts, MomentExact DEF ExactText

-----------------------------------------------------------------------------
(* The invariant.                                                          *)

\* m_formatter writes nothing but texts.
FormatterInv ==
    /\ formatter \in Seq(Items(Tokens))
    /\ \A i \in DOMAIN formatter : \A record \in Records :
          formatter[i].kind = "d" =>
              DateText(DateFormat(formatter[i]), SecondOf(record.time)) \in Texts

Caches == [valid : BOOLEAN, second : Int, format : Seq(Tokens) \cup {DEFAULT_DATE_FORMAT},
           buffer : Texts, size : Nat, capacity : FirstCapacity .. 2 * MAX_BUFFER_SIZE]

\* A valid date is that of its key, behind the mark.
CacheInv(c) ==
    /\ c \in Caches
    /\ c.valid => LET text == DateText(c.format, c.second)
                  IN  /\ text \in Texts /\ c.buffer = <<"!">> \o text
                      /\ c.size = Len(text) + 1 /\ c.size < c.capacity

\* The exact texts of the first n items.
Exact(record, n) == [i \in 1 .. n |-> ExactText(formatter[i], record)]

Calls == [pc : {"item", "date"}, record : Records, items : {formatter},
          next : 1 .. Len(formatter) + 1,
          output : [inline : Texts, overflow : Texts, size : Nat]]

\* A call has put out the exact texts of the items before the next one; while
\* a date is being made its entry is not valid.
CallInv(x, c) ==
    x # Idle =>
        /\ x \in Calls /\ BufferInv(x.output)
        /\ Buffer!view(x.output) = FlattenSeq(Exact(x.record, x.next - 1))
        /\ x.pc = "date" => /\ x.next <= Len(formatter)
                            /\ formatter[x.next].kind = "d"
                            /\ ~c.valid

Inv ==
    /\ FormatterInv
    /\ call \in [Threads -> Calls \cup {Idle}]
    /\ cache \in [Threads -> Caches]
    /\ sharing = {t \in Threads : call[t] # Idle}
    /\ \A t \in Threads : CacheInv(cache[t]) /\ CallInv(call[t], cache[t])

LEMMA NotIdle ==
  ASSUME NEW x \in Calls
  PROVE  x # Idle /\ x.pc # "idle"
BY DEF Calls, Idle

\* The formatter in use, and every one that takes its place, is well-formed.
LEMMA WellFormed ==
  ASSUME NEW pattern \in Patterns \cup {FirstPattern}, parse(pattern).code = 0
  PROVE  /\ parse(pattern).items \in Seq(Items(Tokens))
         /\ \A i \in DOMAIN parse(pattern).items : \A record \in Records :
               parse(pattern).items[i].kind = "d" =>
                   DateText(DateFormat(parse(pattern).items[i]), SecondOf(record.time)) \in Texts
<1>1. PICK items \in Seq(Items(Tokens)) : items = parse(pattern).items
  BY TextAssumption, ParseTyped
<1>2. \A i \in DOMAIN items : items[i] \in ToSet(items)
  BY DEF ToSet
<1>3. \A record \in Records, item \in ToSet(items) :
          item.kind = "d" => DateText(DateFormat(item), SecondOf(record.time)) \in Texts
  BY <1>1, TextAssumption, TokensAreTexts
<1> QED
  BY <1>1, <1>2, <1>3

THEOREM InitInv == Init => Inv
<1> SUFFICES ASSUME Init PROVE Inv
  OBVIOUS
<1>1. FormatterInv
  <2>1. parse(FirstPattern).code = 0
    BY FormatterAssumption
  <2> QED
    BY <2>1, WellFormed DEF Init, FormatterInv
<1>2. \A t \in Threads : CacheInv(cache[t])
  BY FormatterAssumption DEF Init, CacheInv, Caches, Texts, SecondOf
<1>3. \A t \in Threads : call[t] = Idle
  BY DEF Init
<1>4. cache \in [Threads -> Caches]
  BY <1>2 DEF Init, CacheInv
<1> QED
  BY <1>1, <1>2, <1>3, <1>4 DEF Init, Inv, CallInv

\* A step of one thread is one of its call and its cache.
LEMMA ThreadStep ==
  ASSUME Inv, NEW t \in Threads, NEW x, NEW c, x \in Calls \cup {Idle},
         CacheInv(c), CallInv(x, c),
         UNCHANGED formatter, call' = [call EXCEPT ![t] = x], cache' = [cache EXCEPT ![t] = c],
         sharing' = IF x = Idle THEN sharing \ {t} ELSE sharing \cup {t}
  PROVE  Inv'
<1>1. call' \in [Threads -> Calls \cup {Idle}] /\ cache' \in [Threads -> Caches]
  BY DEF Inv, CacheInv
<1>2. \A u \in Threads : /\ call'[u] = IF u = t THEN x ELSE call[u]
                         /\ cache'[u] = IF u = t THEN c ELSE cache[u]
  BY DEF Inv
<1>3. sharing' = {u \in Threads : call'[u] # Idle}
  BY <1>2 DEF Inv
<1>4. \A u \in Threads : CacheInv(cache'[u]) /\ CallInv(call'[u], cache'[u])
  BY <1>2 DEF Inv
<1>5. FormatterInv' /\ (Calls \cup {Idle})' = Calls \cup {Idle}
  BY DEF Inv, FormatterInv, Calls
<1>6. (\A u \in Threads : CacheInv(cache[u]) /\ CallInv(call[u], cache[u]))'
  BY <1>4 DEF CallInv, Calls, Exact
<1> QED
  BY <1>1, <1>3, <1>5, <1>6 DEF Inv

\* One text more.
LEMMA ExactAppend ==
  ASSUME FormatterInv, NEW record \in Records, NEW n \in Nat, n + 1 <= Len(formatter)
  PROVE  /\ ExactText(formatter[n + 1], record) \in Texts
         /\ Exact(record, n) \in Seq(Texts)
         /\ Exact(record, n + 1) = Append(Exact(record, n), ExactText(formatter[n + 1], record))
<1>1. ASSUME NEW i \in 1 .. n + 1
      PROVE  ExactText(formatter[i], record) \in Texts
  <2>1. i \in DOMAIN formatter /\ formatter[i] \in Items(Tokens)
    BY DEF FormatterInv
  <2> QED
    BY <2>1, PlainExact, DateExact DEF FormatterInv
<1>2. ASSUME NEW k \in Nat, k <= n + 1
      PROVE  Exact(record, k) \in Seq(Texts) /\ Len(Exact(record, k)) = k
  <2>1. \A i \in 1 .. k : ExactText(formatter[i], record) \in Texts
    BY <1>1, <1>2
  <2> QED
    BY <2>1 DEF Exact
<1>3. PICK more \in Seq(Texts) : more = Exact(record, n + 1) /\ Len(more) = n + 1
  BY <1>2
<1>4. PICK less \in Seq(Texts) : less = Exact(record, n) /\ Len(less) = n
  BY <1>2
<1>5. PICK text \in Texts : text = ExactText(formatter[n + 1], record)
  BY <1>1
<1>6. /\ Append(less, text) \in Seq(Texts) /\ Len(Append(less, text)) = n + 1
      /\ \A i \in 1 .. n : Append(less, text)[i] = less[i]
      /\ Append(less, text)[n + 1] = text
  BY <1>4, AppendProperties
<1>7. \A i \in 1 .. n + 1 : more[i] = Append(less, text)[i]
  BY <1>3, <1>4, <1>5, <1>6 DEF Exact
<1>8. more = Append(less, text)
  <2>1. PICK a \in Seq(Texts) : a = Append(less, text)
    BY <1>6
  <2> QED
    BY <1>3, <1>6, <1>7, <2>1, SeqEqual
<1> QED
  BY <1>3, <1>4, <1>5, <1>8

\* The next item's text is put out.
LEMMA PutStep ==
  ASSUME Inv, NEW t \in Threads, ~At(t, "idle"), call[t].next <= Len(formatter),
         NEW text, text = ExactText(Current(t), call[t].record),
         Put(t, text), UNCHANGED formatter,
         NEW c, CacheInv(c), cache' = [cache EXCEPT ![t] = c]
  PROVE  Inv'
<1>1. call[t] \in Calls /\ t \in sharing
  BY DEF Inv, At, Idle
<1>2. PICK n \in Nat : n = call[t].next - 1 /\ call[t].next = n + 1 /\ n + 1 <= Len(formatter)
  BY <1>1 DEF Calls
<1>3. PICK r \in Records : r = call[t].record
  BY <1>1 DEF Calls
<1>4. /\ text \in Texts /\ Exact(r, n) \in Seq(Texts)
      /\ Exact(r, n + 1) = Append(Exact(r, n), text)
  BY <1>2, <1>3, ExactAppend DEF Inv, Current
<1>5. FlattenSeq(Exact(r, n + 1)) = FlattenSeq(Exact(r, n)) \o text
  BY <1>4, SeqsJoin, FlattenAppend DEF Texts
<1>6. BufferInv(call[t].output) /\ Buffer!view(call[t].output) = FlattenSeq(Exact(r, n))
  BY <1>1, <1>2, <1>3, NotIdle DEF Inv, CallInv
<1>7. PICK out : out = Buffer!append(call[t].output, text)
  OBVIOUS
<1>8. BufferInv(out) /\ Buffer!view(out) = FlattenSeq(Exact(r, n + 1))
  BY <1>4, <1>5, <1>6, <1>7, Appends
<1>9. PICK next \in 1 .. Len(formatter) + 1 : next = n + 2 /\ next = call[t].next + 1
  <2>1. Len(formatter) \in Nat
    BY DEF Inv, FormatterInv
  <2>2. n + 2 \in 1 .. Len(formatter) + 1 /\ n + 2 = (n + 1) + 1
    BY <1>2, <2>1
  <2> QED
    BY <1>2, <2>2
<1>0. PICK z \in Calls : z = call[t]
  BY <1>1
<1>10. PICK x : x = [z EXCEPT !.output = out, !.pc = "item", !.next = next]
  OBVIOUS
<1>11. x \in Calls /\ x.output = out /\ x.pc = "item" /\ x.next = next /\ x.record = r
  <2>1. z.record = r /\ BufferInv(out)
    BY <1>0, <1>3, <1>8
  <2> QED
    BY <1>10, <2>1 DEF Calls, BufferInv
<1>12. CallInv(x, c)
  <2>1. next - 1 = n + 1
    BY <1>9
  <2>2. Exact(x.record, x.next - 1) = Exact(r, n + 1)
    BY <1>11, <2>1
  <2> QED
    BY <1>8, <1>11, <2>2 DEF CallInv
<1>13. call' = [call EXCEPT ![t] = x]
  <2>1. x = [call[t] EXCEPT !.output = out, !.pc = "item", !.next = call[t].next + 1]
    BY <1>0, <1>9, <1>10
  <2> QED
    BY <1>7, <2>1 DEF Put
<1>14. sharing' = sharing \cup {t} /\ x # Idle
  BY <1>1, <1>11, NotIdle DEF Put
<1> QED
  BY <1>11, <1>12, <1>13, <1>14, ThreadStep

-----------------------------------------------------------------------------
(* The steps.                                                              *)

LEMMA SecondIsInt ==
  ASSUME NEW time \in Int
  PROVE  SecondOf(time) \in Int
<1>1. PICK P \in Nat \ {0} : P = Power10[MICROSECONDS_WIDTH]
  <2>1. W \in 0 .. W
    BY FormatterAssumption DEF W
  <2> QED
    BY <2>1, Powers DEF W
<1>2. PICK S \in Nat \ {0} : S = TicksPerSecond
  BY <1>1, FormatterAssumption DEF TicksPerSecond
<1> QED
  BY <1>2 DEF SecondOf

\* The record is given up.
LEMMA FailStep ==
  ASSUME Inv, NEW t \in Threads, Fail(t), UNCHANGED formatter,
         NEW c, CacheInv(c), cache' = [cache EXCEPT ![t] = c]
  PROVE  Inv'
<1>1. CallInv(Idle, c)
  BY DEF CallInv
<1> QED
  BY <1>1, ThreadStep DEF Fail

\* What is known of a thread that is at an item.
LEMMA AtItem ==
  ASSUME Inv, NEW t \in Threads, ~At(t, "idle"), call[t].next <= Len(formatter)
  PROVE  /\ call[t] \in Calls /\ call[t].record \in Records
         /\ Current(t) \in Items(Tokens) /\ Second(t) \in Int
         /\ Current(t).kind = "d" =>
               /\ Format(t) \in Seq(Tokens) \cup {DEFAULT_DATE_FORMAT}
               /\ DateText(Format(t), Second(t)) \in Texts
               /\ ExactText(Current(t), call[t].record) = DateText(Format(t), Second(t))
<1>1. call[t] \in Calls
  BY DEF Inv, At, Idle
<1>2. PICK r \in Records : r = call[t].record
  BY <1>1 DEF Calls
<1>3. PICK i \in DOMAIN formatter : i = call[t].next
  BY <1>1 DEF Calls, Inv, FormatterInv
<1>4. PICK item \in Items(Tokens) : item = Current(t) /\ item = formatter[i]
  BY <1>3 DEF Inv, FormatterInv, Current
<1>5. Second(t) = SecondOf(r.time) /\ Second(t) \in Int
  BY <1>2, RecordTexts, SecondIsInt DEF Second
<1>6. ASSUME item.kind = "d"
      PROVE  /\ Format(t) \in Seq(Tokens) \cup {DEFAULT_DATE_FORMAT}
             /\ DateText(Format(t), Second(t)) \in Texts
             /\ ExactText(item, r) = DateText(Format(t), Second(t))
  <2>1. item.config \in Seq(Tokens)
    BY <1>6 DEF Items, Directives
  <2>2. Format(t) = DateFormat(item)
    BY <1>4 DEF Format
  <2>3. DateText(DateFormat(item), SecondOf(r.time)) \in Texts
    BY <1>3, <1>4, <1>6 DEF Inv, FormatterInv
  <2> QED
    BY <1>5, <1>6, <2>1, <2>2, <2>3, DateExact DEF DateFormat
<1> QED
  BY <1>1, <1>2, <1>4, <1>5, <1>6

LEMMA BeginStep ==
  ASSUME Inv, NEW t \in Threads, NEW record \in Records, Begin(t, record)
  PROVE  Inv'
<1>1. PICK x : x = [pc |-> "item", record |-> record, items |-> formatter,
                    next |-> 1, output |-> Buffer!EmptyBuffer]
  OBVIOUS
<1>2. x \in Calls
  <2>1. 1 \in 1 .. Len(formatter) + 1
    BY DEF Inv, FormatterInv
  <2> QED
    BY <1>1, <2>1, EmptyBufferInv DEF Calls, BufferInv
<1>3. CallInv(x, cache[t])
  <2>1. Exact(record, 0) = <<>>
    BY DEF Exact
  <2>2. Exact(x.record, x.next - 1) = <<>>
    BY <1>1, <2>1
  <2> QED
    BY <1>1, <1>2, <2>2, EmptyBufferInv, FlattenEmpty DEF CallInv
<1>4. CacheInv(cache[t]) /\ cache' = [cache EXCEPT ![t] = cache[t]]
  BY DEF Inv, Begin
<1>5. /\ call' = [call EXCEPT ![t] = x] /\ sharing' = sharing \cup {t}
      /\ UNCHANGED formatter
  BY <1>1 DEF Begin
<1> QED
  BY <1>2, <1>3, <1>4, <1>5, NotIdle, ThreadStep

LEMMA PlainItemStep ==
  ASSUME Inv, NEW t \in Threads, PlainItem(t)
  PROVE  Inv'
<1>1. ~At(t, "idle") /\ call[t].next <= Len(formatter)
  BY DEF PlainItem, Working, At
<1>2. ItemText(Current(t), call[t].record) = ExactText(Current(t), call[t].record)
  BY <1>1, AtItem, PlainExact DEF PlainItem
<1>3. CacheInv(cache[t]) /\ cache' = [cache EXCEPT ![t] = cache[t]]
  BY DEF Inv, PlainItem
<1> QED
  BY <1>1, <1>2, <1>3, PutStep DEF PlainItem

\* The date of the cache is the one that strftime would give.
LEMMA HitText ==
  ASSUME Inv, NEW t \in Threads, IsDate(t), Hits(cache[t], Format(t), Second(t))
  PROVE  CachedText(cache[t]) = ExactText(Current(t), call[t].record)
<1>1. ~At(t, "idle") /\ call[t].next <= Len(formatter) /\ Current(t).kind = "d"
  BY DEF IsDate, Working, At
<1>2. PICK text \in Texts :
          /\ text = DateText(Format(t), Second(t))
          /\ text = ExactText(Current(t), call[t].record)
  BY <1>1, AtItem
<1>3. cache[t].buffer = <<"!">> \o text /\ cache[t].size = Len(text) + 1
  BY <1>2 DEF Inv, CacheInv, Hits
<1> QED
  BY <1>2, <1>3, Unmarked DEF CachedText

LEMMA DateHitStep ==
  ASSUME Inv, NEW t \in Threads, DateHit(t)
  PROVE  Inv'
<1>1. ~At(t, "idle") /\ call[t].next <= Len(formatter)
  BY DEF DateHit, IsDate, Working, At
<1>2. CachedText(cache[t]) = ExactText(Current(t), call[t].record)
  BY HitText DEF DateHit
<1>3. CacheInv(cache[t]) /\ cache' = [cache EXCEPT ![t] = cache[t]]
  BY DEF Inv, DateHit
<1> QED
  BY <1>1, <1>2, <1>3, PutStep DEF DateHit

LEMMA DateMissStep ==
  ASSUME Inv, NEW t \in Threads, DateMiss(t)
  PROVE  Inv'
<1>1. ~At(t, "idle") /\ call[t].next <= Len(formatter) /\ Current(t).kind = "d"
  BY DEF DateMiss, IsDate, Working, At
<1>2. PICK c : c = Invalidated(cache[t])
  OBVIOUS
<1>3. CacheInv(c) /\ ~c.valid
  BY <1>2 DEF Inv, CacheInv, Caches, Invalidated
<1>4. cache' = [cache EXCEPT ![t] = c] /\ UNCHANGED formatter
  BY <1>2 DEF DateMiss
<1>5. CASE Second(t) \in Unrepresentable
  BY <1>3, <1>4, <1>5, FailStep DEF DateMiss
<1>6. CASE Second(t) \notin Unrepresentable
  <2>1. call[t] \in Calls /\ t \in sharing /\ call[t] # Idle
    BY <1>1, AtItem, NotIdle DEF Inv
  <2>2. PICK x : x = [call[t] EXCEPT !.pc = "date"]
    OBVIOUS
  <2>3. /\ x \in Calls /\ x.pc = "date" /\ x.next = call[t].next
        /\ x.record = call[t].record /\ x.output = call[t].output
    BY <2>1, <2>2 DEF Calls
  <2>4. CallInv(call[t], cache[t])
    BY DEF Inv
  <2>5. Exact(x.record, x.next - 1) = Exact(call[t].record, call[t].next - 1)
    BY <2>3
  <2>6. CallInv(x, c)
    BY <1>1, <1>3, <2>1, <2>3, <2>4, <2>5 DEF CallInv, Current
  <2>7. call' = [call EXCEPT ![t] = x] /\ sharing' = sharing \cup {t}
    BY <1>6, <2>1, <2>2 DEF DateMiss
  <2> QED
    BY <1>3, <1>4, <2>3, <2>6, <2>7, NotIdle, ThreadStep
<1> QED
  BY <1>5, <1>6

\* What strftime wrote, if it wrote something.
LEMMA WrittenText ==
  ASSUME Inv, NEW t \in Threads, At(t, "date")
  PROVE  /\ ~At(t, "idle") /\ call[t].next <= Len(formatter) /\ Current(t).kind = "d"
         /\ ~cache[t].valid /\ Written(t) \in Texts
         /\ Written(t) # <<>> =>
               /\ Tail(Written(t)) = ExactText(Current(t), call[t].record)
               /\ CacheInv(Stored(t))
<1>1. call[t] # Idle /\ ~At(t, "idle")
  BY DEF At, Idle
<1>2. call[t].next <= Len(formatter) /\ Current(t).kind = "d" /\ ~cache[t].valid
  BY <1>1 DEF Inv, CallInv, At, Current
<1>3. PICK text \in Texts :
          /\ text = DateText(Format(t), Second(t))
          /\ text = ExactText(Current(t), call[t].record)
  BY <1>1, <1>2, AtItem
<1>4. PICK marked \in Texts :
          /\ marked = <<"!">> \o text /\ Len(marked) = Len(text) + 1 /\ Tail(marked) = text
  BY <1>3, Unmarked
<1>5. Written(t) = IF Len(marked) + 1 <= cache[t].capacity THEN marked ELSE <<>>
  BY <1>3, <1>4 DEF Written, Strftime
<1>6. Written(t) \in Texts
  BY <1>5 DEF Texts
<1>7. ASSUME Written(t) # <<>>
      PROVE  CacheInv(Stored(t))
  <2>1. Written(t) = marked /\ Len(marked) + 1 <= cache[t].capacity
    BY <1>5, <1>7
  <2>2. PICK c \in Caches : c = cache[t]
    BY DEF Inv
  <2>3. PICK f \in Seq(Tokens) \cup {DEFAULT_DATE_FORMAT}, s \in Int :
            f = Format(t) /\ s = Second(t)
    BY <1>1, <1>2, AtItem
  <2>4. Len(marked) \in Nat /\ Len(text) \in Nat
    BY DEF Texts
  <2>5. PICK d : d = [c EXCEPT !.buffer = marked, !.format = f, !.second = s,
                               !.size = Len(marked), !.valid = TRUE]
    OBVIOUS
  <2>6. d \in Caches /\ d.buffer = marked /\ d.format = f /\ d.second = s
        /\ d.size = Len(marked) /\ d.capacity = c.capacity
    BY <2>4, <2>5 DEF Caches
  <2>7. c.capacity \in Int
    BY FormatterAssumption DEF Caches
  <2>8. CacheInv(d)
    <3>1. DateText(d.format, d.second) = text
      BY <1>3, <2>3, <2>6
    <3>2. d.size = Len(text) + 1 /\ d.size < d.capacity
      BY <1>4, <2>1, <2>2, <2>4, <2>6, <2>7
    <3> QED
      BY <1>4, <2>6, <3>1, <3>2 DEF CacheInv
  <2>9. Stored(t) = d
    BY <2>1, <2>2, <2>3, <2>5 DEF Stored
  <2> QED
    BY <2>8, <2>9
<1>8. Written(t) # <<>> => Tail(Written(t)) = ExactText(Current(t), call[t].record)
  BY <1>3, <1>4, <1>5
<1> QED
  BY <1>1, <1>2, <1>6, <1>7, <1>8

LEMMA DateStoreStep ==
  ASSUME Inv, NEW t \in Threads, DateStore(t)
  PROVE  Inv'
<1>1. /\ ~At(t, "idle") /\ call[t].next <= Len(formatter) /\ CacheInv(Stored(t))
      /\ Tail(Written(t)) = ExactText(Current(t), call[t].record)
  BY WrittenText DEF DateStore
<1>2. cache' = [cache EXCEPT ![t] = Stored(t)]
  BY DEF DateStore
<1> QED
  BY <1>1, <1>2, PutStep DEF DateStore

\* A buffer that holds no date yet may have any content.
LEMMA DateGrowStep ==
  ASSUME Inv, NEW t \in Threads, DateGrow(t)
  PROVE  Inv'
<1>1. ~cache[t].valid /\ CacheInv(cache[t]) /\ ~At(t, "idle")
  BY WrittenText DEF DateGrow, Inv
<1>2. PICK capacity \in FirstCapacity .. 2 * MAX_BUFFER_SIZE : capacity = Grown(cache[t].capacity)
  <2>1. cache[t].capacity \in FirstCapacity .. 2 * MAX_BUFFER_SIZE
    BY <1>1 DEF CacheInv, Caches
  <2>2. cache[t].capacity < MAX_BUFFER_SIZE
    BY DEF DateGrow
  <2> QED
    BY <2>1, <2>2, FormatterAssumption DEF Grown
<1>3. PICK c : c = [cache[t] EXCEPT !.capacity = capacity, !.buffer = <<>>]
  OBVIOUS
<1>4. CacheInv(c) /\ ~c.valid
  <2>1. <<>> \in Texts
    BY DEF Texts
  <2> QED
    BY <1>1, <1>3, <2>1 DEF CacheInv, Caches
<1>5. cache' = [cache EXCEPT ![t] = c]
  BY <1>2, <1>3 DEF DateGrow
<1>6. CallInv(call[t], c) /\ call[t] \in Calls
  BY <1>1, <1>4 DEF Inv, CallInv, At, Idle
<1>7. /\ call' = [call EXCEPT ![t] = call[t]] /\ sharing' = sharing \cup {t}
      /\ UNCHANGED formatter /\ call[t] # Idle
  BY <1>1 DEF DateGrow, Inv, At, Idle
<1> QED
  BY <1>4, <1>5, <1>6, <1>7, ThreadStep

LEMMA DateLimitStep ==
  ASSUME Inv, NEW t \in Threads, DateLimit(t)
  PROVE  Inv'
<1>1. ~cache[t].valid /\ CacheInv(cache[t])
  BY WrittenText DEF DateLimit, Inv
<1>2. PICK c : c = [cache[t] EXCEPT !.buffer = <<>>]
  OBVIOUS
<1>3. CacheInv(c)
  <2>1. <<>> \in Texts
    BY DEF Texts
  <2> QED
    BY <1>1, <1>2, <2>1 DEF CacheInv, Caches
<1>4. cache' = [cache EXCEPT ![t] = c] /\ Fail(t) /\ UNCHANGED formatter
  BY <1>2 DEF DateLimit
<1> QED
  BY <1>3, <1>4, FailStep

LEMMA OutOfMemoryStep ==
  ASSUME Inv, NEW t \in Threads, OutOfMemory(t)
  PROVE  Inv'
<1>1. Fail(t) /\ UNCHANGED formatter
  BY DEF OutOfMemory
<1>2. CASE UNCHANGED cache
  <2>1. CacheInv(cache[t]) /\ cache' = [cache EXCEPT ![t] = cache[t]]
    BY <1>2 DEF Inv
  <2> QED
    BY <1>1, <2>1, FailStep
<1>3. CASE At(t, "date") /\ Written(t) # <<>> /\ cache' = [cache EXCEPT ![t] = Stored(t)]
  BY <1>1, <1>3, WrittenText, FailStep
<1>4. CASE At(t, "date") /\ cache' = [cache EXCEPT ![t].buffer = Written(t)]
  <2>1. ~cache[t].valid /\ CacheInv(cache[t]) /\ Written(t) \in Texts
    BY <1>4, WrittenText DEF Inv
  <2>2. PICK c : c = [cache[t] EXCEPT !.buffer = Written(t)]
    OBVIOUS
  <2>3. CacheInv(c)
    BY <2>1, <2>2 DEF CacheInv, Caches
  <2>4. cache' = [cache EXCEPT ![t] = c]
    BY <1>4, <2>2
  <2> QED
    BY <1>1, <2>3, <2>4, FailStep
<1> QED
  BY <1>2, <1>3, <1>4 DEF OutOfMemory

LEMMA EndStep ==
  ASSUME Inv, NEW t \in Threads, End(t)
  PROVE  Inv'
<1>1. CacheInv(cache[t]) /\ cache' = [cache EXCEPT ![t] = cache[t]]
  BY DEF Inv, End
<1> QED
  BY <1>1, FailStep DEF End

\* The formatter changes when no call uses it.
LEMMA SetFormatterStep ==
  ASSUME Inv, NEW pattern \in Patterns, SetFormatter(pattern)
  PROVE  Inv'
<1>1. \A t \in Threads : call[t] = Idle
  BY DEF Inv, SetFormatter, Exclusive
<1>2. FormatterInv'
  BY WellFormed DEF SetFormatter, FormatterInv
<1>3. \A t \in Threads : CacheInv(cache[t])' /\ CallInv(call[t], cache[t])'
  BY <1>1 DEF Inv, SetFormatter, CallInv, CacheInv, Caches
<1>4. call' \in [Threads -> Calls' \cup {Idle}]
  BY <1>1 DEF Inv, SetFormatter
<1>5. cache' \in [Threads -> Caches] /\ sharing' = {t \in Threads : call'[t] # Idle}
  BY DEF Inv, SetFormatter
<1> QED
  BY <1>2, <1>3, <1>4, <1>5 DEF Inv

LEMMA StutterStep ==
  ASSUME Inv, UNCHANGED vars
  PROVE  Inv'
<1>1. FormatterInv' /\ Calls' = Calls
  BY DEF Inv, vars, FormatterInv, Calls
<1>2. \A t \in Threads : CacheInv(cache[t])' /\ CallInv(call[t], cache[t])'
  BY <1>1 DEF Inv, vars, CallInv, Exact
<1> QED
  BY <1>1, <1>2 DEF Inv, vars

THEOREM NextInv == Inv /\ [Next]_vars => Inv'
<1> SUFFICES ASSUME Inv, [Next]_vars PROVE Inv'
  OBVIOUS
<1>1. ASSUME NEW t \in Threads, Steps(t)
      PROVE  Inv'
  BY <1>1, PlainItemStep, DateHitStep, DateMissStep, DateStoreStep, DateGrowStep,
     DateLimitStep, EndStep DEF Steps
<1>2. ASSUME NEW t \in Threads, NEW record \in Records, Begin(t, record)
      PROVE  Inv'
  BY <1>2, BeginStep
<1>3. ASSUME NEW pattern \in Patterns, SetFormatter(pattern)
      PROVE  Inv'
  BY <1>3, SetFormatterStep
<1> QED
  BY <1>1, <1>2, <1>3, OutOfMemoryStep, StutterStep DEF Next

-----------------------------------------------------------------------------
(* The theorems.                                                           *)

THEOREM Invariance == Spec => []Inv
BY InitInv, NextInv, PTL DEF Spec

\* The threads in the mutex are those with a call; dates and calls stay in
\* their ranges, whatever patterns, records, capacities and conversions.
THEOREM TypeCorrect == Spec => []TypeOK
<1>1. Inv => TypeOK
  <2> SUFFICES ASSUME Inv PROVE TypeOK
    OBVIOUS
  <2>1. sharing = {t \in Threads : call[t] # Idle}
    BY DEF Inv
  <2>2. ASSUME NEW t \in Threads
        PROVE  /\ cache[t].capacity \in FirstCapacity .. 2 * MAX_BUFFER_SIZE
               /\ cache[t].valid => cache[t].size \in 1 .. cache[t].capacity - 1
    <3>1. CacheInv(cache[t])
      BY DEF Inv
    <3>2. cache[t].capacity \in Int /\ cache[t].size \in Nat
      BY <3>1, FormatterAssumption DEF CacheInv, Caches
    <3>3. ASSUME cache[t].valid
          PROVE  cache[t].size >= 1 /\ cache[t].size < cache[t].capacity
      <4>1. Len(DateText(cache[t].format, cache[t].second)) \in Nat
        BY <3>1, <3>3 DEF CacheInv, Texts
      <4> QED
        BY <3>1, <3>3, <4>1 DEF CacheInv
    <3> QED
      BY <3>1, <3>2, <3>3 DEF CacheInv, Caches
  <2>3. ASSUME NEW t \in Threads, ~At(t, "idle")
        PROVE  /\ call[t].pc \in {"item", "date"} /\ call[t].items = formatter
               /\ call[t].record \in Records /\ call[t].next \in 1 .. Len(formatter) + 1
    <3>1. call[t] \in Calls
      BY <2>3 DEF Inv, At, Idle
    <3> QED
      BY <3>1 DEF Calls
  <2> QED
    BY <2>1, <2>2, <2>3 DEF TypeOK
<1> QED
  BY <1>1, Invariance, PTL

\* A record that is written is exactly what its thread's formatter makes of it.
THEOREM RecordsExact == Spec => RecordExact
<1> DEFINE Said ==
        \A t \in Threads : End(t) =>
            Buffer!view(call[t].output) =
                FlattenSeq([i \in DOMAIN call[t].items |->
                               ExactText(call[t].items[i], call[t].record)])
<1>1. Inv => Said
  <2> SUFFICES ASSUME Inv, NEW t \in Threads, End(t)
               PROVE  Buffer!view(call[t].output) =
                          FlattenSeq([i \in DOMAIN call[t].items |->
                                         ExactText(call[t].items[i], call[t].record)])
    OBVIOUS
  <2>1. call[t] \in Calls /\ call[t] # Idle
    BY NotIdle DEF Inv, End, At, Idle
  <2>2. call[t].items = formatter /\ call[t].next - 1 = Len(formatter)
    BY <2>1 DEF Calls, End, Inv, FormatterInv
  <2>3. Buffer!view(call[t].output) = FlattenSeq(Exact(call[t].record, Len(formatter)))
    BY <2>1, <2>2 DEF Inv, CallInv
  <2>4. DOMAIN formatter = 1 .. Len(formatter)
    BY DEF Inv, FormatterInv
  <2> QED
    BY <2>2, <2>3, <2>4 DEF Exact
<1>2. Inv /\ [Next]_vars => [Said]_vars
  BY <1>1
<1> QED
  BY <1>2, Invariance, PTL DEF Spec, RecordExact
=============================================================================
