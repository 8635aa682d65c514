------------------------------ MODULE Recursion ------------------------------
(***************************************************************************)
(* Induction and recursion without operator parameters.                    *)
(*                                                                         *)
(* The provers cannot instantiate P(_) in the library's theorems, so they  *)
(* are stated here of sets: the set of the numbers that have a property    *)
(* stands for the property.  To the provers a recursive function is the    *)
(* CHOOSE of a solution of its equation; RecursionTheorem gives that there *)
(* is one, after which the equation may be used.  Behind it follow the     *)
(* uses that several proofs share: FlattenSeq, recursion from the end of a *)
(* text, and the loop of parse.                                            *)
(***************************************************************************)
EXTENDS Pattern, SequencesExt, SequenceTheorems, WellFoundedInduction, TLAPS

\* Every set of natural numbers that is not empty has a least element.
LEMMA LeastElement ==
  ASSUME NEW T \in SUBSET Nat, T # {}
  PROVE  \E x \in T : \A y \in T : x <= y
<1> DEFINE R == {ss \in Nat \X Nat : ss[1] < ss[2]}
<1>1. IsWellFoundedOn(R, Nat)
  BY NatLessThanWellFounded DEF OpToRel
<1>2. PICK x \in T : \A y \in T : ~ (<<y, x>> \in R)
  <2> HIDE DEF R
  <2> QED
    BY <1>1, WFMin
<1>3. \A y \in T : ~ (y < x)
  BY <1>2
<1> QED
  BY <1>3

\* Induction: a set with 0 and with the successors of its numbers has all.
LEMMA SetInduction ==
  ASSUME NEW S, 0 \in S, \A n \in Nat : n \in S => n + 1 \in S
  PROVE  Nat \subseteq S
<1>1. SUFFICES ASSUME Nat \ S # {} PROVE FALSE
  OBVIOUS
<1>2. PICK x \in Nat \ S : \A y \in Nat \ S : x <= y
  BY <1>1, LeastElement
<1>3. x - 1 \in Nat /\ x - 1 \in S
  BY <1>2
<1> QED
  BY <1>2, <1>3

\* body turns functions on I into such functions; its result at i depends on
\* arguments of lower rank only.
IsRecursive(body, I, V, rank, n) ==
    /\ V # {}
    /\ rank \in [I -> 0 .. n]
    /\ body \in [[I -> V] -> [I -> V]]
    /\ \A f, g \in [I -> V] : \A i \in I :
          (\A j \in I : rank[j] < rank[i] => f[j] = g[j]) => body[f][i] = body[g][i]

HasFixedPoint(body, I, V) == \E f \in [I -> V] : f = body[f]

\* A recursive definition over a finite number of ranks defines a function.
LEMMA RecursionTheorem ==
  ASSUME NEW n \in Nat, NEW I, NEW V, NEW rank, NEW body, IsRecursive(body, I, V, rank, n)
  PROVE  HasFixedPoint(body, I, V)
<1> USE DEF IsRecursive
<1> DEFINE Solves(f, k) == \A i \in I : rank[i] < k => f[i] = body[f][i]
           S == {k \in Nat : \E f \in [I -> V] : Solves(f, k)}
<1>1. 0 \in S
  <2>1. PICK v \in V : TRUE
    OBVIOUS
  <2>2. [i \in I |-> v] \in [I -> V] /\ Solves([i \in I |-> v], 0)
    OBVIOUS
  <2> QED
    BY <2>2
<1>2. ASSUME NEW k \in Nat, k \in S
      PROVE  k + 1 \in S
  <2>1. PICK f \in [I -> V] : Solves(f, k)
    BY <1>2
  <2>2. PICK g \in [I -> V] : g = body[f]
    OBVIOUS
  <2>3. ASSUME NEW i \in I, rank[i] < k + 1
        PROVE  g[i] = body[g][i]
    <3>1. \A j \in I : rank[j] < rank[i] => f[j] = g[j]
      <4>1. \A j \in I : rank[j] \in Nat
        OBVIOUS
      <4>2. \A j \in I : rank[j] < rank[i] => rank[j] < k
        BY <2>3, <4>1
      <4> QED
        BY <2>1, <2>2, <4>2
    <3> QED
      BY <2>2, <3>1
  <2> QED
    BY <2>3
<1>3. n + 1 \in S
  <2> HIDE DEF S
  <2> QED
    BY <1>1, <1>2, SetInduction
<1>4. PICK f \in [I -> V] : Solves(f, n + 1)
  BY <1>3
<1>5. \A i \in I : rank[i] < n + 1
  OBVIOUS
<1>6. \A i \in I : f[i] = body[f][i]
  BY <1>4, <1>5
<1> QED
  BY <1>6 DEF HasFixedPoint

\* The usual case: a value follows from the one before.
IsStep(step, V, n) == step \in [1 .. n -> [V -> V]]

HasRun(first, step, V, n) ==
    \E f \in [0 .. n -> V] : f[0] = first /\ \A i \in 1 .. n : f[i] = step[i][f[i - 1]]

LEMMA StepRecursion ==
  ASSUME NEW n \in Nat, NEW V, NEW first \in V, NEW step, IsStep(step, V, n)
  PROVE  HasRun(first, step, V, n)
<1> USE DEF IsStep
<1> DEFINE I == 0 .. n
           rank == [i \in I |-> i]
           body == [f \in [I -> V] |->
                       [i \in I |-> IF i = 0 THEN first ELSE step[i][f[i - 1]]]]
<1>1. rank \in [I -> 0 .. n] /\ V # {}
  OBVIOUS
<1>2. \A i \in I : i # 0 => i - 1 \in I /\ i \in 1 .. n
  OBVIOUS
<1>3. body \in [[I -> V] -> [I -> V]]
  <2>1. ASSUME NEW f \in [I -> V], NEW i \in I, i # 0
        PROVE  step[i][f[i - 1]] \in V
    BY <1>2, <2>1
  <2> HIDE DEF I
  <2> QED
    BY <2>1
<1>4. ASSUME NEW f \in [I -> V], NEW g \in [I -> V], NEW i \in I,
             \A j \in I : rank[j] < rank[i] => f[j] = g[j]
      PROVE  body[f][i] = body[g][i]
  <2>1. i # 0 => f[i - 1] = g[i - 1]
    BY <1>2, <1>4
  <2> QED
    BY <2>1
<1>5. IsRecursive(body, I, V, rank, n)
  <2> HIDE DEF I, body, rank
  <2> QED
    BY <1>1, <1>3, <1>4 DEF IsRecursive
<1>6. HasFixedPoint(body, I, V)
  <2> HIDE DEF I, body, rank
  <2> QED
    BY <1>5, RecursionTheorem
<1>7. PICK f \in [I -> V] : f = body[f]
  <2> HIDE DEF I, body, rank
  <2> QED
    BY <1>6 DEF HasFixedPoint
<1>8. f[0] = first /\ \A i \in 1 .. n : f[i] = step[i][f[i - 1]]
  BY <1>7
<1> QED
  BY <1>8 DEF HasRun

-----------------------------------------------------------------------------
(* FlattenSeq of the community modules.                                    *)

\* The recursive function in FlattenSeq.
Flat(seqs) ==
    CHOOSE f : f = [i \in 1 .. Len(seqs) |->
                       IF i = 1 THEN seqs[i] ELSE f[i - 1] \o seqs[i]]

\* Texts: a set closed under joining.
IsJoinable(T) ==
    /\ <<>> \in T
    /\ \A u, v \in T : u \o v \in T
    /\ \A v \in T : <<>> \o v = v

Flattens(f, seqs, n) == \A i \in 1 .. n : f[i] = IF i = 1 THEN seqs[i] ELSE f[i - 1] \o seqs[i]

HasFlat(seqs, T, n) ==
    \E f \in [1 .. n -> T] :
        f = [i \in 1 .. n |-> IF i = 1 THEN seqs[i] ELSE f[i - 1] \o seqs[i]]

\* Two functions with the equation of Flat for the same sequences agree.
LEMMA FlatUnique ==
  ASSUME NEW n \in Nat, NEW seqs, NEW more, NEW f, NEW g,
         \A i \in 1 .. n : seqs[i] = more[i],
         Flattens(f, seqs, n), Flattens(g, more, n)
  PROVE  \A i \in 1 .. n : f[i] = g[i]
<1> DEFINE K == {i \in Nat : i + 1 \in 1 .. n => f[i + 1] = g[i + 1]}
<1>1. 0 \in K
  BY DEF Flattens
<1>2. ASSUME NEW i \in Nat, i \in K
      PROVE  i + 1 \in K
  <2>1. SUFFICES ASSUME i + 2 \in 1 .. n
                 PROVE  f[i + 2] = g[i + 2]
    OBVIOUS
  <2>2. i + 1 \in 1 .. n /\ i + 2 # 1 /\ (i + 2) - 1 = i + 1
    BY <2>1
  <2>3. f[i + 2] = f[i + 1] \o seqs[i + 2] /\ g[i + 2] = g[i + 1] \o more[i + 2]
    BY <2>1, <2>2 DEF Flattens
  <2> QED
    BY <1>2, <2>1, <2>2, <2>3
<1>3. Nat \subseteq K
  <2> HIDE DEF K
  <2> QED
    BY <1>1, <1>2, SetInduction
<1>4. \A i \in 1 .. n : i - 1 \in Nat /\ (i - 1) + 1 = i
  OBVIOUS
<1> QED
  BY <1>3, <1>4

LEMMA FlatExists ==
  ASSUME NEW n \in Nat, NEW T, IsJoinable(T), NEW seqs \in [1 .. n -> T]
  PROVE  HasFlat(seqs, T, n)
<1> DEFINE step == [i \in 1 .. n |-> [t \in T |-> t \o seqs[i]]]
<1>1. IsStep(step, T, n) /\ <<>> \in T
  BY DEF IsStep, IsJoinable
<1>2. HasRun(<<>>, step, T, n)
  <2> HIDE DEF step
  <2> QED
    BY <1>1, StepRecursion
<1>3. PICK h \in [0 .. n -> T] : h[0] = <<>> /\ \A i \in 1 .. n : h[i] = step[i][h[i - 1]]
  <2> HIDE DEF step
  <2> QED
    BY <1>2 DEF HasRun
<1>4. \A i \in 1 .. n : i \in 0 .. n /\ i - 1 \in 0 .. n /\ (i # 1 => i - 1 \in 1 .. n)
  OBVIOUS
<1>5. \A i \in 1 .. n : h[i] \in T /\ h[i - 1] \in T /\ h[i] = h[i - 1] \o seqs[i]
  BY <1>3, <1>4
<1> DEFINE f == [i \in 1 .. n |-> h[i]]
<1>6. f \in [1 .. n -> T]
  BY <1>5
<1>7. ASSUME NEW i \in 1 .. n
      PROVE  f[i] = IF i = 1 THEN seqs[i] ELSE f[i - 1] \o seqs[i]
  <2>1. CASE i = 1
    <3>0. 1 - 1 = 0
      OBVIOUS
    <3>1. h[i] = <<>> \o seqs[i] /\ seqs[i] \in T
      BY <1>3, <1>5, <2>1, <3>0
    <3> QED
      BY <2>1, <3>1 DEF IsJoinable
  <2>2. CASE i # 1
    BY <1>4, <1>5, <2>2
  <2> QED
    BY <2>1, <2>2
<1>8. f = [i \in 1 .. n |-> IF i = 1 THEN seqs[i] ELSE f[i - 1] \o seqs[i]]
  BY <1>7
<1> HIDE DEF f
<1> QED
  BY <1>6, <1>8 DEF HasFlat

LEMMA FlatEquation ==
  ASSUME NEW T, IsJoinable(T), NEW seqs \in Seq(T)
  PROVE  /\ Flattens(Flat(seqs), seqs, Len(seqs))
         /\ \A i \in 1 .. Len(seqs) : Flat(seqs)[i] \in T
<1>1. Len(seqs) \in Nat /\ seqs \in [1 .. Len(seqs) -> T]
  OBVIOUS
<1>2. PICK f \in [1 .. Len(seqs) -> T] :
            f = [i \in 1 .. Len(seqs) |-> IF i = 1 THEN seqs[i] ELSE f[i - 1] \o seqs[i]]
  <2>1. HasFlat(seqs, T, Len(seqs))
    BY <1>1, FlatExists
  <2> QED
    BY <2>1 DEF HasFlat
<1>3. Flat(seqs) = [i \in 1 .. Len(seqs) |->
                       IF i = 1 THEN seqs[i] ELSE Flat(seqs)[i - 1] \o seqs[i]]
  BY <1>2 DEF Flat
<1>4. Flattens(Flat(seqs), seqs, Len(seqs)) /\ Flattens(f, seqs, Len(seqs))
  BY <1>2, <1>3 DEF Flattens
<1>5. \A i \in 1 .. Len(seqs) : Flat(seqs)[i] = f[i]
  BY <1>1, <1>4, FlatUnique
<1> QED
  BY <1>4, <1>5

LEMMA FlattenIsFlat ==
  ASSUME NEW seqs
  PROVE  FlattenSeq(seqs) = IF Len(seqs) = 0 THEN seqs ELSE Flat(seqs)[Len(seqs)]
BY DEF FlattenSeq, Flat

LEMMA SeqsJoin ==
  ASSUME NEW S
  PROVE  IsJoinable(Seq(S))
BY EmptySeq, ConcatProperties, ConcatEmptySeq DEF IsJoinable

\* A sequence of texts, joined, is a text, and one more goes to its end.
LEMMA FlattenAppend ==
  ASSUME NEW T, IsJoinable(T), NEW seqs \in Seq(T), NEW s \in T
  PROVE  /\ FlattenSeq(seqs) \in T
         /\ FlattenSeq(Append(seqs, s)) = FlattenSeq(seqs) \o s
<1>1. PICK n \in Nat : n = Len(seqs)
  OBVIOUS
<1>2. PICK more \in Seq(T) : more = Append(seqs, s)
  BY AppendProperties
<1>3. /\ Len(more) = n + 1 /\ more[n + 1] = s
      /\ \A i \in 1 .. n : more[i] = seqs[i]
  BY <1>1, <1>2
<1>4. Flattens(Flat(seqs), seqs, n) /\ \A i \in 1 .. n : Flat(seqs)[i] \in T
  BY <1>1, FlatEquation
<1>5. Flattens(Flat(more), more, n + 1)
  BY <1>3, FlatEquation
<1>6. Flattens(Flat(more), more, n)
  BY <1>5 DEF Flattens
<1>7. \A i \in 1 .. n : Flat(seqs)[i] = Flat(more)[i]
  <2>1. \A i \in 1 .. n : seqs[i] = more[i]
    BY <1>3
  <2> QED
    BY <1>4, <1>6, <2>1, FlatUnique
<1>8. FlattenSeq(more) = Flat(more)[n + 1]
  BY <1>3, FlattenIsFlat
<1>9. CASE n = 0
  <2>1. seqs = <<>> /\ FlattenSeq(seqs) = seqs
    BY <1>1, <1>9, FlattenIsFlat, EmptySeq
  <2>2. Flat(more)[1] = s
    BY <1>3, <1>5, <1>9 DEF Flattens
  <2>3. FlattenSeq(more) = s
    BY <1>8, <1>9, <2>2
  <2>4. <<>> \in T /\ <<>> \o s = s
    BY DEF IsJoinable
  <2> QED
    BY <1>2, <2>1, <2>3, <2>4
<1>10. CASE n # 0
  <2>1. FlattenSeq(seqs) = Flat(seqs)[n] /\ n \in 1 .. n
    BY <1>1, <1>10, FlattenIsFlat
  <2>2. n + 1 \in 1 .. n + 1 /\ n + 1 # 1 /\ (n + 1) - 1 = n
    BY <1>10
  <2>3. Flat(more)[n + 1] = Flat(more)[n] \o s
    BY <1>3, <1>5, <2>2 DEF Flattens
  <2> QED
    BY <1>2, <1>4, <1>7, <1>8, <2>1, <2>3
<1> QED
  BY <1>9, <1>10

LEMMA FlattenEmpty == FlattenSeq(<<>>) = <<>>
BY DEF FlattenSeq

-----------------------------------------------------------------------------
(* Recursion from the end of a text.                                       *)

\* Induction from the position behind a text down to its first one.
LEMMA DownInduction ==
  ASSUME NEW n \in Nat, NEW S, n + 1 \in S,
         \A i \in 1 .. n : (\A j \in i + 1 .. n + 1 : j \in S) => i \in S
  PROVE  1 .. n + 1 \subseteq S
<1> DEFINE K == {k \in Nat : \A j \in 1 .. n + 1 : n + 1 - j <= k => j \in S}
<1>1. 0 \in K
  OBVIOUS
<1>2. ASSUME NEW k \in Nat, k \in K
      PROVE  k + 1 \in K
  <2>1. SUFFICES ASSUME NEW j \in 1 .. n + 1, n + 1 - j <= k + 1
                 PROVE  j \in S
    OBVIOUS
  <2>2. CASE n + 1 - j <= k
    BY <1>2, <2>2
  <2>3. CASE n + 1 - j = k + 1
    <3>1. j \in 1 .. n
      BY <2>3
    <3>2. \A i \in j + 1 .. n + 1 : i \in S
      BY <1>2, <2>3
    <3> QED
      BY <3>1, <3>2
  <2> QED
    BY <2>1, <2>2, <2>3
<1>3. n + 1 \in K
  <2> HIDE DEF K
  <2> QED
    BY <1>1, <1>2, SetInduction
<1> QED
  BY <1>3

\* body gives each position a value that depends on later positions only.
IsBackward(body, n, V) ==
    /\ V # {}
    /\ body \in [[1 .. n + 1 -> V] -> [1 .. n + 1 -> V]]
    /\ \A f, g \in [1 .. n + 1 -> V] : \A i \in 1 .. n + 1 :
          (\A j \in i + 1 .. n + 1 : f[j] = g[j]) => body[f][i] = body[g][i]

LEMMA BackwardRecursion ==
  ASSUME NEW n \in Nat, NEW V, NEW body, IsBackward(body, n, V)
  PROVE  HasFixedPoint(body, 1 .. n + 1, V)
<1> DEFINE I == 1 .. n + 1
           rank == [i \in I |-> n + 1 - i]
<1>1. rank \in [I -> 0 .. n]
  OBVIOUS
<1>2. \A i, j \in I : j \in i + 1 .. n + 1 => rank[j] < rank[i]
  OBVIOUS
<1>3. \A i \in I : \A j \in i + 1 .. n + 1 : j \in I
  OBVIOUS
<1>4. IsRecursive(body, I, V, rank, n)
  <2>1. ASSUME NEW f \in [I -> V], NEW g \in [I -> V], NEW i \in I,
               \A j \in I : rank[j] < rank[i] => f[j] = g[j]
        PROVE  body[f][i] = body[g][i]
    <3>1. \A j \in i + 1 .. n + 1 : f[j] = g[j]
      <4> HIDE DEF rank
      <4> QED
        BY <1>2, <1>3, <2>1
    <3> QED
      BY <3>1 DEF IsBackward
  <2> HIDE DEF rank
  <2> QED
    BY <1>1, <2>1 DEF IsBackward, IsRecursive
<1> HIDE DEF I, rank
<1>5. HasFixedPoint(body, I, V)
  BY <1>4, RecursionTheorem
<1> QED
  BY <1>5 DEF I

-----------------------------------------------------------------------------
(* The loop of parse (module Pattern).                                     *)

\* The recursive function in parse: the states of the loop.
After(pattern) ==
    CHOOSE after : after = [n \in 0 .. Len(pattern) |->
        IF n = 0 THEN Start
        ELSE LET s == after[n - 1]
             IN  IF s.code # 0 \/ s.index > Len(pattern) THEN s ELSE Round(pattern, s)]

Done(pattern, s) == s.code # 0 \/ s.index > Len(pattern)

Goes(pattern, s) == IF Done(pattern, s) THEN s ELSE Round(pattern, s)

\* States the loop does not leave, and in which every round gets on.
IsLoopInvariant(Good, pattern) ==
    /\ Start \in Good
    /\ \A s \in Good :
          /\ s.index \in Nat
          /\ ~Done(pattern, s) => /\ Round(pattern, s) \in Good
                                  /\ \/ Round(pattern, s).code # 0
                                     \/ Round(pattern, s).index > s.index

\* What parse makes of the last state of its loop.
Result(end) ==
    LET all == addLiteral(end).items
    IN  IF end.code # 0 THEN [code |-> end.code, items |-> end.items]
        ELSE [code |-> IF \E i \in DOMAIN all : all[i] = NoItem THEN -3 ELSE 0,
              items |-> all]

LEMMA ParseIsResult ==
  ASSUME NEW pattern
  PROVE  parse(pattern) = Result(After(pattern)[Len(pattern)])
BY DEF parse, After, Result

\* The loop keeps its invariant and comes to its end.
LEMMA ParseLoop ==
  ASSUME NEW C, NEW pattern \in Seq(C), NEW Good, IsLoopInvariant(Good, pattern)
  PROVE  \E end \in Good : Done(pattern, end) /\ parse(pattern) = Result(end)
<1> DEFINE step == [i \in 1 .. Len(pattern) |-> [s \in Good |-> Goes(pattern, s)]]
<1>1. PICK n \in Nat : n = Len(pattern)
  OBVIOUS
<1>2. ASSUME NEW s \in Good
      PROVE  Goes(pattern, s) \in Good
  BY DEF IsLoopInvariant, Goes
<1>3. IsStep(step, Good, n) /\ Start \in Good
  BY <1>1, <1>2 DEF IsStep, IsLoopInvariant
<1>4. HasRun(Start, step, Good, n)
  <2> HIDE DEF step
  <2> QED
    BY <1>3, StepRecursion
<1>5. PICK h \in [0 .. n -> Good] : h[0] = Start /\ \A i \in 1 .. n : h[i] = step[i][h[i - 1]]
  <2> HIDE DEF step
  <2> QED
    BY <1>4 DEF HasRun
<1>6. \A i \in 1 .. n : i - 1 \in 0 .. n
  OBVIOUS
<1>7. \A i \in 1 .. n : h[i] = Goes(pattern, h[i - 1])
  BY <1>1, <1>5, <1>6
<1>8. h = [i \in 0 .. n |->
             IF i = 0 THEN Start
             ELSE LET s == h[i - 1]
                  IN  IF s.code # 0 \/ s.index > Len(pattern) THEN s ELSE Round(pattern, s)]
  <2>1. \A i \in 0 .. n : i # 0 => i \in 1 .. n
    OBVIOUS
  <2> QED
    BY <1>5, <1>7, <2>1 DEF Goes, Done
<1> DEFINE A == After(pattern)
<1>9. A = [i \in 0 .. n |->
             IF i = 0 THEN Start
             ELSE LET s == A[i - 1]
                  IN  IF s.code # 0 \/ s.index > Len(pattern) THEN s ELSE Round(pattern, s)]
  BY <1>1, <1>8 DEF After
<1>10. A[0] = Start /\ \A i \in 1 .. n : A[i] = Goes(pattern, A[i - 1])
  <2> HIDE DEF A
  <2>1. 0 \in 0 .. n /\ \A i \in 1 .. n : i \in 0 .. n /\ i # 0
    OBVIOUS
  <2> QED
    BY <1>9, <2>1 DEF Goes, Done
<1>11. A[n] = h[n]
  <2> HIDE DEF A
  <2> DEFINE K == {i \in Nat : i \in 0 .. n => A[i] = h[i]}
  <2>1. 0 \in K
    BY <1>5, <1>10
  <2>2. ASSUME NEW i \in Nat, i \in K
        PROVE  i + 1 \in K
    <3>1. SUFFICES ASSUME i + 1 \in 0 .. n
                   PROVE  A[i + 1] = h[i + 1]
      OBVIOUS
    <3>2. i \in 0 .. n /\ i + 1 \in 1 .. n /\ (i + 1) - 1 = i
      BY <3>1
    <3> QED
      BY <1>7, <1>10, <2>2, <3>2
  <2>3. n \in K
    <3> HIDE DEF K
    <3> QED
      BY <2>1, <2>2, SetInduction
  <2> QED
    BY <2>3
<1>12. Done(pattern, h[n])
  <2> DEFINE K == {i \in Nat : i \in 0 .. n => Done(pattern, h[i]) \/ h[i].index > i}
  <2>1. 0 \in K
    BY <1>5 DEF Start
  <2>2. ASSUME NEW i \in Nat, i \in K
        PROVE  i + 1 \in K
    <3>1. SUFFICES ASSUME i + 1 \in 0 .. n
                   PROVE  Done(pattern, h[i + 1]) \/ h[i + 1].index > i + 1
      OBVIOUS
    <3>2. i \in 0 .. n /\ i + 1 \in 1 .. n /\ (i + 1) - 1 = i
      BY <3>1
    <3>3. h[i + 1] = Goes(pattern, h[i]) /\ h[i] \in Good /\ h[i + 1] \in Good
      BY <1>5, <1>7, <3>2
    <3>4. CASE Done(pattern, h[i])
      BY <3>3, <3>4 DEF Goes
    <3>5. CASE ~Done(pattern, h[i])
      <4>1. h[i + 1] = Round(pattern, h[i]) /\ h[i].index > i
        BY <2>2, <3>2, <3>3, <3>5 DEF Goes
      <4>2. h[i].index \in Nat /\ h[i + 1].index \in Nat
        BY <3>3 DEF IsLoopInvariant
      <4>3. h[i + 1].code # 0 \/ h[i + 1].index > h[i].index
        BY <3>3, <3>5, <4>1 DEF IsLoopInvariant
      <4> QED
        BY <4>1, <4>2, <4>3 DEF Done
    <3> QED
      BY <3>4, <3>5
  <2>3. n \in K
    <3> HIDE DEF K
    <3> QED
      BY <2>1, <2>2, SetInduction
  <2> QED
    BY <1>1, <2>3 DEF Done
<1> QED
  BY <1>1, <1>5, <1>11, <1>12, ParseIsResult

\* The items of a pattern whose characters are in C.
Items(C) ==
    [kind : {"literal"}, text : Seq(C)] \cup [kind : Directives, config : Seq(C)]

LoopStates(C) ==
    [index : Nat \ {0}, literal : Seq(C), items : Seq(Items(C) \cup {NoItem}), code : Int]

\* A literal that is not empty becomes an item.
LEMMA AddLiteralTyped ==
  ASSUME NEW C, NEW s \in LoopStates(C)
  PROVE  addLiteral(s) \in LoopStates(C) /\ addLiteral(s).index = s.index
<1>1. CASE s.literal = <<>>
  BY <1>1 DEF addLiteral
<1>2. CASE s.literal # <<>>
  <2>1. PICK items \in Seq(Items(C) \cup {NoItem}) : items = Append(s.items, Literal(s.literal))
    <3>1. Literal(s.literal) \in Items(C) \cup {NoItem} /\ s.items \in Seq(Items(C) \cup {NoItem})
      BY DEF LoopStates, Literal, Items
    <3> HIDE DEF Items
    <3> QED
      BY <3>1, AppendProperties
  <2>2. addLiteral(s) = [s EXCEPT !.items = items, !.literal = <<>>]
    BY <1>2, <2>1 DEF addLiteral, LoopStates
  <2>3. <<>> \in Seq(C)
    OBVIOUS
  <2> QED
    BY <2>2, <2>3 DEF LoopStates
<1> QED
  BY <1>1, <1>2

\* What a round does to the state of the loop when it goes on.
Plain(s, c, next) == [s EXCEPT !.literal = Append(@, c), !.index = next]
Directed(s, c, config, next) ==
    [addLiteral(s) EXCEPT !.items = Append(@, CreateFormatItem(c, config)), !.index = next]

LEMMA PlainTyped ==
  ASSUME NEW C, NEW s \in LoopStates(C), NEW c \in C, NEW next \in Nat \ {0}
  PROVE  Plain(s, c, next) \in LoopStates(C) /\ Plain(s, c, next).index = next
<1>1. PICK literal \in Seq(C) : literal = Append(s.literal, c)
  BY AppendProperties DEF LoopStates
<1>2. Plain(s, c, next) = [s EXCEPT !.literal = literal, !.index = next]
  BY <1>1 DEF Plain, LoopStates
<1> QED
  BY <1>2 DEF LoopStates

LEMMA DirectiveTyped ==
  ASSUME NEW C, NEW s \in LoopStates(C), NEW c, NEW config \in Seq(C), NEW next \in Nat \ {0}
  PROVE  Directed(s, c, config, next) \in LoopStates(C) /\ Directed(s, c, config, next).index = next
<1>1. PICK r \in LoopStates(C) : r = addLiteral(s)
  BY AddLiteralTyped
<1>2. PICK items \in Seq(Items(C) \cup {NoItem}) :
          items = Append(r.items, CreateFormatItem(c, config))
  <2>1. CreateFormatItem(c, config) \in Items(C) \cup {NoItem}
    BY DEF CreateFormatItem, Item, Items
  <2>2. r.items \in Seq(Items(C) \cup {NoItem})
    BY DEF LoopStates
  <2> HIDE DEF Items
  <2> QED
    BY <2>1, <2>2, AppendProperties
<1>3. Directed(s, c, config, next) = [r EXCEPT !.items = items, !.index = next]
  BY <1>1, <1>2 DEF LoopStates, Directed
<1> QED
  BY <1>3 DEF LoopStates

\* The least of the braces, and the configuration before it.
LEMMA ConfigurationTyped ==
  ASSUME NEW C, NEW pattern \in Seq(C), NEW i \in Nat \ {0}, Closing(pattern, i) # {}
  PROVE  LET least == Least(Closing(pattern, i))
         IN  /\ least \in i .. Len(pattern) /\ pattern[least] = RightBrace
             /\ \A j \in i .. least - 1 : pattern[j] # RightBrace
             /\ SubSeq(pattern, i, least - 1) \in Seq(C)
<1> DEFINE B == Closing(pattern, i)
<1>1. PICK n \in Nat : n = Len(pattern)
  OBVIOUS
<1>2. B \in SUBSET Nat
  BY <1>1 DEF Closing
<1>3. \E x \in B : \A y \in B : x <= y
  BY <1>2, LeastElement
<1>4. PICK least : least = Least(B) /\ least \in B /\ \A y \in B : least <= y
  <2> HIDE DEF B
  <2> QED
    BY <1>3 DEF Least
<1>5. least \in i .. n /\ pattern[least] = RightBrace
  BY <1>1, <1>4 DEF Closing
<1>6. ASSUME NEW j \in i .. least - 1, pattern[j] = RightBrace
      PROVE  FALSE
  <2>1. j \in i .. n /\ j < least
    BY <1>5
  <2>2. j \in B
    BY <1>1, <1>6, <2>1 DEF Closing
  <2> HIDE DEF B
  <2> QED
    BY <1>4, <1>5, <2>1, <2>2
<1>7. SubSeq(pattern, i, least - 1) \in Seq(C)
  <2>1. \A j \in i .. least - 1 : j \in 1 .. n
    BY <1>5
  <2>2. i \in Int /\ least - 1 \in Int /\ \A j \in i .. least - 1 : pattern[j] \in C
    BY <1>1, <1>5, <2>1
  <2> QED
    BY <2>2, SubSeqProperties
<1> QED
  BY <1>1, <1>4, <1>5, <1>6, <1>7

\* A round keeps the types and gets on.
PlainRound(pattern, s, i, next) ==
    /\ \/ next = i + 1 /\ pattern[i] # "%"
       \/ next = i + 2 /\ pattern[i] = "%" /\ pattern[i + 1] = "%"
    /\ Round(pattern, s) = Plain(s, pattern[i], next)

BareRound(pattern, s, i, next) ==
    /\ next = i + 2 /\ pattern[i] = "%" /\ pattern[i + 1] # "%"
    /\ next \in 1 .. Len(pattern) => pattern[next] # LeftBrace
    /\ Round(pattern, s) = Directed(s, pattern[i + 1], <<>>, next)

ConfiguredRound(pattern, s, i, next, config) ==
    /\ pattern[i] = "%" /\ pattern[i + 1] # "%" /\ pattern[i + 2] = LeftBrace
    /\ next - 1 \in i + 4 .. Len(pattern)
    /\ pattern[next - 1] = RightBrace
    /\ \A k \in i + 3 .. next - 2 : pattern[k] # RightBrace
    /\ config = SubSeq(pattern, i + 3, next - 2)
    /\ Round(pattern, s) = Directed(s, pattern[i + 1], config, next)

\* At i nothing can be read: a last %, or a directive whose configuration is
\* empty or not closed.
Stuck(pattern, i) ==
    /\ pattern[i] = "%"
    /\ \/ i = Len(pattern)
       \/ /\ pattern[i + 1] # "%" /\ i + 2 <= Len(pattern) /\ pattern[i + 2] = LeftBrace
          /\ \A j \in i + 4 .. Len(pattern) : pattern[j] = RightBrace =>
                \E k \in i + 3 .. j - 1 : pattern[k] = RightBrace

FailedRound(pattern, s, i) ==
    /\ Stuck(pattern, i)
    /\ Round(pattern, s) \in {[s EXCEPT !.code = -1], [s EXCEPT !.code = -2]}

LEMMA RoundCases ==
  ASSUME NEW C, NEW pattern \in Seq(C), NEW s \in LoopStates(C),
         NEW i \in 1 .. Len(pattern), i = s.index
  PROVE  \/ FailedRound(pattern, s, i)
         \/ \E next \in i + 1 .. Len(pattern) + 1 :
               \/ PlainRound(pattern, s, i, next)
               \/ BareRound(pattern, s, i, next)
               \/ \E config \in Seq(C) : ConfiguredRound(pattern, s, i, next, config)
<1>0. PICK n \in Nat : n = Len(pattern)
  OBVIOUS
<1>1. CASE pattern[i] # "%"
  <2>1. PICK next \in i + 1 .. n + 1 : next = i + 1
    BY <1>0
  <2>2. Round(pattern, s) = Plain(s, pattern[i], next)
    BY <1>1, <2>1 DEF Round, Plain
  <2> QED
    BY <1>0, <1>1, <2>1, <2>2 DEF PlainRound
<1>2. CASE pattern[i] = "%" /\ i = Len(pattern)
  BY <1>2 DEF Round, FailedRound, Stuck
<1>3. CASE i # Len(pattern) /\ pattern[i] = "%" /\ pattern[i + 1] = "%"
  <2>1. PICK next \in i + 1 .. n + 1 : next = i + 2
    BY <1>0, <1>3
  <2>2. Round(pattern, s) = Plain(s, pattern[i], next)
    BY <1>3, <2>1 DEF Round, Plain
  <2> QED
    BY <1>0, <1>3, <2>1, <2>2 DEF PlainRound
<1>4. CASE i # Len(pattern) /\ pattern[i] = "%" /\ pattern[i + 1] # "%"
  <2>1. Round(pattern, s) = Directive(pattern, s, i + 1) /\ i + 1 \in 1 .. Len(pattern)
    BY <1>4 DEF Round
  <2>2. (i + 1) + 1 = i + 2 /\ (i + 1) + 2 = i + 3 /\ i + 3 \in Nat \ {0}
    OBVIOUS
  <2>3. CASE i + 1 = Len(pattern) \/ pattern[i + 2] # LeftBrace
    <3>1. PICK next \in i + 1 .. n + 1 : next = i + 2
      BY <1>0, <2>1
    <3>2. Round(pattern, s) = Directed(s, pattern[i + 1], <<>>, next)
      BY <2>1, <2>2, <2>3, <3>1 DEF Directive, Directed
    <3>3. next \in 1 .. n => pattern[next] # LeftBrace
      BY <1>0, <2>3, <3>1
    <3> QED
      BY <1>0, <1>4, <3>1, <3>2, <3>3 DEF BareRound
  <2>4. CASE ~(i + 1 = Len(pattern) \/ pattern[i + 2] # LeftBrace)
    <3> DEFINE braces == Closing(pattern, i + 3)
    <3>1. CASE braces = {} \/ Least(braces) = i + 3
      <4>1. Round(pattern, s) = [s EXCEPT !.code = -2]
        BY <2>1, <2>2, <2>4, <3>1 DEF Directive
      <4>2. ASSUME NEW j \in i + 4 .. n, pattern[j] = RightBrace
            PROVE  \E k \in i + 3 .. j - 1 : pattern[k] = RightBrace
        <5>1. braces # {}
          BY <1>0, <4>2 DEF Closing
        <5>2. PICK least : least = Least(braces) /\ least = i + 3
          BY <3>1, <5>1
        <5>3. pattern[least] = RightBrace
          BY <2>2, <5>1, <5>2, ConfigurationTyped
        <5> QED
          BY <4>2, <5>2, <5>3
      <4>3. i + 2 <= n /\ pattern[i + 2] = LeftBrace
        BY <1>0, <2>1, <2>4
      <4> QED
        BY <1>0, <1>4, <4>1, <4>2, <4>3 DEF FailedRound, Stuck
    <3>2. CASE ~(braces = {} \/ Least(braces) = i + 3)
      <4>1. PICK j : j = Least(braces)
        OBVIOUS
      <4>2. /\ j \in i + 3 .. Len(pattern) /\ pattern[j] = RightBrace
            /\ \A k \in i + 3 .. j - 1 : pattern[k] # RightBrace
            /\ SubSeq(pattern, i + 3, j - 1) \in Seq(C)
        BY <2>2, <3>2, <4>1, ConfigurationTyped
      <4>3. j \in i + 4 .. Len(pattern)
        <5>1. j # i + 3
          BY <3>2, <4>1
        <5>2. Len(pattern) \in Nat
          OBVIOUS
        <5> QED
          BY <4>2, <5>1, <5>2
      <4>4. PICK next \in i + 1 .. n + 1 : next = j + 1 /\ next - 1 = j /\ next - 2 = j - 1
        BY <1>0, <4>3
      <4>5. PICK config \in Seq(C) : config = SubSeq(pattern, i + 3, j - 1)
        BY <4>2
      <4>6. Round(pattern, s) = Directed(s, pattern[i + 1], config, next)
        BY <2>1, <2>2, <2>4, <3>2, <4>1, <4>4, <4>5 DEF Directive, Directed
      <4>7. /\ next - 1 \in i + 4 .. n /\ pattern[next - 1] = RightBrace
            /\ \A k \in i + 3 .. next - 2 : pattern[k] # RightBrace
            /\ config = SubSeq(pattern, i + 3, next - 2)
        BY <1>0, <4>2, <4>3, <4>4, <4>5
      <4> QED
        BY <1>0, <1>4, <2>4, <4>4, <4>6, <4>7 DEF ConfiguredRound
    <3> QED
      BY <3>1, <3>2
  <2> QED
    BY <2>3, <2>4
<1> QED
  BY <1>1, <1>2, <1>3, <1>4

LEMMA RoundTyped ==
  ASSUME NEW C, NEW pattern \in Seq(C), NEW s \in LoopStates(C), ~Done(pattern, s)
  PROVE  /\ Round(pattern, s) \in LoopStates(C)
         /\ Round(pattern, s).code # 0 \/ Round(pattern, s).index > s.index
<1>0. Len(pattern) \in Nat
  OBVIOUS
<1>1. PICK i \in 1 .. Len(pattern) : i = s.index
  BY DEF Done, LoopStates
<1>2. pattern[i] \in C /\ <<>> \in Seq(C)
  OBVIOUS
<1>3. ASSUME NEW next \in i + 1 .. Len(pattern) + 1, NEW config \in Seq(C),
             NEW r, r = Plain(s, pattern[i], next) \/ r = Directed(s, pattern[i + 1], config, next)
      PROVE  r \in LoopStates(C) /\ r.index > s.index
  <2>1. next \in Nat \ {0} /\ next > i
    BY <1>0
  <2>2. r \in LoopStates(C) /\ r.index = next
    <3>1. PICK c : c = pattern[i + 1]
      OBVIOUS
    <3>2. CASE r = Plain(s, pattern[i], next)
      <4>1. PICK d \in C : d = pattern[i]
        BY <1>2
      <4>2. next \in Nat \ {0}
        BY <2>1
      <4>3. Plain(s, d, next) \in LoopStates(C) /\ Plain(s, d, next).index = next
        BY <4>2, PlainTyped
      <4> QED
        BY <3>2, <4>1, <4>3
    <3>3. CASE r = Directed(s, c, config, next)
      BY <2>1, <3>3, DirectiveTyped
    <3> QED
      BY <1>3, <3>1, <3>2, <3>3
  <2> QED
    BY <1>1, <2>1, <2>2
<1>4. CASE FailedRound(pattern, s, i)
  <2>1. Round(pattern, s) \in {[s EXCEPT !.code = -1], [s EXCEPT !.code = -2]}
    BY <1>4 DEF FailedRound
  <2> QED
    BY <2>1 DEF LoopStates
<1>5. ASSUME NEW next \in i + 1 .. Len(pattern) + 1,
             \/ PlainRound(pattern, s, i, next)
             \/ BareRound(pattern, s, i, next)
             \/ \E config \in Seq(C) : ConfiguredRound(pattern, s, i, next, config)
      PROVE  /\ Round(pattern, s) \in LoopStates(C)
             /\ Round(pattern, s).code # 0 \/ Round(pattern, s).index > s.index
  <2>1. PICK config \in Seq(C) : \/ Round(pattern, s) = Plain(s, pattern[i], next)
                                 \/ Round(pattern, s) = Directed(s, pattern[i + 1], config, next)
    BY <1>2, <1>5 DEF PlainRound, BareRound, ConfiguredRound
  <2> QED
    BY <1>3, <2>1
<1> QED
  BY <1>1, <1>4, <1>5, RoundCases

\* A pattern that is accepted gives items of the kinds that write something.
LEMMA ParseTyped ==
  ASSUME NEW C, NEW pattern \in Seq(C), parse(pattern).code = 0
  PROVE  parse(pattern).items \in Seq(Items(C))
<1> DEFINE Good == LoopStates(C)
<1>1. Start \in Good
  BY DEF Start, LoopStates
<1>2. IsLoopInvariant(Good, pattern)
  <2>1. \A s \in Good : s.index \in Nat
    BY DEF LoopStates
  <2> HIDE DEF Good
  <2>2. \A s \in Good : ~Done(pattern, s) =>
            /\ Round(pattern, s) \in Good
            /\ Round(pattern, s).code # 0 \/ Round(pattern, s).index > s.index
    BY RoundTyped DEF Good
  <2> QED
    BY <1>1, <2>1, <2>2 DEF IsLoopInvariant
<1>3. PICK end \in Good : parse(pattern) = Result(end)
  <2> HIDE DEF Good
  <2> QED
    BY <1>2, ParseLoop
<1>4. PICK all \in Seq(Items(C) \cup {NoItem}) : all = addLiteral(end).items
  BY AddLiteralTyped DEF LoopStates
<1>5. end.code = 0 /\ parse(pattern).items = all /\ \A i \in DOMAIN all : all[i] # NoItem
  BY <1>3, <1>4 DEF Result
<1>6. all \in [1 .. Len(all) -> Items(C)] /\ Len(all) \in Nat
  <2>1. \A i \in 1 .. Len(all) : all[i] \in Items(C)
    BY <1>5
  <2> QED
    BY <2>1
<1> QED
  BY <1>5, <1>6
=============================================================================
