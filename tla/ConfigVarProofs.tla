-------------------------- MODULE ConfigVarProofs --------------------------
(***************************************************************************)
(* What holds of ConfigVar for any threads, values, depth of nested calls  *)
(* and number of listeners.  The argument has two parts: m_writeMutex has  *)
(* one owner, at one point of the code, which makes the replacements one   *)
(* history; and each call of setValue on a stack keeps an account of whom  *)
(* it has told, which survives whatever others do to the list meanwhile.   *)
(***************************************************************************)
EXTENDS ConfigVar, SequenceTheorems, TLAPS

Frames == SetFrames \cup AddFrames

\* The account of a call of setValue: the snapshot names nobody twice and
\* nobody who left before the call; its first part has been called; who
\* stays registered is in it once it is taken.
SetInv(f) ==
    /\ f.gone \subseteq removed
    /\ f.stayed \subseteq ToSet(listeners)
    /\ f.pc \in {"lock", "store", "snapshot"} => f.called = <<>> /\ f.next = 1
    /\ f.pc \in {"call", "inside"} => f.stayed \subseteq ToSet(f.snapshot)
    /\ IsInjective(f.snapshot)
    /\ ToSet(f.snapshot) \cap f.gone = {}
    /\ Len(f.called) <= Len(f.snapshot)
    /\ \A i \in 1 .. Len(f.called) : f.called[i] = f.snapshot[i]
    /\ f.pc = "call" => Len(f.called) = f.next - 1
    /\ f.pc = "inside" => Len(f.called) = f.next

\* An id that is not in the list yet is in use nowhere else.
AddInv(f) == f.id < nextId /\ f.id \notin removed /\ f.id \notin ToSet(listeners)

FrameInv(f) == f \in Frames /\ IF f.pc = "add" THEN AddInv(f) ELSE SetInv(f)

FramesInv == \A t \in Threads : \A n \in 1 .. Len(stack[t]) : FrameInv(stack[t][n])

\* Only listeners have calls on top of them.
StackInv == \A t \in Threads : \A n \in 1 .. Len(stack[t]) - 1 : stack[t][n].pc = "inside"

AddDistinct == \A t, u \in Threads : In(t, "add") /\ In(u, "add") /\ Top(t).id = Top(u).id => t = u

\* The owner of m_writeMutex is at the store and has read the current value.
WriterInv == \A t \in Threads : /\ writer = t <=> In(t, "store")
                                /\ In(t, "store") => Top(t).old = value

ListInv ==
    /\ IsInjective(listeners)
    /\ ToSet(listeners) \cap removed = {}
    /\ \A id \in ToSet(listeners) \cup removed : id < nextId

Inv == /\ TypeOK /\ OneHistory
       /\ FramesInv /\ StackInv /\ AddDistinct /\ WriterInv /\ ListInv

-----------------------------------------------------------------------------
(* Sequences.                                                              *)

LEMMA Removing ==
  ASSUME NEW S, NEW s \in Seq(S), NEW i \in 1 .. Len(s)
  PROVE  /\ RemoveAt(s, i) \in Seq(S)
         /\ Len(RemoveAt(s, i)) = Len(s) - 1
         /\ \A j \in 1 .. Len(s) - 1 :
               RemoveAt(s, i)[j] = IF j < i THEN s[j] ELSE s[j + 1]
<1>1. Len(s) \in Nat /\ i \in Int /\ i - 1 \in Int /\ i + 1 \in Int /\ 1 \in Int /\ Len(s) \in Int
  OBVIOUS
<1>2. PICK a : a = SubSeq(s, 1, i - 1)
  OBVIOUS
<1>3. PICK b : b = SubSeq(s, i + 1, Len(s))
  OBVIOUS
<1>4. a \in Seq(S) /\ Len(a) = i - 1 /\ \A j \in 1 .. i - 1 : a[j] = s[j]
  <2>1. \A j \in 1 .. i - 1 : s[j] \in S
    OBVIOUS
  <2>2. /\ a \in Seq(S) /\ Len(a) = IF 1 <= i - 1 THEN (i - 1) - 1 + 1 ELSE 0
        /\ \A j \in 1 .. (i - 1) - 1 + 1 : a[j] = s[1 + j - 1]
    BY <1>1, <1>2, <2>1, SubSeqProperties
  <2> QED
    BY <2>2
<1>5. /\ b \in Seq(S) /\ Len(b) = Len(s) - i
      /\ \A j \in 1 .. Len(s) - i : b[j] = s[i + j]
  <2>1. \A j \in i + 1 .. Len(s) : s[j] \in S
    OBVIOUS
  <2>2. /\ b \in Seq(S) /\ Len(b) = IF i + 1 <= Len(s) THEN Len(s) - (i + 1) + 1 ELSE 0
        /\ \A j \in 1 .. Len(s) - (i + 1) + 1 : b[j] = s[(i + 1) + j - 1]
    BY <1>1, <1>3, <2>1, SubSeqProperties
  <2> QED
    BY <2>2
<1>6. /\ a \o b \in Seq(S) /\ Len(a \o b) = Len(a) + Len(b)
      /\ \A j \in 1 .. Len(a) + Len(b) :
            (a \o b)[j] = IF j <= Len(a) THEN a[j] ELSE b[j - Len(a)]
  BY <1>4, <1>5, ConcatProperties
<1>7. ASSUME NEW j \in 1 .. Len(s) - 1
      PROVE  (a \o b)[j] = IF j < i THEN s[j] ELSE s[j + 1]
  <2>1. CASE j < i
    BY <1>4, <1>5, <1>6, <2>1
  <2>2. CASE ~(j < i)
    <3>1. j - Len(a) \in 1 .. Len(s) - i /\ i + (j - Len(a)) = j + 1
      BY <1>4, <2>2
    <3>2. j \in 1 .. Len(a) + Len(b) /\ ~(j <= Len(a))
      BY <1>4, <1>5, <2>2
    <3>3. (a \o b)[j] = b[j - Len(a)]
      BY <1>6, <3>2
    <3>4. b[j - Len(a)] = s[i + (j - Len(a))]
      BY <1>5, <3>1
    <3> QED
      BY <2>2, <3>1, <3>3, <3>4
  <2> QED
    BY <2>1, <2>2
<1>8. RemoveAt(s, i) = a \o b
  BY <1>2, <1>3 DEF RemoveAt
<1>9. Len(a) + Len(b) = Len(s) - 1
  BY <1>4, <1>5
<1> QED
  BY <1>6, <1>7, <1>8, <1>9

\* Taking one of several different elements out leaves the others.
LEMMA RemovingOne ==
  ASSUME NEW S, NEW s \in Seq(S), IsInjective(s), NEW i \in 1 .. Len(s)
  PROVE  /\ RemoveAt(s, i) \in Seq(S)
         /\ IsInjective(RemoveAt(s, i))
         /\ ToSet(RemoveAt(s, i)) = ToSet(s) \ {s[i]}
<1>1. PICK r \in Seq(S) : r = RemoveAt(s, i)
  BY Removing
<1>2. /\ Len(r) = Len(s) - 1
      /\ \A j \in 1 .. Len(r) : r[j] = IF j < i THEN s[j] ELSE s[j + 1]
  BY <1>1, Removing
<1>3. \A j, k \in 1 .. Len(s) : s[j] = s[k] => j = k
  BY DEF IsInjective
<1>4. \A j, k \in 1 .. Len(r) : r[j] = r[k] => j = k
  BY <1>2, <1>3
<1>5. \A j \in 1 .. Len(r) : \E k \in 1 .. Len(s) : k # i /\ r[j] = s[k]
  <2> TAKE j \in 1 .. Len(r)
  <2>1. CASE j < i
    BY <1>2, <2>1
  <2>2. CASE ~(j < i)
    <3>1. j + 1 \in 1 .. Len(s) /\ j + 1 # i
      BY <1>2, <2>2
    <3> QED
      BY <1>2, <2>2, <3>1
  <2> QED
    BY <2>1, <2>2
<1>6. \A k \in 1 .. Len(s) : k # i => \E j \in 1 .. Len(r) : r[j] = s[k]
  <2> TAKE k \in 1 .. Len(s)
  <2> HAVE k # i
  <2>1. CASE k < i
    BY <1>2, <2>1
  <2>2. CASE k > i
    <3>1. k - 1 \in 1 .. Len(r) /\ ~(k - 1 < i) /\ (k - 1) + 1 = k
      BY <1>2, <2>2
    <3> QED
      BY <1>2, <3>1
  <2> QED
    BY <2>1, <2>2
<1>7. DOMAIN r = 1 .. Len(r) /\ DOMAIN s = 1 .. Len(s)
  OBVIOUS
<1>8. IsInjective(r)
  BY <1>4, <1>7 DEF IsInjective
<1>9. \A x : x \in ToSet(r) <=> x \in ToSet(s) \ {s[i]}
  <2>1. ToSet(r) = {r[j] : j \in 1 .. Len(r)} /\ ToSet(s) = {s[k] : k \in 1 .. Len(s)}
    BY <1>7 DEF ToSet
  <2>2. \A x : x \in ToSet(r) => x \in ToSet(s) \ {s[i]}
    BY <1>3, <1>5, <2>1
  <2>3. \A x : x \in ToSet(s) \ {s[i]} => x \in ToSet(r)
    BY <1>6, <2>1
  <2> QED
    BY <2>2, <2>3
<1> QED
  BY <1>1, <1>8, <1>9

-----------------------------------------------------------------------------
(* Stacks.                                                                 *)

LEMMA Fronts ==
  ASSUME NEW S, NEW s \in Seq(S), Len(s) \in Nat \ {0}
  PROVE  /\ Front(s) \in Seq(S) /\ Len(Front(s)) = Len(s) - 1
         /\ \A n \in 1 .. Len(s) - 1 : Front(s)[n] = s[n]
<1>1. 1 \in Int /\ Len(s) - 1 \in Int /\ \A n \in 1 .. Len(s) - 1 : s[n] \in S
  OBVIOUS
<1>2. PICK r : r = SubSeq(s, 1, Len(s) - 1)
  OBVIOUS
<1>3. /\ r \in Seq(S) /\ Len(r) = IF 1 <= Len(s) - 1 THEN (Len(s) - 1) - 1 + 1 ELSE 0
      /\ \A n \in 1 .. (Len(s) - 1) - 1 + 1 : r[n] = s[1 + n - 1]
  BY <1>1, <1>2, SubSeqProperties
<1>4. ASSUME NEW n \in 1 .. Len(s) - 1
      PROVE  r[n] = s[n]
  <2>1. n \in 1 .. (Len(s) - 1) - 1 + 1 /\ 1 + n - 1 = n
    OBVIOUS
  <2> QED
    BY <1>3, <2>1
<1>5. Len(r) = Len(s) - 1
  <2>1. ASSUME NEW m \in Nat \ {0}
        PROVE  m - 1 = IF 1 <= m - 1 THEN (m - 1) - 1 + 1 ELSE 0
    OBVIOUS
  <2> QED
    BY <1>3, <2>1
<1>6. Front(s) = r
  BY <1>2 DEF Front
<1> QED
  BY <1>3, <1>4, <1>5, <1>6

LEMMA Pushes ==
  ASSUME stack \in [Threads -> Seq(Frames)], NEW t \in Threads, NEW f \in Frames, Push(t, f)
  PROVE  /\ stack' \in [Threads -> Seq(Frames)]
         /\ \A u \in Threads \ {t} : stack'[u] = stack[u]
         /\ stack'[t] # <<>> /\ Len(stack'[t]) = Len(stack[t]) + 1 /\ Top(t)' = f
         /\ \A n \in 1 .. Len(stack[t]) : stack'[t][n] = stack[t][n]
<1>1. PICK s \in Seq(Frames) : s = stack[t]
  OBVIOUS
<1>2. PICK r : r = Append(s, f)
  OBVIOUS
<1>3. /\ r \in Seq(Frames) /\ Len(r) = Len(s) + 1 /\ r[Len(s) + 1] = f
      /\ \A n \in 1 .. Len(s) : r[n] = s[n]
  BY <1>2
<1>4. r # <<>>
  BY <1>3
<1>5. stack' = [stack EXCEPT ![t] = r]
  BY <1>1, <1>2 DEF Push
<1> QED
  BY <1>1, <1>3, <1>4, <1>5 DEF Top, Last

LEMMA Pops ==
  ASSUME stack \in [Threads -> Seq(Frames)], NEW t \in Threads, stack[t] # <<>>, Pop(t)
  PROVE  /\ stack' \in [Threads -> Seq(Frames)]
         /\ \A u \in Threads \ {t} : stack'[u] = stack[u]
         /\ Len(stack[t]) \in Nat \ {0} /\ Len(stack'[t]) = Len(stack[t]) - 1
         /\ \A n \in 1 .. Len(stack[t]) - 1 : stack'[t][n] = stack[t][n]
<1>1. PICK s \in Seq(Frames) : s = stack[t]
  OBVIOUS
<1>2. PICK r : r = Front(s)
  OBVIOUS
<1>3. Len(s) \in Nat \ {0}
  BY <1>1
<1>4. /\ r \in Seq(Frames) /\ Len(r) = Len(s) - 1
      /\ \A n \in 1 .. Len(s) - 1 : r[n] = s[n]
  BY <1>2, <1>3, Fronts
<1>5. stack' = [stack EXCEPT ![t] = r]
  BY <1>1, <1>2 DEF Pop
<1> QED
  BY <1>1, <1>3, <1>4, <1>5

LEMMA Becomes ==
  ASSUME stack \in [Threads -> Seq(Frames)], NEW t \in Threads, NEW f \in Frames,
         stack[t] # <<>>, Become(t, f)
  PROVE  /\ stack' \in [Threads -> Seq(Frames)]
         /\ \A u \in Threads \ {t} : stack'[u] = stack[u]
         /\ stack'[t] # <<>> /\ Len(stack'[t]) = Len(stack[t]) /\ Top(t)' = f
         /\ \A n \in 1 .. Len(stack[t]) - 1 : stack'[t][n] = stack[t][n]
<1>1. PICK s \in Seq(Frames) : s = stack[t]
  OBVIOUS
<1>2. PICK r : r = Front(s)
  OBVIOUS
<1>3. Len(s) \in Nat \ {0}
  BY <1>1
<1>4. /\ r \in Seq(Frames) /\ Len(r) = Len(s) - 1
      /\ \A n \in 1 .. Len(s) - 1 : r[n] = s[n]
  BY <1>2, <1>3, Fronts
<1>5. PICK q : q = Append(r, f)
  OBVIOUS
<1>6. /\ q \in Seq(Frames) /\ Len(q) = Len(s) /\ q[Len(s)] = f
      /\ \A n \in 1 .. Len(s) - 1 : q[n] = s[n]
  BY <1>3, <1>4, <1>5
<1>7. q # <<>>
  BY <1>3, <1>6
<1>8. stack' = [stack EXCEPT ![t] = q]
  BY <1>1, <1>2, <1>5 DEF Become
<1> QED
  BY <1>1, <1>6, <1>7, <1>8 DEF Top, Last

\* The innermost call of a thread and its invariant.
LEMMA TopFrame ==
  ASSUME Inv, NEW t \in Threads, stack[t] # <<>>
  PROVE  /\ stack \in [Threads -> Seq(Frames)]
         /\ Len(stack[t]) \in Nat \ {0}
         /\ Top(t) = stack[t][Len(stack[t])]
         /\ Top(t) \in Frames /\ FrameInv(Top(t))
<1>1. stack \in [Threads -> Seq(Frames)]
  BY DEF Inv, TypeOK, Frames
<1>2. Len(stack[t]) \in Nat \ {0} /\ Len(stack[t]) \in 1 .. Len(stack[t])
  BY <1>1
<1>3. FrameInv(stack[t][Len(stack[t])])
  BY <1>2 DEF Inv, FramesInv
<1> QED
  BY <1>1, <1>2, <1>3 DEF Top, Last, FrameInv

\* Calls that do not change the list leave everyone's account as it is.
LEMMA AccountsKept ==
  ASSUME UNCHANGED <<listeners, removed, nextId>>, NEW f, FrameInv(f)
  PROVE  FrameInv(f)'
BY DEF FrameInv, SetInv, AddInv

\* t has changed only the top of its stack, above listeners that run.
OnlyTop(t) ==
    /\ stack' \in [Threads -> Seq(Frames)]
    /\ \A u \in Threads \ {t} : stack'[u] = stack[u]
    /\ \A n \in 1 .. Len(stack'[t]) - 1 :
          /\ n \in 1 .. Len(stack[t]) /\ stack'[t][n] = stack[t][n]
          /\ stack[t][n].pc = "inside"

\* Then the frames satisfy their invariants again if the new top does and
\* the others do.
LEMMA FramesAgain ==
  ASSUME Inv, NEW t \in Threads, OnlyTop(t),
         stack'[t] # <<>> => FrameInv(Top(t))',
         \A f : FrameInv(f) /\ f.pc = "inside" => FrameInv(f)',
         \A u \in Threads \ {t} : \A n \in 1 .. Len(stack'[u]) : FrameInv(stack[u][n])'
  PROVE  FramesInv' /\ StackInv'
<1>1. ASSUME NEW n \in 1 .. Len(stack'[t])
      PROVE  FrameInv(stack[t][n])'
  <2>1. CASE n = Len(stack'[t])
    <3>1. stack'[t] # <<>> /\ Top(t)' = stack'[t][n]
      BY <2>1 DEF Top, Last
    <3> QED
      BY <3>1
  <2>2. CASE n # Len(stack'[t])
    <3>1. n \in 1 .. Len(stack'[t]) - 1
      BY <2>2 DEF OnlyTop
    <3>2. n \in 1 .. Len(stack[t]) /\ stack'[t][n] = stack[t][n] /\ stack[t][n].pc = "inside"
      BY <3>1 DEF OnlyTop
    <3>3. FrameInv(stack[t][n])
      BY <3>2 DEF Inv, FramesInv
    <3>4. PICK f : f = stack[t][n]
      OBVIOUS
    <3>5. FrameInv(f)'
      BY <3>2, <3>3, <3>4
    <3> QED
      BY <3>2, <3>4, <3>5
  <2> QED
    BY <2>1, <2>2
<1>2. \A u \in Threads \ {t} : stack'[u] = stack[u]
  BY DEF OnlyTop
<1>3. FramesInv'
  BY <1>1 DEF FramesInv
<1>4. \A n \in 1 .. Len(stack'[t]) - 1 : stack'[t][n].pc = "inside"
  BY DEF OnlyTop
<1>5. StackInv'
  BY <1>2, <1>4 DEF Inv, StackInv
<1> QED
  BY <1>3, <1>5

\* A thread whose stack does not change is where it was.
LEMMA StaysPut ==
  ASSUME NEW u, stack'[u] = stack[u]
  PROVE  Top(u)' = Top(u) /\ \A pc : In(u, pc)' <=> In(u, pc)
BY DEF Top, In

\* A step of t on its own call that leaves the list alone.
LEMMA Moves ==
  ASSUME Inv, NEW t \in Threads, OnlyTop(t),
         UNCHANGED <<listeners, removed, nextId>>,
         stack'[t] # <<>> => FrameInv(Top(t))' /\ Top(t)'.pc # "add"
  PROVE  FramesInv' /\ StackInv' /\ AddDistinct' /\ ListInv'
<1>1. \A f : FrameInv(f) => FrameInv(f)'
  BY AccountsKept
<1>2. \A u \in Threads \ {t} : stack'[u] = stack[u]
  BY DEF OnlyTop
<1>3. ASSUME NEW u \in Threads \ {t}, NEW n \in 1 .. Len(stack'[u])
      PROVE  FrameInv(stack[u][n])'
  <2>1. FrameInv(stack[u][n])
    BY <1>2 DEF Inv, FramesInv
  <2>2. PICK f : f = stack[u][n]
    OBVIOUS
  <2>3. FrameInv(f)'
    BY <1>1, <2>1, <2>2
  <2> QED
    BY <1>2, <2>2, <2>3
<1>4. FramesInv' /\ StackInv'
  BY <1>1, <1>3, FramesAgain
<1>5. ~In(t, "add")'
  BY DEF In
<1>6. \A u \in Threads \ {t} : Top(u)' = Top(u) /\ (In(u, "add")' <=> In(u, "add"))
  BY <1>2, StaysPut
<1>7. AddDistinct'
  BY <1>5, <1>6 DEF Inv, AddDistinct
<1>8. ListInv'
  BY DEF Inv, ListInv
<1> QED
  BY <1>4, <1>7, <1>8

\* The call that begins lies on a listener, or on nothing.
LEMMA PushMove ==
  ASSUME Inv, NEW t \in Threads, UserRuns(t), NEW f \in Frames, Push(t, f)
  PROVE  /\ OnlyTop(t) /\ stack'[t] # <<>> /\ Top(t)' = f
         /\ \A pc : In(t, pc) => pc = "inside"
<1>1. stack \in [Threads -> Seq(Frames)]
  BY DEF Inv, TypeOK, Frames
<1>2. /\ stack' \in [Threads -> Seq(Frames)]
      /\ \A u \in Threads \ {t} : stack'[u] = stack[u]
      /\ stack'[t] # <<>> /\ Len(stack'[t]) = Len(stack[t]) + 1 /\ Top(t)' = f
      /\ \A n \in 1 .. Len(stack[t]) : stack'[t][n] = stack[t][n]
  BY <1>1, Pushes
<1>3. \A n \in 1 .. Len(stack[t]) : stack[t][n].pc = "inside"
  <2>1. \A n \in 1 .. Len(stack[t]) - 1 : stack[t][n].pc = "inside"
    BY DEF Inv, StackInv
  <2>2. stack[t] # <<>> => stack[t][Len(stack[t])].pc = "inside"
    BY DEF UserRuns, In, Top, Last
  <2>3. Len(stack[t]) \in Nat
    BY <1>1
  <2> QED
    BY <2>1, <2>2, <2>3
<1>4. \A n \in 1 .. Len(stack'[t]) - 1 : n \in 1 .. Len(stack[t])
  BY <1>1, <1>2
<1> QED
  BY <1>2, <1>3, <1>4 DEF OnlyTop, UserRuns, In

\* A call that ends leaves a listener on top, or nothing.
LEMMA PopMove ==
  ASSUME Inv, NEW t \in Threads, stack[t] # <<>>, Pop(t)
  PROVE  /\ OnlyTop(t)
         /\ stack'[t] # <<>> => /\ Top(t)'.pc = "inside"
                                /\ \E n \in 1 .. Len(stack[t]) - 1 : Top(t)' = stack[t][n]
         /\ \A pc : In(t, pc)' => pc = "inside"
<1>1. stack \in [Threads -> Seq(Frames)]
  BY DEF Inv, TypeOK, Frames
<1>2. /\ stack' \in [Threads -> Seq(Frames)]
      /\ \A u \in Threads \ {t} : stack'[u] = stack[u]
      /\ Len(stack[t]) \in Nat \ {0} /\ Len(stack'[t]) = Len(stack[t]) - 1
      /\ \A n \in 1 .. Len(stack[t]) - 1 : stack'[t][n] = stack[t][n]
  BY <1>1, Pops
<1>3. \A n \in 1 .. Len(stack[t]) - 1 : stack[t][n].pc = "inside"
  BY DEF Inv, StackInv
<1>4. \A n \in 1 .. Len(stack'[t]) - 1 : n \in 1 .. Len(stack[t]) - 1 /\ n \in 1 .. Len(stack[t])
  BY <1>2
<1>5. OnlyTop(t)
  BY <1>2, <1>3, <1>4 DEF OnlyTop
<1>6. ASSUME stack'[t] # <<>>
      PROVE  /\ Top(t)'.pc = "inside"
             /\ \E n \in 1 .. Len(stack[t]) - 1 : Top(t)' = stack[t][n]
  <2>1. stack'[t] \in Seq(Frames)
    BY <1>2
  <2>2. Len(stack'[t]) \in Nat /\ Len(stack'[t]) # 0
    BY <1>6, <2>1
  <2>3. PICK n : n = Len(stack'[t])
    OBVIOUS
  <2>4. n \in 1 .. Len(stack[t]) - 1
    <3>1. ASSUME NEW k \in Nat \ {0}, NEW m \in Nat, m # 0, m = k - 1
          PROVE  m \in 1 .. k - 1
      BY <3>1
    <3>2. Len(stack[t]) \in Nat \ {0} /\ n \in Nat /\ n # 0 /\ n = Len(stack[t]) - 1
      BY <1>2, <2>2, <2>3
    <3> QED
      BY <3>1, <3>2
  <2>5. Top(t)' = stack'[t][n]
    BY <2>3 DEF Top, Last
  <2> QED
    BY <1>2, <1>3, <2>4, <2>5
<1> QED
  BY <1>5, <1>6 DEF In

\* A step of the innermost call.
LEMMA BecomeMove ==
  ASSUME Inv, NEW t \in Threads, stack[t] # <<>>, NEW f \in Frames, Become(t, f)
  PROVE  OnlyTop(t) /\ stack'[t] # <<>> /\ Top(t)' = f
<1>1. stack \in [Threads -> Seq(Frames)]
  BY DEF Inv, TypeOK, Frames
<1>2. /\ stack' \in [Threads -> Seq(Frames)]
      /\ \A u \in Threads \ {t} : stack'[u] = stack[u]
      /\ stack'[t] # <<>> /\ Len(stack'[t]) = Len(stack[t]) /\ Top(t)' = f
      /\ \A n \in 1 .. Len(stack[t]) - 1 : stack'[t][n] = stack[t][n]
  BY <1>1, Becomes
<1>3. \A n \in 1 .. Len(stack[t]) - 1 : stack[t][n].pc = "inside"
  BY DEF Inv, StackInv
<1>4. \A n \in 1 .. Len(stack'[t]) - 1 : n \in 1 .. Len(stack[t])
  BY <1>1, <1>2
<1> QED
  BY <1>2, <1>3, <1>4 DEF OnlyTop

\* Who is at the store does not change in a step of another point.
LEMMA WritersKept ==
  ASSUME Inv, NEW t \in Threads, OnlyTop(t), UNCHANGED <<writer, value>>,
         ~In(t, "store"), ~In(t, "store")'
  PROVE  WriterInv'
<1>1. \A u \in Threads \ {t} : Top(u)' = Top(u) /\ (In(u, "store")' <=> In(u, "store"))
  BY StaysPut DEF OnlyTop
<1> QED
  BY <1>1 DEF Inv, WriterInv

LEMMA FrameKinds ==
  ASSUME NEW f \in Frames
  PROVE  IF f.pc = "add" THEN f \in AddFrames ELSE f \in SetFrames
BY DEF Frames, SetFrames, AddFrames

\* The innermost call, when it is one of setValue.
LEMMA TopSet ==
  ASSUME Inv, NEW t \in Threads, NEW pc \in {"lock", "store", "snapshot", "call", "inside"},
         In(t, pc)
  PROVE  stack[t] # <<>> /\ Top(t).pc = pc /\ Top(t) \in SetFrames /\ SetInv(Top(t))
<1>1. stack[t] # <<>> /\ Top(t).pc = pc /\ pc # "add"
  BY DEF In
<1> QED
  BY <1>1, TopFrame, FrameKinds DEF FrameInv

-----------------------------------------------------------------------------
(* Initial states and actions.                                             *)

LEMMA InitEstablishes == Init => Inv
<1> SUFFICES ASSUME Init PROVE Inv
  OBVIOUS
<1>1. TypeOK
  BY ConfigVarAssumption DEF Init, TypeOK, FirstId
<1>2. OneHistory
  BY DEF Init, OneHistory
<1>3. \A t \in Threads : stack[t] = <<>> /\ Len(stack[t]) = 0
  BY DEF Init
<1>4. FramesInv /\ StackInv
  BY <1>3 DEF FramesInv, StackInv
<1>5. AddDistinct /\ WriterInv
  BY <1>3, ConfigVarAssumption DEF AddDistinct, WriterInv, In, Init
<1>6. ListInv
  BY DEF ListInv, Init, ToSet, IsInjective
<1> QED
  BY <1>1, <1>2, <1>4, <1>5, <1>6 DEF Inv

LEMMA SetBeginPreserves ==
  ASSUME Inv, NEW t \in Threads, NEW v \in Values, SetBegin(t, v)
  PROVE  Inv'
<1>1. PICK f : f = [pc |-> "lock", new |-> v, old |-> v,
                    snapshot |-> <<>>, next |-> 1, called |-> <<>>,
                    stayed |-> {}, gone |-> removed]
  OBVIOUS
<1>2. f \in SetFrames /\ f \in Frames
  <2>1. <<>> \in Seq(Ids) /\ removed \in SUBSET Ids
    BY DEF Inv, TypeOK
  <2> QED
    BY <1>1, <2>1 DEF SetFrames, Frames
<1>3. OnlyTop(t) /\ stack'[t] # <<>> /\ Top(t)' = f /\ \A pc : In(t, pc) => pc = "inside"
  BY <1>1, <1>2, PushMove DEF SetBegin
<1>4. UNCHANGED <<value, writer, listeners, nextId, outcomes, removed>>
  BY DEF SetBegin
<1>5. FrameInv(f)'
  BY <1>1, <1>2, <1>4 DEF FrameInv, SetInv, ToSet, IsInjective
<1>6. FramesInv' /\ StackInv' /\ AddDistinct' /\ ListInv'
  <2>1. FrameInv(Top(t))' /\ Top(t)'.pc # "add"
    BY <1>1, <1>3, <1>5
  <2>2. UNCHANGED <<listeners, removed, nextId>>
    BY <1>4
  <2> QED
    BY <1>3, <2>1, <2>2, Moves
<1>7. WriterInv'
  BY <1>1, <1>3, <1>4, WritersKept DEF In
<1>8. TypeOK' /\ OneHistory'
  BY <1>3, <1>4 DEF Inv, TypeOK, OneHistory, OnlyTop, Frames
<1> QED
  BY <1>6, <1>7, <1>8 DEF Inv

LEMMA SetLockPreserves ==
  ASSUME Inv, NEW t \in Threads, SetLock(t)
  PROVE  Inv'
<1>1. stack[t] # <<>> /\ Top(t).pc = "lock" /\ Top(t) \in SetFrames /\ SetInv(Top(t))
  BY TopSet DEF SetLock
<1>2. PICK f : f = [Top(t) EXCEPT !.pc = "store", !.old = value]
  OBVIOUS
<1>3. f \in SetFrames /\ f \in Frames
  BY <1>1, <1>2 DEF Inv, TypeOK, SetFrames, Frames
<1>4. OnlyTop(t) /\ stack'[t] # <<>> /\ Top(t)' = f
  BY <1>1, <1>2, <1>3, BecomeMove DEF SetLock
<1>5. UNCHANGED <<value, listeners, nextId, outcomes, removed>> /\ writer' = t /\ writer = Nobody
  BY DEF SetLock, MutexFree
<1>6. /\ f.pc = "store" /\ f.old = value
      /\ f.gone = Top(t).gone /\ f.stayed = Top(t).stayed /\ f.called = Top(t).called
      /\ f.next = Top(t).next /\ f.snapshot = Top(t).snapshot
  BY <1>1, <1>2 DEF SetFrames
<1>7. FrameInv(f)'
  BY <1>1, <1>3, <1>5, <1>6 DEF FrameInv, SetInv
<1>8. FramesInv' /\ StackInv' /\ AddDistinct' /\ ListInv'
  BY <1>4, <1>5, <1>6, <1>7, Moves
<1>9. WriterInv'
  <2>1. \A u \in Threads : ~In(u, "store")
    BY <1>5, ConfigVarAssumption DEF Inv, WriterInv
  <2>2. \A u \in Threads \ {t} : In(u, "store")' <=> In(u, "store")
    BY <1>4, StaysPut DEF OnlyTop
  <2>3. In(t, "store")' /\ Top(t)'.old = value
    BY <1>4, <1>6 DEF In
  <2> QED
    BY <1>5, <2>1, <2>2, <2>3 DEF WriterInv
<1>10. TypeOK' /\ OneHistory'
  BY <1>4, <1>5 DEF Inv, TypeOK, OneHistory, OnlyTop, Frames
<1> QED
  BY <1>8, <1>9, <1>10 DEF Inv

\* A call that ends without touching the list.
LEMMA PopAgain ==
  ASSUME Inv, NEW t \in Threads, stack[t] # <<>>, Pop(t),
         UNCHANGED <<listeners, removed, nextId>>
  PROVE  FramesInv' /\ StackInv' /\ AddDistinct' /\ ListInv'
<1>1. OnlyTop(t)
  BY PopMove
<1>2. ASSUME stack'[t] # <<>>
      PROVE  FrameInv(Top(t))' /\ Top(t)'.pc # "add"
  <2>1. PICK n \in 1 .. Len(stack[t]) - 1 : Top(t)' = stack[t][n] /\ Top(t)'.pc = "inside"
    BY <1>2, PopMove
  <2>2. n \in 1 .. Len(stack[t])
    BY TopFrame
  <2>3. PICK f : f = stack[t][n]
    OBVIOUS
  <2>4. FrameInv(f)
    BY <2>2, <2>3 DEF Inv, FramesInv
  <2>5. FrameInv(f)'
    BY <2>4, AccountsKept
  <2> QED
    BY <2>1, <2>3, <2>5
<1> QED
  BY <1>1, <1>2, Moves

\* Only the owner of m_writeMutex is at the store.
LEMMA OneWriter ==
  ASSUME Inv, NEW t \in Threads, In(t, "store")
  PROVE  \A u \in Threads \ {t} : ~In(u, "store")
BY DEF Inv, WriterInv

LEMMA WriterLeaves ==
  ASSUME Inv, NEW t \in Threads, In(t, "store"), OnlyTop(t), ~In(t, "store")', writer' = Nobody
  PROVE  WriterInv'
<1>1. \A u \in Threads \ {t} : In(u, "store")' <=> In(u, "store")
  BY StaysPut DEF OnlyTop
<1>2. \A u \in Threads : ~In(u, "store")'
  BY <1>1, OneWriter
<1> QED
  BY <1>2, ConfigVarAssumption DEF WriterInv

\* The history goes on with a replacement of the current value.
LEMMA HistoryGoesOn ==
  ASSUME Inv, NEW v \in Values, value' = v,
         outcomes' = Append(outcomes, [old |-> value, new |-> v])
  PROVE  OneHistory' /\ outcomes' \in Seq([old : Values, new : Values])
<1>1. PICK s \in Seq([old : Values, new : Values]) : s = outcomes
  BY DEF Inv, TypeOK
<1>2. PICK o \in [old : Values, new : Values] : o = [old |-> value, new |-> v]
  BY DEF Inv, TypeOK
<1>3. PICK r : r = Append(s, o)
  OBVIOUS
<1>4. /\ r \in Seq([old : Values, new : Values]) /\ Len(r) = Len(s) + 1
      /\ r[Len(s) + 1] = o /\ \A n \in 1 .. Len(s) : r[n] = s[n]
  BY <1>3
<1>5. Len(s) \in Nat /\ DOMAIN s = 1 .. Len(s) /\ DOMAIN r = 1 .. Len(s) + 1 /\ r # <<>>
  BY <1>4
<1>6. /\ \A n \in 1 .. Len(s) : s[n].old = IF n = 1 THEN Default ELSE s[n - 1].new
      /\ value = IF s = <<>> THEN Default ELSE s[Len(s)].new
  BY <1>1, <1>5 DEF Inv, OneHistory, Last
<1>7. ASSUME NEW n \in 1 .. Len(s) + 1
      PROVE  r[n].old = IF n = 1 THEN Default ELSE r[n - 1].new
  <2>1. CASE n \in 1 .. Len(s)
    <3>1. n = 1 \/ n - 1 \in 1 .. Len(s)
      BY <1>5, <2>1
    <3> QED
      BY <1>4, <1>6, <2>1, <3>1
  <2>2. CASE n = Len(s) + 1
    <3>1. r[n].old = value
      BY <1>2, <1>4, <2>2
    <3>2. CASE s = <<>>
      BY <1>6, <2>2, <3>1, <3>2
    <3>3. CASE s # <<>>
      <4>1. Len(s) \in 1 .. Len(s) /\ n # 1 /\ n - 1 = Len(s)
        BY <1>1, <1>5, <2>2, <3>3
      <4> QED
        BY <1>4, <1>6, <3>1, <3>3, <4>1
    <3> QED
      BY <3>2, <3>3
  <2> QED
    BY <1>5, <2>1, <2>2
<1>8. r[Len(r)].new = v
  BY <1>2, <1>4
<1>9. outcomes' = r
  BY <1>1, <1>2, <1>3
<1> QED
  BY <1>4, <1>5, <1>7, <1>8, <1>9 DEF OneHistory, Last

LEMMA SetEqualPreserves ==
  ASSUME Inv, NEW t \in Threads, SetEqual(t)
  PROVE  Inv'
<1>1. In(t, "store") /\ stack[t] # <<>> /\ Pop(t)
  BY DEF SetEqual, In
<1>2. /\ UNCHANGED <<value, listeners, nextId, removed>> /\ writer' = Nobody
      /\ outcomes' = Append(outcomes, [old |-> value, new |-> value])
  BY DEF SetEqual
<1>3. FramesInv' /\ StackInv' /\ AddDistinct' /\ ListInv'
  BY <1>1, <1>2, PopAgain
<1>4. OnlyTop(t) /\ ~In(t, "store")'
  BY <1>1, PopMove
<1>5. WriterInv'
  BY <1>1, <1>2, <1>4, WriterLeaves
<1>6. value \in Values
  BY DEF Inv, TypeOK
<1>7. OneHistory' /\ outcomes' \in Seq([old : Values, new : Values])
  BY <1>2, <1>6, HistoryGoesOn
<1>8. TypeOK'
  BY <1>2, <1>4, <1>7 DEF Inv, TypeOK, OnlyTop, Frames
<1> QED
  BY <1>3, <1>5, <1>7, <1>8 DEF Inv

LEMMA SetStorePreserves ==
  ASSUME Inv, NEW t \in Threads, SetStore(t)
  PROVE  Inv'
<1>1. In(t, "store") /\ stack[t] # <<>> /\ Top(t) \in SetFrames /\ SetInv(Top(t)) /\ Top(t).pc = "store"
  BY TopSet DEF SetStore
<1>2. PICK f : f = [Top(t) EXCEPT !.pc = "snapshot", !.stayed = ToSet(listeners)]
  OBVIOUS
<1>3. ToSet(listeners) \in SUBSET Ids
  BY DEF Inv, TypeOK, ToSet
<1>4. f \in SetFrames /\ f \in Frames
  BY <1>1, <1>2, <1>3 DEF SetFrames, Frames
<1>5. OnlyTop(t) /\ stack'[t] # <<>> /\ Top(t)' = f
  BY <1>1, <1>2, <1>4, BecomeMove DEF SetStore
<1>6. UNCHANGED <<listeners, nextId, removed>> /\ writer' = Nobody
  BY DEF SetStore, BlockEnd
<1>7. /\ f.pc = "snapshot" /\ f.stayed = ToSet(listeners)
      /\ f.gone = Top(t).gone /\ f.called = Top(t).called
      /\ f.next = Top(t).next /\ f.snapshot = Top(t).snapshot
  BY <1>1, <1>2 DEF SetFrames
<1>8. FrameInv(f)'
  BY <1>1, <1>4, <1>6, <1>7 DEF FrameInv, SetInv
<1>9. FramesInv' /\ StackInv' /\ AddDistinct' /\ ListInv'
  BY <1>5, <1>6, <1>7, <1>8, Moves
<1>10. WriterInv'
  <2>1. ~In(t, "store")'
    BY <1>5, <1>7 DEF In
  <2> QED
    BY <1>1, <1>5, <1>6, <2>1, WriterLeaves
<1>11. OneHistory' /\ outcomes' \in Seq([old : Values, new : Values])
  <2>1. Top(t).old = value /\ Top(t).new \in Values
    BY <1>1 DEF Inv, WriterInv, SetFrames
  <2>2. value' = Top(t).new /\ outcomes' = Append(outcomes, [old |-> value, new |-> Top(t).new])
    BY <2>1 DEF SetStore
  <2> QED
    BY <2>1, <2>2, HistoryGoesOn
<1>12. TypeOK'
  <2>1. value' \in Values
    BY <1>1 DEF SetStore, SetFrames
  <2> QED
    BY <1>5, <1>6, <1>11, <2>1 DEF Inv, TypeOK, OnlyTop, Frames
<1> QED
  BY <1>9, <1>10, <1>11, <1>12 DEF Inv

\* A step of a call that changes nothing but its own frame.
LEMMA OwnStep ==
  ASSUME Inv, NEW t \in Threads, stack[t] # <<>>, ~In(t, "store"),
         NEW f \in SetFrames, f.pc # "store", SetInv(f), Become(t, f),
         UNCHANGED <<value, writer, listeners, nextId, outcomes, removed>>
  PROVE  Inv'
<1>1. f \in Frames /\ f.pc # "add"
  BY DEF Frames, SetFrames
<1>2. OnlyTop(t) /\ stack'[t] # <<>> /\ Top(t)' = f
  BY <1>1, BecomeMove
<1>3. FrameInv(f)
  BY <1>1 DEF FrameInv
<1>4. FrameInv(f)'
  BY <1>3, AccountsKept
<1>5. FramesInv' /\ StackInv' /\ AddDistinct' /\ ListInv'
  BY <1>1, <1>2, <1>4, Moves
<1>6. WriterInv'
  BY <1>2, WritersKept DEF In
<1>7. TypeOK' /\ OneHistory'
  BY <1>2 DEF Inv, TypeOK, OneHistory, OnlyTop, Frames
<1> QED
  BY <1>5, <1>6, <1>7 DEF Inv

LEMMA SnapshotPreserves ==
  ASSUME Inv, NEW t \in Threads, Snapshot(t)
  PROVE  Inv'
<1>1. stack[t] # <<>> /\ Top(t).pc = "snapshot" /\ Top(t) \in SetFrames /\ SetInv(Top(t))
  BY TopSet DEF Snapshot
<1>2. PICK f : f = [Top(t) EXCEPT !.pc = "call", !.snapshot = listeners]
  OBVIOUS
<1>3. f \in SetFrames
  BY <1>1, <1>2 DEF SetFrames, Inv, TypeOK
<1>4. /\ f.pc = "call" /\ f.snapshot = listeners
      /\ f.gone = Top(t).gone /\ f.stayed = Top(t).stayed
      /\ f.called = <<>> /\ f.next = 1
  BY <1>1, <1>2 DEF SetFrames, SetInv
<1>5. SetInv(f)
  <2>1. IsInjective(listeners) /\ ToSet(listeners) \cap f.gone = {}
    BY <1>1, <1>4 DEF Inv, ListInv, SetInv
  <2>2. Len(f.called) = 0 /\ Len(listeners) \in Nat
    BY <1>4 DEF Inv, TypeOK
  <2>3. f.gone \subseteq removed /\ f.stayed \subseteq ToSet(listeners)
    BY <1>1, <1>4 DEF SetInv
  <2> QED
    BY <1>4, <2>1, <2>2, <2>3 DEF SetInv
<1> QED
  BY <1>1, <1>2, <1>3, <1>4, <1>5, OwnStep DEF Snapshot, In

LEMMA CallPreserves ==
  ASSUME Inv, NEW t \in Threads, Call(t)
  PROVE  Inv'
<1>1. stack[t] # <<>> /\ Top(t).pc = "call" /\ Top(t) \in SetFrames /\ SetInv(Top(t))
  BY TopSet DEF Call
<1>2. PICK g : g = Top(t)
  OBVIOUS
<1>3. /\ g.snapshot \in Seq(Ids) /\ g.called \in Seq(Ids) /\ g.next \in Nat \ {0}
      /\ g.next <= Len(g.snapshot) /\ Len(g.called) = g.next - 1
      /\ \A i \in 1 .. Len(g.called) : g.called[i] = g.snapshot[i]
  BY <1>1, <1>2 DEF Call, Audience, SetFrames, SetInv
<1>4. PICK c : c = Append(g.called, g.snapshot[g.next])
  OBVIOUS
<1>5. g.snapshot[g.next] \in Ids /\ Len(g.snapshot) \in Nat
  BY <1>3
<1>6. /\ c \in Seq(Ids) /\ Len(c) = g.next
      /\ \A i \in 1 .. Len(c) : c[i] = g.snapshot[i]
  BY <1>3, <1>4, <1>5
<1>7. PICK f : f = [g EXCEPT !.pc = "inside", !.called = c]
  OBVIOUS
<1>8. f \in SetFrames
  BY <1>1, <1>2, <1>6, <1>7 DEF SetFrames
<1>9. /\ f.pc = "inside" /\ f.called = c /\ f.snapshot = g.snapshot /\ f.next = g.next
      /\ f.gone = g.gone /\ f.stayed = g.stayed
  BY <1>1, <1>2, <1>7 DEF SetFrames
<1>10. SetInv(f)
  <2>1. SetInv(g) /\ g.pc = "call"
    BY <1>1, <1>2
  <2> QED
    BY <1>3, <1>6, <1>9, <2>1 DEF SetInv
<1>11. Become(t, f)
  BY <1>2, <1>4, <1>7 DEF Call, Audience
<1> QED
  BY <1>1, <1>8, <1>9, <1>10, <1>11, OwnStep DEF Call, In

LEMMA CallEndPreserves ==
  ASSUME Inv, NEW t \in Threads, CallEnd(t)
  PROVE  Inv'
<1>1. stack[t] # <<>> /\ Top(t).pc = "inside" /\ Top(t) \in SetFrames /\ SetInv(Top(t))
  BY TopSet DEF CallEnd
<1>2. PICK f : f = [Top(t) EXCEPT !.pc = "call", !.next = @ + 1]
  OBVIOUS
<1>3. f \in SetFrames
  <2>1. Top(t).next \in Nat \ {0}
    BY <1>1 DEF SetFrames
  <2>2. Top(t).next + 1 \in Nat \ {0}
    BY <2>1
  <2> QED
    BY <1>1, <1>2, <2>2 DEF SetFrames
<1>4. /\ f.pc = "call" /\ f.next = Top(t).next + 1 /\ Top(t).next \in Nat
      /\ f.snapshot = Top(t).snapshot /\ f.called = Top(t).called
      /\ f.gone = Top(t).gone /\ f.stayed = Top(t).stayed
  BY <1>1, <1>2 DEF SetFrames
<1>5. SetInv(f)
  <2>1. Len(f.called) = f.next - 1
    BY <1>1, <1>4 DEF SetInv
  <2> QED
    BY <1>1, <1>4, <2>1 DEF SetInv
<1> QED
  BY <1>1, <1>2, <1>3, <1>4, <1>5, OwnStep DEF CallEnd, In

LEMMA SetReturnPreserves ==
  ASSUME Inv, NEW t \in Threads, SetReturn(t)
  PROVE  Inv'
<1>1. stack[t] # <<>> /\ Pop(t) /\ ~In(t, "store")
  BY DEF SetReturn, In
<1>2. UNCHANGED <<value, writer, listeners, nextId, outcomes, removed>>
  BY DEF SetReturn
<1>3. FramesInv' /\ StackInv' /\ AddDistinct' /\ ListInv'
  BY <1>1, <1>2, PopAgain
<1>4. OnlyTop(t) /\ ~In(t, "store")'
  BY <1>1, PopMove
<1>5. WriterInv'
  BY <1>1, <1>2, <1>4, WritersKept
<1>6. TypeOK' /\ OneHistory'
  BY <1>2, <1>4 DEF Inv, TypeOK, OneHistory, OnlyTop, Frames
<1> QED
  BY <1>3, <1>5, <1>6 DEF Inv

LEMMA AddBeginPreserves ==
  ASSUME Inv, NEW t \in Threads, AddBegin(t)
  PROVE  Inv'
<1>1. PICK f : f = [pc |-> "add", id |-> nextId]
  OBVIOUS
<1>2. nextId \in Nat /\ nextId \in Ids /\ nextId' = nextId + 1 /\ nextId' \in 1 .. MaxListeners + 1
  BY ConfigVarAssumption DEF AddBegin, Inv, TypeOK, Ids
<1>3. f \in AddFrames /\ f \in Frames /\ f.pc = "add" /\ f.id = nextId
  BY <1>1, <1>2 DEF AddFrames, Frames
<1>4. OnlyTop(t) /\ stack'[t] # <<>> /\ Top(t)' = f /\ \A pc : In(t, pc) => pc = "inside"
  BY <1>1, <1>3, PushMove DEF AddBegin
<1>5. UNCHANGED <<value, writer, listeners, outcomes, removed>>
  BY DEF AddBegin
<1>6. \A g : FrameInv(g) => FrameInv(g)'
  <2> TAKE g
  <2> HAVE FrameInv(g)
  <2>1. CASE g.pc = "add"
    <3>1. g \in Frames /\ g.id \in Nat /\ AddInv(g)
      BY <2>1, FrameKinds, ConfigVarAssumption DEF FrameInv, AddFrames, Ids
    <3>2. g.id < nextId'
      BY <1>2, <3>1 DEF AddInv
    <3> QED
      BY <1>5, <2>1, <3>1, <3>2 DEF FrameInv, AddInv
  <2>2. CASE g.pc # "add"
    BY <1>5, <2>2 DEF FrameInv, SetInv
  <2> QED
    BY <2>1, <2>2
<1>7. ASSUME NEW u \in Threads \ {t}, NEW n \in 1 .. Len(stack'[u])
      PROVE  FrameInv(stack[u][n])'
  <2>1. stack'[u] = stack[u]
    BY <1>4 DEF OnlyTop
  <2>2. PICK g : g = stack[u][n]
    OBVIOUS
  <2>3. FrameInv(g)
    BY <2>1, <2>2 DEF Inv, FramesInv
  <2>4. FrameInv(g)'
    BY <1>6, <2>3
  <2> QED
    BY <2>1, <2>2, <2>4
<1>8. FrameInv(f)'
  <2>1. nextId \notin ToSet(listeners) /\ nextId \notin removed
    BY <1>2 DEF Inv, ListInv
  <2>2. AddInv(f)'
    BY <1>2, <1>3, <1>5, <2>1 DEF AddInv
  <2> QED
    BY <1>3, <2>2 DEF FrameInv
<1>9. FramesInv' /\ StackInv'
  BY <1>4, <1>6, <1>7, <1>8, FramesAgain
<1>10. AddDistinct'
  <2>1. ASSUME NEW u \in Threads \ {t}, In(u, "add")'
        PROVE  In(u, "add") /\ Top(u)' = Top(u) /\ Top(u).id # nextId
    <3>1. In(u, "add") /\ Top(u)' = Top(u)
      BY <1>4, <2>1, StaysPut DEF OnlyTop
    <3>2. AddInv(Top(u))
      BY <3>1, TopFrame DEF In, FrameInv
    <3> QED
      BY <1>2, <3>1, <3>2 DEF AddInv
  <2> QED
    BY <1>3, <1>4, <2>1 DEF Inv, AddDistinct
<1>11. WriterInv'
  BY <1>3, <1>4, <1>5, WritersKept DEF In
<1>12. ListInv'
  <2>1. \A id \in ToSet(listeners) \cup removed : id \in Nat
    <3>1. ToSet(listeners) \subseteq Ids /\ removed \subseteq Ids
      BY DEF Inv, TypeOK, ToSet
    <3>2. Ids \subseteq Nat
      BY ConfigVarAssumption DEF Ids
    <3> QED
      BY <3>1, <3>2
  <2> QED
    BY <1>2, <1>5, <2>1 DEF Inv, ListInv
<1>13. TypeOK' /\ OneHistory'
  BY <1>2, <1>4, <1>5 DEF Inv, TypeOK, OneHistory, OnlyTop, Frames
<1> QED
  BY <1>9, <1>10, <1>11, <1>12, <1>13 DEF Inv

LEMMA AddEndPreserves ==
  ASSUME Inv, NEW t \in Threads, AddEnd(t)
  PROVE  Inv'
<1>1. PICK id : id = Top(t).id
  OBVIOUS
<1>2. /\ In(t, "add") /\ stack[t] # <<>> /\ Pop(t) /\ ~In(t, "store")
      /\ UNCHANGED <<value, writer, nextId, outcomes, removed>>
      /\ listeners' = Append(listeners, id)
  BY <1>1 DEF AddEnd, In
<1>3. id \in Ids /\ id < nextId /\ id \notin removed /\ id \notin ToSet(listeners)
  BY <1>1, <1>2, TopFrame, FrameKinds DEF In, FrameInv, AddInv, AddFrames
<1>4. /\ listeners' \in Seq(Ids) /\ IsInjective(listeners')
      /\ ToSet(listeners') = ToSet(listeners) \cup {id}
  <2>1. PICK s \in Seq(Ids) : s = listeners
    BY DEF Inv, TypeOK
  <2>2. PICK r : r = Append(s, id)
    OBVIOUS
  <2>3. /\ r \in Seq(Ids) /\ Len(r) = Len(s) + 1 /\ r[Len(s) + 1] = id
        /\ \A n \in 1 .. Len(s) : r[n] = s[n]
    BY <1>3, <2>2
  <2>4. DOMAIN s = 1 .. Len(s) /\ DOMAIN r = 1 .. Len(s) + 1 /\ Len(s) \in Nat
    BY <2>3
  <2>5. \A n \in 1 .. Len(s) : s[n] # id
    BY <1>3, <2>1, <2>4 DEF ToSet
  <2>6. \A m, n \in 1 .. Len(s) : s[m] = s[n] => m = n
    BY <2>1, <2>4 DEF Inv, ListInv, IsInjective
  <2>7. \A m, n \in 1 .. Len(s) + 1 : r[m] = r[n] => m = n
    <3>1. \A n \in 1 .. Len(s) + 1 : n \in 1 .. Len(s) \/ n = Len(s) + 1
      BY <2>4
    <3> QED
      BY <2>3, <2>5, <2>6, <3>1
  <2>8. ToSet(r) = ToSet(s) \cup {id}
    <3>1. \A x : x \in ToSet(r) => x \in ToSet(s) \cup {id}
      BY <2>3, <2>4 DEF ToSet
    <3>2. \A x : x \in ToSet(s) => x \in ToSet(r)
      BY <2>3, <2>4 DEF ToSet
    <3>3. id \in ToSet(r)
      BY <2>3, <2>4 DEF ToSet
    <3> QED
      BY <3>1, <3>2, <3>3
  <2>9. IsInjective(r)
    BY <2>4, <2>7 DEF IsInjective
  <2> QED
    BY <1>2, <2>1, <2>2, <2>3, <2>8, <2>9
<1>5. OnlyTop(t) /\ ~In(t, "store")' /\ ~In(t, "add")'
  BY <1>2, PopMove
<1>6. \A f : FrameInv(f) /\ (f.pc = "add" => f.id # id) => FrameInv(f)'
  <2> TAKE f
  <2> HAVE FrameInv(f) /\ (f.pc = "add" => f.id # id)
  <2>1. CASE f.pc = "add"
    BY <1>2, <1>4, <2>1 DEF FrameInv, AddInv
  <2>2. CASE f.pc # "add"
    BY <1>2, <1>4, <2>2 DEF FrameInv, SetInv
  <2> QED
    BY <2>1, <2>2
<1>7. ASSUME NEW u \in Threads \ {t}, NEW n \in 1 .. Len(stack'[u])
      PROVE  FrameInv(stack[u][n])'
  <2>1. stack'[u] = stack[u]
    BY <1>5 DEF OnlyTop
  <2>2. PICK f : f = stack[u][n]
    OBVIOUS
  <2>3. FrameInv(f)
    BY <2>1, <2>2 DEF Inv, FramesInv
  <2>4. f.pc = "add" => f.id # id
    <3>1. SUFFICES ASSUME f.pc = "add" PROVE f.id # id
      OBVIOUS
    <3>2. stack[u] \in Seq(Frames) /\ n \in 1 .. Len(stack[u])
      BY <2>1 DEF Inv, TypeOK, Frames
    <3>3. n = Len(stack[u]) /\ stack[u] # <<>>
      BY <2>2, <3>1, <3>2 DEF Inv, StackInv
    <3>4. Top(u) = f /\ In(u, "add")
      BY <2>2, <3>1, <3>3 DEF Top, Last, In
    <3> QED
      BY <1>1, <1>2, <3>4 DEF Inv, AddDistinct
  <2>5. FrameInv(f)'
    BY <1>6, <2>3, <2>4
  <2> QED
    BY <2>1, <2>2, <2>5
<1>8. stack'[t] # <<>> => FrameInv(Top(t))'
  <2>1. SUFFICES ASSUME stack'[t] # <<>> PROVE FrameInv(Top(t))'
    OBVIOUS
  <2>2. PICK n \in 1 .. Len(stack[t]) - 1 : Top(t)' = stack[t][n] /\ Top(t)'.pc = "inside"
    BY <1>2, <2>1, PopMove
  <2>3. n \in 1 .. Len(stack[t])
    BY <1>2, TopFrame
  <2>4. PICK f : f = stack[t][n]
    OBVIOUS
  <2>5. FrameInv(f) /\ f.pc = "inside"
    BY <2>2, <2>3, <2>4 DEF Inv, FramesInv
  <2>6. FrameInv(f)'
    BY <1>6, <2>5
  <2> QED
    BY <2>2, <2>4, <2>6
<1>9. FramesInv' /\ StackInv'
  BY <1>5, <1>6, <1>7, <1>8, FramesAgain
<1>10. AddDistinct'
  <2>1. \A u \in Threads \ {t} : Top(u)' = Top(u) /\ (In(u, "add")' <=> In(u, "add"))
    BY <1>5, StaysPut DEF OnlyTop
  <2> QED
    BY <1>5, <2>1 DEF Inv, AddDistinct
<1>11. WriterInv'
  BY <1>2, <1>5, WritersKept
<1>12. ListInv'
  BY <1>2, <1>3, <1>4 DEF Inv, ListInv
<1>13. TypeOK' /\ OneHistory'
  BY <1>2, <1>4, <1>5 DEF Inv, TypeOK, OneHistory, OnlyTop, Frames
<1> QED
  BY <1>9, <1>10, <1>11, <1>12, <1>13 DEF Inv

\* Listeners leave the list: nobody counts on them any more.
LEMMA LeavePreserves ==
  ASSUME Inv, NEW ids \in SUBSET ToSet(listeners), Leave(ids),
         listeners' \in Seq(Ids), IsInjective(listeners'),
         ToSet(listeners') = ToSet(listeners) \ ids,
         UNCHANGED <<value, writer, nextId, outcomes>>
  PROVE  Inv'
<1> DEFINE After(f) == IF f.pc = "add" THEN f ELSE [f EXCEPT !.stayed = @ \ ids]
<1>1. ToSet(listeners) \subseteq Ids /\ stack \in [Threads -> Seq(Frames)]
  BY DEF Inv, TypeOK, ToSet, Frames
<1>2. removed' = removed \cup ids /\ removed' \subseteq Ids
  BY <1>1 DEF Leave, Inv, TypeOK
<1>3. ASSUME NEW f, FrameInv(f)
      PROVE  /\ After(f) \in Frames /\ After(f).pc = f.pc /\ FrameInv(After(f))'
             /\ f.pc = "add" => After(f) = f
             /\ f.pc = "store" => After(f).old = f.old
  <2>1. CASE f.pc = "add"
    <3>1. After(f) = f /\ f \in Frames
      BY <1>3, <2>1 DEF FrameInv
    <3>2. FrameInv(f)'
      BY <1>2, <1>3, <2>1 DEF FrameInv, AddInv
    <3> QED
      BY <2>1, <3>1, <3>2
  <2>2. CASE f.pc # "add"
    <3>1. f \in SetFrames /\ SetInv(f)
      BY <1>3, <2>2, FrameKinds DEF FrameInv
    <3>2. PICK g : g = [f EXCEPT !.stayed = @ \ ids]
      OBVIOUS
    <3>3. g \in SetFrames /\ g \in Frames
      BY <3>1, <3>2 DEF SetFrames, Frames
    <3>4. /\ g.pc = f.pc /\ g.old = f.old /\ g.snapshot = f.snapshot /\ g.next = f.next
          /\ g.called = f.called /\ g.gone = f.gone /\ g.stayed = f.stayed \ ids
      BY <3>1, <3>2 DEF SetFrames
    <3>5. SetInv(g)'
      BY <1>2, <3>1, <3>4 DEF SetInv
    <3>6. FrameInv(g)'
      BY <2>2, <3>3, <3>4, <3>5 DEF FrameInv
    <3>7. After(f) = g
      BY <2>2, <3>2
    <3> QED
      BY <2>2, <3>3, <3>4, <3>6, <3>7
  <2> QED
    BY <2>1, <2>2
<1>4. ASSUME NEW u \in Threads
      PROVE  /\ stack'[u] \in Seq(Frames) /\ Len(stack'[u]) = Len(stack[u])
             /\ \A n \in 1 .. Len(stack[u]) :
                   stack'[u][n] = After(stack[u][n]) /\ FrameInv(stack[u][n])
  <2>1. PICK s \in Seq(Frames) : s = stack[u]
    BY <1>1
  <2>2. \A n \in 1 .. Len(s) : FrameInv(s[n])
    BY <2>1 DEF Inv, FramesInv
  <2>3. stack'[u] = [n \in 1 .. Len(s) |-> After(s[n])]
    BY <2>1 DEF Leave
  <2>4. \A n \in 1 .. Len(s) : After(s[n]) \in Frames
    BY <1>3, <2>2
  <2> HIDE DEF After
  <2>5. [n \in 1 .. Len(s) |-> After(s[n])] \in [1 .. Len(s) -> Frames]
    BY <2>4
  <2>6. Len(s) \in Nat
    OBVIOUS
  <2>7. stack'[u] \in Seq(Frames)
    BY <2>3, <2>5, <2>6, SeqDef
  <2>8. Len(stack'[u]) = Len(s)
    BY <2>3, <2>6, <2>7
  <2> QED
    BY <2>1, <2>2, <2>3, <2>7, <2>8
<1>5. stack' \in [Threads -> Seq(Frames)]
  <2>1. stack' = [u \in Threads |-> stack'[u]]
    BY DEF Leave
  <2> QED
    BY <1>4, <2>1
<1> HIDE DEF After
<1>6. FramesInv'
  <2>1. ASSUME NEW u \in Threads, NEW n \in 1 .. Len(stack'[u])
        PROVE  FrameInv(stack[u][n])'
    <3>1. n \in 1 .. Len(stack[u])
      BY <1>4
    <3>2. PICK f : f = stack[u][n]
      OBVIOUS
    <3>3. stack'[u][n] = After(f) /\ FrameInv(f)
      BY <1>4, <3>1, <3>2
    <3>4. PICK g : g = After(f)
      OBVIOUS
    <3>5. FrameInv(g)'
      BY <1>3, <3>3, <3>4
    <3> QED
      BY <3>3, <3>4, <3>5
  <2> QED
    BY <2>1 DEF FramesInv
<1>7. StackInv'
  <2>1. ASSUME NEW u \in Threads, NEW n \in 1 .. Len(stack'[u]) - 1
        PROVE  stack'[u][n].pc = "inside"
    <3>1. n \in 1 .. Len(stack[u]) - 1 /\ n \in 1 .. Len(stack[u])
      BY <1>1, <1>4
    <3>2. stack[u][n].pc = "inside"
      BY <3>1 DEF Inv, StackInv
    <3> QED
      BY <1>3, <1>4, <3>1, <3>2
  <2> QED
    BY <2>1 DEF StackInv
<1>8. ASSUME NEW u \in Threads
      PROVE  /\ stack'[u] = <<>> <=> stack[u] = <<>>
             /\ stack[u] # <<>> => Top(u)' = After(Top(u)) /\ FrameInv(Top(u))
  <2>1. stack[u] \in Seq(Frames) /\ stack'[u] \in Seq(Frames) /\ Len(stack'[u]) = Len(stack[u])
    BY <1>1, <1>4
  <2>2. stack'[u] = <<>> <=> stack[u] = <<>>
    BY <2>1
  <2>3. ASSUME stack[u] # <<>>
        PROVE  Top(u)' = After(Top(u)) /\ FrameInv(Top(u))
    <3>1. Len(stack[u]) \in 1 .. Len(stack[u])
      BY <2>1, <2>3
    <3>2. PICK k \in 1 .. Len(stack[u]) : k = Len(stack[u]) /\ k = Len(stack'[u])
      BY <2>1, <3>1
    <3>3. Top(u) = stack[u][k] /\ Top(u)' = stack'[u][k]
      BY <3>2 DEF Top, Last
    <3> QED
      BY <1>4, <3>3
  <2> QED
    BY <2>2, <2>3
<1>9. ASSUME NEW u \in Threads, stack[u] # <<>>
      PROVE  /\ Top(u)'.pc = Top(u).pc
             /\ Top(u).pc = "add" => Top(u)' = Top(u)
             /\ Top(u).pc = "store" => Top(u)'.old = Top(u).old
  <2>1. PICK f : f = Top(u)
    OBVIOUS
  <2>2. FrameInv(f) /\ Top(u)' = After(f)
    BY <1>8, <1>9, <2>1
  <2> QED
    BY <1>3, <2>1, <2>2
<1>10. AddDistinct'
  BY <1>8, <1>9 DEF Inv, AddDistinct, In
<1>11. WriterInv'
  BY <1>8, <1>9 DEF Inv, WriterInv, In
<1>12. ListInv'
  BY <1>2 DEF Inv, ListInv
<1>13. TypeOK' /\ OneHistory'
  BY <1>2, <1>5 DEF Inv, TypeOK, OneHistory, Frames
<1> QED
  BY <1>6, <1>7, <1>10, <1>11, <1>12, <1>13 DEF Inv

LEMMA RemoveListenerPreserves ==
  ASSUME Inv, NEW t \in Threads, NEW id \in Ids, RemoveListener(t, id)
  PROVE  Inv'
<1>1. listeners \in Seq(Ids) /\ IsInjective(listeners) /\ DOMAIN listeners = 1 .. Len(listeners)
  BY DEF Inv, TypeOK, ListInv
<1>2. PICK at : at = CHOOSE n \in DOMAIN listeners : listeners[n] = id
  OBVIOUS
<1>3. \E n \in DOMAIN listeners : listeners[n] = id
  BY DEF RemoveListener, ToSet
<1>4. at \in 1 .. Len(listeners) /\ listeners[at] = id
  BY <1>1, <1>2, <1>3
<1>5. listeners' = RemoveAt(listeners, at)
  BY <1>2 DEF RemoveListener, Without
<1>6. /\ listeners' \in Seq(Ids) /\ IsInjective(listeners')
      /\ ToSet(listeners') = ToSet(listeners) \ {id}
  BY <1>1, <1>4, <1>5, RemovingOne
<1>7. {id} \in SUBSET ToSet(listeners) /\ Leave({id}) /\ UNCHANGED <<value, writer, nextId, outcomes>>
  BY DEF RemoveListener
<1> QED
  BY <1>6, <1>7, LeavePreserves

LEMMA ClearListenersPreserves ==
  ASSUME Inv, NEW t \in Threads, ClearListeners(t)
  PROVE  Inv'
<1>1. PICK ids : ids = ToSet(listeners)
  OBVIOUS
<1>2. /\ listeners' \in Seq(Ids) /\ IsInjective(listeners')
      /\ ToSet(listeners') = ToSet(listeners) \ ids
  BY <1>1 DEF ClearListeners, IsInjective, ToSet
<1>3. ids \in SUBSET ToSet(listeners) /\ Leave(ids) /\ UNCHANGED <<value, writer, nextId, outcomes>>
  BY <1>1 DEF ClearListeners
<1> QED
  BY <1>2, <1>3, LeavePreserves

LEMMA NextPreserves == Inv /\ Next => Inv'
<1> SUFFICES ASSUME Inv, Next PROVE Inv'
  OBVIOUS
<1>1. PICK t \in Threads : SetSteps(t) \/ AddEnd(t) \/ UserSteps(t)
  BY DEF Next
<1>2. CASE SetSteps(t)
  BY <1>2, SetLockPreserves, SetEqualPreserves, SetStorePreserves, SnapshotPreserves,
     CallPreserves, CallEndPreserves, SetReturnPreserves DEF SetSteps
<1>3. CASE AddEnd(t)
  BY <1>3, AddEndPreserves
<1>4. CASE UserSteps(t)
  BY <1>4, SetBeginPreserves, AddBeginPreserves, RemoveListenerPreserves,
     ClearListenersPreserves DEF UserSteps
<1> QED
  BY <1>1, <1>2, <1>3, <1>4

LEMMA StutterPreserves == Inv /\ UNCHANGED vars => Inv'
<1> SUFFICES ASSUME Inv, UNCHANGED vars PROVE Inv'
  OBVIOUS
<1>1. TypeOK' /\ OneHistory' /\ ListInv'
  BY DEF Inv, TypeOK, OneHistory, ListInv, vars
<1>2. FramesInv'
  <2>1. \A f : FrameInv(f) => FrameInv(f)'
    BY AccountsKept DEF vars
  <2>2. stack' = stack
    BY DEF vars
  <2> QED
    BY <2>1, <2>2 DEF Inv, FramesInv
<1>3. StackInv' /\ AddDistinct' /\ WriterInv'
  BY DEF Inv, StackInv, AddDistinct, WriterInv, In, Top, vars
<1> QED
  BY <1>1, <1>2, <1>3 DEF Inv

-----------------------------------------------------------------------------
(* Theorems.                                                               *)

\* The invariant of the mutex, the list and the calls in progress.
THEOREM Invariance == Spec => []Inv
<1>1. Init => Inv
  BY InitEstablishes
<1>2. Inv /\ [Next]_vars => Inv'
  BY NextPreserves, StutterPreserves
<1> QED
  BY <1>1, <1>2, PTL DEF Spec

\* Every variable keeps its type.
THEOREM TypeCorrect == Spec => []TypeOK
<1>1. Inv => TypeOK
  BY DEF Inv
<1> QED
  BY <1>1, Invariance, PTL

\* The replacements are one chain from the default to the current value,
\* whoever writes at the same time.
THEOREM HistoryUnbroken == Spec => []OneHistory
<1>1. Inv => OneHistory
  BY DEF Inv
<1> QED
  BY <1>1, Invariance, PTL

\* A setValue that begins after a listener was removed does not call it.
THEOREM RemovedAreSilent == Spec => []RemovedStaysSilent
<1>1. ASSUME Inv, NEW t \in Threads, NEW n \in DOMAIN stack[t], stack[t][n].pc # "add"
      PROVE  ToSet(stack[t][n].called) \cap stack[t][n].gone = {}
  <2>1. PICK f : f = stack[t][n]
    OBVIOUS
  <2>2. n \in 1 .. Len(stack[t])
    BY <1>1 DEF Inv, TypeOK
  <2>3. FrameInv(f) /\ f.pc # "add"
    BY <1>1, <2>1, <2>2 DEF Inv, FramesInv
  <2>4. f \in SetFrames /\ SetInv(f)
    BY <2>3, FrameKinds DEF FrameInv
  <2>5. ToSet(f.called) \subseteq ToSet(f.snapshot)
    BY <2>4 DEF SetInv, SetFrames, ToSet
  <2> QED
    BY <2>1, <2>4, <2>5 DEF SetInv
<1>2. Inv => RemovedStaysSilent
  BY <1>1 DEF RemovedStaysSilent
<1> QED
  BY <1>2, Invariance, PTL

\* A setValue that returns has called everyone who stayed registered, once.
LEMMA ReturnTold ==
  ASSUME Inv, NEW t \in Threads, SetReturn(t)
  PROVE  Top(t).stayed \subseteq ToSet(Top(t).called) /\ IsInjective(Top(t).called)
<1>1. PICK f : f = Top(t)
  OBVIOUS
<1>2. f \in SetFrames /\ SetInv(f) /\ f.pc = "call" /\ f.next > Len(f.snapshot)
  BY <1>1, TopSet DEF SetReturn, Audience
<1>3. PICK s \in Seq(Ids) : s = f.snapshot
  BY <1>2 DEF SetFrames
<1>4. PICK c \in Seq(Ids) : c = f.called
  BY <1>2 DEF SetFrames
<1>5. Len(c) = Len(s) /\ \A i \in 1 .. Len(c) : c[i] = s[i]
  BY <1>2, <1>3, <1>4 DEF SetInv, SetFrames
<1>6. c = s
  BY <1>5, SeqEqual
<1> QED
  BY <1>1, <1>2, <1>3, <1>4, <1>6 DEF SetInv

\* Everyone who stays registered is told of every replacement exactly once,
\* through nested calls, exceptions and changes of the list.
THEOREM StayersTold == Spec => EveryoneTold
<1>1. Inv /\ [Next]_vars =>
         [\A t \in Threads : SetReturn(t) =>
             /\ Top(t).stayed \subseteq ToSet(Top(t).called)
             /\ IsInjective(Top(t).called)]_vars
  BY ReturnTold
<1> QED
  BY <1>1, Invariance, PTL DEF Spec, EveryoneTold
=============================================================================
