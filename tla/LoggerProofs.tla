---------------------------- MODULE LoggerProofs ----------------------------
(***************************************************************************)
(* What holds of Logger for any threads, loggers, appenders, levels and    *)
(* bounds.  The argument is an invariant of each call by itself, CallInv:  *)
(* where its loop stands in the list the loop holds, what each entry of    *)
(* that list has done with the record, and what is flushed; and of the     *)
(* output, that records are numbered and that FATAL leaves nothing behind. *)
(* A step moves the call of one thread, so most steps need only that call  *)
(* (QuietStep) or no call at all (AsideStep); the steps that write, flush  *)
(* and change a list are argued each by itself.                            *)
(***************************************************************************)
EXTENDS Logger, FiniteSetTheorems, SequenceTheorems, FunctionTheorems,
        WellFoundedInduction, TLAPS

-----------------------------------------------------------------------------
(* The order in which std::erase keeps the entries of a list.              *)

\* Every set of natural numbers but the empty one has a least element.
LEMMA Least ==
  ASSUME NEW T \in SUBSET Nat, T # {}
  PROVE  \E n \in T : \A m \in T : n <= m
<1>1. PICK n \in T : \A m \in T : ~ (<<m, n>> \in OpToRel(<, Nat))
  BY NatLessThanWellFounded, WFMin
<1>2. \A m \in T : ~ (m < n)
  BY <1>1 DEF OpToRel
<1> QED
  BY <1>2

\* The positions in a list are finite in number.
LEMMA FinitePositions ==
  ASSUME NEW n \in Nat, NEW set \in SUBSET (1 .. n)
  PROVE  IsFiniteSet(set) /\ Cardinality(set) \in Nat
<1>1. IsFiniteSet(1 .. n)
  BY FS_Interval
<1>2. IsFiniteSet(set)
  BY <1>1, FS_Subset
<1> QED
  BY <1>2, FS_CardinalityType

Increasing(f) == \A j, k \in DOMAIN f : j < k => f[j] < f[k]

Ordered(set) == \E f \in Bijection(1 .. Cardinality(set), set) : Increasing(f)

\* The positions that stay in a list can be put in order.
LEMMA OrderExists ==
  ASSUME NEW n \in Nat, NEW set \in SUBSET (1 .. n)
  PROVE  Ordered(set)
<1> DEFINE Bad == {m \in Nat : \E I \in SUBSET (1 .. m) : ~Ordered(I)}
<1>1. SUFFICES Bad = {}
  OBVIOUS
<1>2. SUFFICES ASSUME Bad # {}
               PROVE  FALSE
  OBVIOUS
<1>3. PICK m \in Bad : \A k \in Bad : m <= k
  BY <1>2, Least
<1>4. PICK I \in SUBSET (1 .. m) : ~Ordered(I)
  BY <1>3
<1>5. IsFiniteSet(I) /\ Cardinality(I) \in Nat
  BY <1>3, FinitePositions
<1>6. I # {}
  <2>1. SUFFICES ASSUME I = {}
                 PROVE  FALSE
    OBVIOUS
  <2>2. 1 .. Cardinality(I) = {}
    BY <2>1, FS_EmptySet
  <2>3. [x \in {} |-> x] \in Bijection(1 .. Cardinality(I), I)
    BY <2>1, <2>2 DEF Bijection, Injection, Surjection, IsInjective
  <2> QED
    BY <1>4, <2>3 DEF Ordered, Increasing
<1>7. m \in Nat /\ m - 1 \in Nat
  <2>1. m \in Nat
    BY <1>3
  <2>2. PICK i \in I : i \in 1 .. m
    BY <1>6
  <2> QED
    BY <2>1, <2>2
<1>8. m - 1 \notin Bad
  BY <1>3, <1>7
<1>9. \A part \in SUBSET (1 .. m - 1) : Ordered(part)
  BY <1>7, <1>8
<1>10. m \in I
  <2>1. SUFFICES ASSUME m \notin I
                 PROVE  I \in SUBSET (1 .. m - 1)
    BY <1>4, <1>9
  <2> QED
    BY <2>1, <1>4, <1>7
<1> DEFINE J == I \ {m}
           c == Cardinality(I)
<1>11. J \in SUBSET (1 .. m - 1)
  BY <1>4, <1>7
<1>12. Cardinality(J) = c - 1 /\ c - 1 \in Nat
  <2>1. Cardinality(J) = c - 1
    BY <1>5, <1>10, FS_RemoveElement
  <2>2. Cardinality(J) \in Nat
    BY <1>7, <1>11, FinitePositions
  <2> QED
    BY <2>1, <2>2
<1>13. PICK f \in Bijection(1 .. c - 1, J) : Increasing(f)
  BY <1>9, <1>11, <1>12 DEF Ordered
<1>14. /\ f \in [1 .. c - 1 -> J]
       /\ \A j, k \in 1 .. c - 1 : f[j] = f[k] => j = k
       /\ \A y \in J : \E k \in 1 .. c - 1 : f[k] = y
       /\ \A j, k \in 1 .. c - 1 : j < k => f[j] < f[k]
  BY <1>13 DEF Bijection, Injection, Surjection, IsInjective, Increasing
<1>15. c \in Nat /\ c >= 1
  BY <1>5, <1>12
<1>16. /\ \A y \in J : y \in I /\ y \in Nat /\ y < m
       /\ \A y \in I : y \in J \/ y = m
  BY <1>7, <1>11
<1> DEFINE g == [k \in 1 .. c |-> IF k = c THEN m ELSE f[k]]
<1> HIDE DEF c, J
<1>17. g \in [1 .. c -> I]
  BY <1>10, <1>14, <1>15, <1>16
<1>18. \A j, k \in 1 .. c : g[j] = g[k] => j = k
  BY <1>14, <1>15, <1>16
<1>19. \A y \in I : \E k \in 1 .. c : g[k] = y
  BY <1>14, <1>15, <1>16
<1>20. \A j, k \in 1 .. c : j < k => g[j] < g[k]
  BY <1>14, <1>15, <1>16
<1> HIDE DEF g
<1>21. g \in Bijection(1 .. c, I)
  BY <1>17, <1>18, <1>19 DEF Bijection, Injection, Surjection, IsInjective
<1>22. Increasing(g)
  BY <1>17, <1>20 DEF Increasing
<1> QED
  BY <1>4, <1>21, <1>22 DEF Ordered, c

\* Erasing an appender leaves a list of the other entries.
LEMMA ErasedList ==
  ASSUME NEW l \in AllLoggers, NEW a, appenders[l] \in Seq(Appenders)
  PROVE  /\ Erased(l, a) \in Seq(Appenders)
         /\ ToSet(Erased(l, a)) = ToSet(appenders[l]) \ {a}
<1> DEFINE s == appenders[l]
           kept == {i \in DOMAIN s : s[i] # a}
           c == Cardinality(kept)
<1>1. kept \in SUBSET (1 .. Len(s)) /\ Len(s) \in Nat
  OBVIOUS
<1>2. IsFiniteSet(kept) /\ c \in Nat
  BY <1>1, FinitePositions
<1>3. Ordered(kept)
  BY <1>1, OrderExists
<1>4. Order(kept) \in Bijection(1 .. c, kept)
  BY <1>3 DEF Order, Ordered, Increasing
<1> HIDE DEF kept
<1>5. /\ \A k \in 1 .. c : Order(kept)[k] \in kept
      /\ \A i \in kept : \E k \in 1 .. c : Order(kept)[k] = i
  BY <1>4 DEF Bijection, Injection, Surjection
<1>6. Erased(l, a) = [k \in 1 .. c |-> s[Order(kept)[k]]]
  BY DEF Erased, kept
<1>7. \A k \in 1 .. c : s[Order(kept)[k]] \in Appenders \ {a}
  <2>1. \A i \in kept : s[i] \in Appenders \ {a}
    BY DEF kept
  <2> QED
    BY <1>5, <2>1
<1>8. Erased(l, a) \in Seq(Appenders) /\ DOMAIN Erased(l, a) = 1 .. c
  BY <1>2, <1>6, <1>7
<1>9. ToSet(Erased(l, a)) = {s[i] : i \in kept}
  BY <1>5, <1>6, <1>8 DEF ToSet
<1>10. {s[i] : i \in kept} = ToSet(s) \ {a}
  BY DEF kept, ToSet
<1> QED
  BY <1>8, <1>9, <1>10

-----------------------------------------------------------------------------
(* Counting in sequences.                                                  *)

LEMMA TimesType ==
  ASSUME NEW S, NEW s \in Seq(S), NEW x
  PROVE  Times(x, s) \in Nat
<1>1. {i \in DOMAIN s : s[i] = x} \in SUBSET (1 .. Len(s)) /\ Len(s) \in Nat
  OBVIOUS
<1> QED
  BY <1>1, FinitePositions DEF Times

LEMMA TimesEmpty ==
  ASSUME NEW x
  PROVE  Times(x, <<>>) = 0
BY FS_EmptySet DEF Times

LEMMA TimesZero ==
  ASSUME NEW S, NEW s \in Seq(S), NEW x, \A i \in DOMAIN s : s[i] # x
  PROVE  Times(x, s) = 0
BY FS_EmptySet DEF Times

LEMMA TimesAppend ==
  ASSUME NEW S, NEW s \in Seq(S), NEW x, NEW e \in S
  PROVE  Times(x, Append(s, e)) = Times(x, s) + (IF e = x THEN 1 ELSE 0)
<1> DEFINE old == {i \in DOMAIN s : s[i] = x}
           new == {i \in DOMAIN Append(s, e) : Append(s, e)[i] = x}
<1>1. /\ Len(s) \in Nat
      /\ DOMAIN s = 1 .. Len(s)
      /\ DOMAIN Append(s, e) = 1 .. Len(s) + 1
      /\ \A i \in 1 .. Len(s) : Append(s, e)[i] = s[i]
      /\ Append(s, e)[Len(s) + 1] = e
  OBVIOUS
<1>2. new = IF e = x THEN old \cup {Len(s) + 1} ELSE old
  BY <1>1
<1>3. old \in SUBSET (1 .. Len(s)) /\ Len(s) + 1 \notin old
  BY <1>1
<1>4. IsFiniteSet(old) /\ Cardinality(old) \in Nat
  BY <1>1, <1>3, FinitePositions
<1>5. Times(x, s) = Cardinality(old) /\ Times(x, Append(s, e)) = Cardinality(new)
  BY DEF Times
<1>6. Cardinality(old \cup {Len(s) + 1}) = Cardinality(old) + 1
  BY <1>3, <1>4, FS_AddElement
<1> HIDE DEF old, new
<1> QED
  BY <1>2, <1>4, <1>5, <1>6

-----------------------------------------------------------------------------
(* The inductive invariant: what holds of each call c of a thread t, and   *)
(* two facts about what is written.                                        *)

Early   == {"ask", "has", "submit", "lock", "format"}
Writing == {"append", "write"}
Logging == Early \cup Writing
Sharing == {"format", "append", "write", "flush"}

\* The record a thread logs is its own, and its latest.
Recorded(t, c) ==
    c.pc \in Logging => /\ c.record \in Records
                        /\ c.record.thread = t
                        /\ c.record.number = count[t]

\* Before its loop a record is in no appender.
Fresh(c) ==
    /\ c.pc \in Early \cup {"enter"} => c.next = 1
    /\ c.pc \in Early => /\ c.refused = <<>>
                         /\ \A a \in Appenders : \A i \in DOMAIN written[a] :
                               written[a][i] # c.record

\* The loop stays in its list.
Placed(c) ==
    /\ c.pc \in {"append", "flush"} => c.next <= Len(c.list) + 1
    /\ c.pc = "write" => c.next <= Len(c.list)

\* In the loop: what WrittenExactly says at its end, of the entries before.
Served(c) ==
    c.pc \in Writing =>
        \A a \in Appenders :
            Times(c.record, written[a]) + Times(a, c.refused)
                = Times(a, SubSeq(c.list, 1, c.next - 1))

\* The appenders that stay are in the list of the logger that is asked.
Stays(c) ==
    /\ c.pc \in {"ask", "has", "enter", "flush"} => c.stay = {}
    /\ c.pc \in Logging /\ c.stay # {} =>
          c.logger = c.home /\ c.stay \subseteq ToSet(appenders[c.home])

\* What t wrote to a is where the flush has to bring it.
Safe(t, c, a) ==
    \A i \in DOMAIN written[a] : written[a][i].thread = t =>
        /\ flushed[a] >= i
        /\ c.sync /\ a \in Files => synced[a] >= i

\* In a loop that flushes: what OwnRecordsSafe says at its end, of the
\* entries before.
Saved(t, c) ==
    c.pc = "flush" => \A k \in 1 .. c.next - 1 : Safe(t, c, c.list[k])

\* LoopUndisturbed of one call, but for the mutexes it does not hold.
Undisturbed(t, c) ==
    c.pc \in Sharing => appenders[c.logger] = c.list /\ t \in sharing[c.logger]

Sound(t, c) ==
    Recorded(t, c) /\ Fresh(c) /\ Placed(c) /\ Served(c) /\ Stays(c) /\ Saved(t, c)

CallInv(t, c) == Sound(t, c) /\ Undisturbed(t, c)

\* What has been written was logged before.
NumberInv ==
    \A a \in Appenders : \A i \in DOMAIN written[a] :
        written[a][i].number <= count[written[a][i].thread]

\* Nothing leaves the process before it is written.
FlushedInv ==
    \A a \in Appenders : flushed[a] <= Len(written[a]) /\ synced[a] <= Len(written[a])

Inv == /\ TypeOK
       /\ \A t \in Threads : CallInv(t, call[t])
       /\ NumberInv /\ FlushedInv /\ FatalFlushed

-----------------------------------------------------------------------------
(* Steps of one thread that write nothing.                                 *)

\* A thread that does nothing has nothing to keep.
LEMMA IdleInv ==
  ASSUME NEW t
  PROVE  CallInv(t, Idle) /\ CallInv(t, Idle)'
BY DEF CallInv, Sound, Recorded, Fresh, Placed, Served, Stays, Saved, Undisturbed,
       Idle, Early, Writing, Logging, Sharing

\* A call that is at some point has all of its fields, and satisfies its part
\* of the invariant.
LEMMA CallKnown ==
  ASSUME Inv, NEW t \in Threads, call[t].pc # "idle"
  PROVE  call[t] \in Calls /\ Sound(t, call[t]) /\ Undisturbed(t, call[t])
BY DEF Inv, TypeOK, Idle, CallInv

\* A step that changes nothing a call speaks of leaves it sound.
LEMMA SoundKept ==
  ASSUME NEW t, NEW c, Sound(t, c),
         UNCHANGED <<appenders, output, count>>
  PROVE  Sound(t, c)'
BY DEF Sound, Recorded, Fresh, Placed, Served, Stays, Saved, Safe, output

\* If a thread takes up a call that satisfies the invariant, writes nothing
\* and leaves the shared locks of the others alone, Inv is preserved.
LEMMA QuietStep ==
  ASSUME Inv, NEW t \in Threads, NEW c,
         Become(t, c), UNCHANGED <<lists, levels, output, count>>,
         sharing' \in [AllLoggers -> SUBSET Threads],
         \A l \in AllLoggers, u \in Threads \ {t} : u \in sharing[l] => u \in sharing'[l],
         c = Idle \/ (c \in Calls /\ Sound(t, c) /\ Undisturbed(t, c)')
  PROVE  Inv'
<1>1. TypeOK'
  BY DEF Inv, TypeOK, Become, lists, levels, output
<1>2. (NumberInv /\ FlushedInv /\ FatalFlushed)'
  BY DEF Inv, NumberInv, FlushedInv, FatalFlushed, output
<1>3. ASSUME NEW u \in Threads
      PROVE  CallInv(u, call[u])'
  <2>1. CASE u = t
    <3>1. call'[u] = c
      BY <2>1 DEF Become, Inv, TypeOK
    <3>2. CallInv(t, c)'
      BY IdleInv, SoundKept DEF CallInv, lists
    <3> QED
      BY <2>1, <3>1, <3>2
  <2>2. CASE u # t
    <3>1. call'[u] = call[u] /\ CallInv(u, call[u])
      BY <2>2 DEF Become, Inv, TypeOK
    <3>2. PICK d : d = call[u]
      OBVIOUS
    <3>3. Sound(u, d)'
      BY <3>1, <3>2, SoundKept DEF CallInv, lists
    <3>4. Undisturbed(u, d)'
      <4>1. SUFFICES ASSUME d.pc \in Sharing
                     PROVE  /\ appenders[d.logger] = d.list
                            /\ u \in sharing'[d.logger]
        BY DEF Undisturbed, lists
      <4>2. d \in Calls
        BY <3>2, <4>1, CallKnown DEF Sharing
      <4> QED
        BY <4>1, <4>2, <3>1, <3>2, <2>2 DEF CallInv, Undisturbed, Calls
    <3> QED
      BY <3>1, <3>2, <3>3, <3>4 DEF CallInv
  <2> QED
    BY <2>1, <2>2
<1> QED
  BY <1>1, <1>2, <1>3 DEF Inv

\* What the model's small operators on loggers and lists give.
LEMMA Lists ==
  ASSUME Inv, NEW l \in AllLoggers
  PROVE  /\ appenders[l] \in Seq(Appenders)
         /\ ToSet(appenders[l]) \subseteq Appenders
         /\ Empty(l) => ToSet(appenders[l]) = {}
         /\ HasRoot(l) => RootOf(l) \in AllLoggers
<1>1. appenders[l] \in Seq(Appenders)
  BY DEF Inv, TypeOK
<1> QED
  BY <1>1 DEF ToSet, Empty, HasRoot, RootOf, AllLoggers

\* One entry more of a list.
LEMMA OneMore ==
  ASSUME NEW S, NEW s \in Seq(S), NEW n \in 1 .. Len(s)
  PROVE  SubSeq(s, 1, n - 1) \in Seq(S) /\ SubSeq(s, 1, n) = Append(SubSeq(s, 1, n - 1), s[n])
<1>1. SubSeq(s, 1, n - 1) \in Seq(S)
  OBVIOUS
<1> QED
  BY <1>1, SubSeqRecursiveSecond

\* The steps of a call, one lemma each: none disturbs Inv.
LEMMA AskLevelPreserves ==
  ASSUME Inv, NEW t \in Threads, AskLevel(t)
  PROVE  Inv'
<1> DEFINE o == call[t]
<1>1. o \in Calls /\ Sound(t, o) /\ o.pc = "ask"
  BY CallKnown DEF AskLevel, At
<1>2. PICK c : Become(t, c) /\ (c = Idle \/ c = [o EXCEPT !.pc = "has"])
  BY DEF AskLevel
<1>3. ASSUME c # Idle
      PROVE  c \in Calls /\ Sound(t, c) /\ Undisturbed(t, c)'
  BY <1>1, <1>2, <1>3
     DEF Calls, Sound, Recorded, Fresh, Placed, Served, Stays, Saved, Undisturbed,
         Early, Writing, Logging, Sharing
<1> QED
  BY <1>2, <1>3, QuietStep DEF AskLevel, Inv, TypeOK
LEMMA AskAppendersPreserves ==
  ASSUME Inv, NEW t \in Threads, AskAppenders(t)
  PROVE  Inv'
<1> DEFINE o == call[t]
<1>1. o \in Calls /\ Sound(t, o) /\ Undisturbed(t, o) /\ o.pc = "has"
  BY CallKnown DEF AskAppenders, At
<1>2. PICK c : Become(t, c) /\ 
        \/ c = Idle
        \/ c = [o EXCEPT !.pc = "submit", !.logger = o.home,
                         !.stay = ToSet(appenders[o.home])]
        \/ HasRoot(o.logger) /\ c = [o EXCEPT !.pc = "ask", !.logger = RootOf(o.logger)]
  BY DEF AskAppenders, LoggerAsked
<1>3. ASSUME c # Idle
      PROVE  c \in Calls /\ Sound(t, c) /\ Undisturbed(t, c)'
  <2>1. CASE c = [o EXCEPT !.pc = "submit", !.logger = o.home,
                           !.stay = ToSet(appenders[o.home])]
    <3>1. ToSet(appenders[o.home]) \subseteq Appenders
      BY <1>1, Lists DEF Calls
    <3>2. c \in Calls
      BY <1>1, <2>1, <3>1 DEF Calls
    <3> QED
      BY <1>1, <2>1, <3>2
         DEF Sound, Recorded, Fresh, Placed, Served, Stays, Saved, Undisturbed,
           Early, Writing, Logging, Sharing, Calls
  <2>2. CASE HasRoot(o.logger) /\ c = [o EXCEPT !.pc = "ask", !.logger = RootOf(o.logger)]
    <3>1. RootOf(o.logger) \in AllLoggers
      BY <1>1, <2>2, Lists DEF Calls
    <3>2. c \in Calls
      BY <1>1, <2>2, <3>1 DEF Calls
    <3> QED
      BY <1>1, <2>2, <3>2
         DEF Sound, Recorded, Fresh, Placed, Served, Stays, Saved, Undisturbed,
           Early, Writing, Logging, Sharing, Calls
  <2> QED
    BY <1>2, <1>3, <2>1, <2>2
<1> QED
  BY <1>2, <1>3, QuietStep DEF AskAppenders, Inv, TypeOK

LEMMA SubmitLevelPreserves ==
  ASSUME Inv, NEW t \in Threads, SubmitLevel(t)
  PROVE  Inv'
<1> DEFINE o == call[t]
<1>1. o \in Calls /\ Sound(t, o) /\ Undisturbed(t, o) /\ o.pc = "submit"
  BY CallKnown DEF SubmitLevel, At
<1>2. PICK c : Become(t, c) /\ (c = Idle \/ c = [o EXCEPT !.pc = "lock"])
  BY DEF SubmitLevel
<1>3. ASSUME c # Idle
      PROVE  c \in Calls /\ Sound(t, c) /\ Undisturbed(t, c)'
  BY <1>1, <1>2, <1>3
     DEF Calls, Sound, Recorded, Fresh, Placed, Served, Stays, Saved, Undisturbed,
         Early, Writing, Logging, Sharing
<1> QED
  BY <1>2, <1>3, QuietStep DEF SubmitLevel, Inv, TypeOK

LEMMA SubmitOwnPreserves ==
  ASSUME Inv, NEW t \in Threads, SubmitOwn(t)
  PROVE  Inv'
<1> DEFINE o == call[t]
<1>1. o \in Calls /\ Sound(t, o) /\ Undisturbed(t, o) /\ o.pc = "lock"
  BY CallKnown DEF SubmitOwn, At
<1>2. PICK c : Become(t, c) /\ c = [o EXCEPT !.pc = "format", !.list = appenders[o.logger]]
  BY DEF SubmitOwn
<1>3. ASSUME c # Idle
      PROVE  c \in Calls /\ Sound(t, c) /\ Undisturbed(t, c)'
  <2>1. appenders[o.logger] \in Seq(Appenders)
    BY <1>1, Lists DEF Calls
  <2>2. UNCHANGED appenders /\ t \in sharing'[o.logger]
    BY <1>1 DEF SubmitOwn, Share, lists, Inv, TypeOK, Calls
  <2> QED
    BY <1>1, <1>2, <1>3, <2>1, <2>2
       DEF Calls, Sound, Recorded, Fresh, Placed, Served, Stays, Saved, Undisturbed,
           Early, Writing, Logging, Sharing
<1> QED
  BY <1>2, <1>3, QuietStep DEF SubmitOwn, Inv, TypeOK, Share, Unshare

LEMMA SubmitRootPreserves ==
  ASSUME Inv, NEW t \in Threads, SubmitRoot(t)
  PROVE  Inv'
<1> DEFINE o == call[t]
<1>1. o \in Calls /\ Sound(t, o) /\ Undisturbed(t, o) /\ o.pc = "lock"
  BY CallKnown DEF SubmitRoot, At
<1>2. PICK c : Become(t, c) /\ Empty(o.logger) /\
        \/ c = Idle
        \/ HasRoot(o.logger) /\ c = [o EXCEPT !.pc = "submit", !.logger = RootOf(o.logger)]
  BY DEF SubmitRoot
<1>3. ASSUME c # Idle
      PROVE  c \in Calls /\ Sound(t, c) /\ Undisturbed(t, c)'
  <2>1. /\ RootOf(o.logger) \in AllLoggers
        /\ ToSet(appenders[o.logger]) = {}
    BY <1>1, <1>2, <1>3, Lists DEF Calls
  <2>2. c = [o EXCEPT !.pc = "submit", !.logger = RootOf(o.logger)] /\ c \in Calls
    BY <1>1, <1>2, <1>3, <2>1 DEF Calls
  <2>3. o.stay = {}
    BY <1>1, <2>1 DEF Sound, Stays, Logging, Early
  <2> QED
    BY <1>1, <2>2, <2>3
       DEF Sound, Recorded, Fresh, Placed, Served, Stays, Saved, Undisturbed,
         Early, Writing, Logging, Sharing, Calls
<1> QED
  BY <1>2, <1>3, QuietStep DEF SubmitRoot, Inv, TypeOK

LEMMA FormatThrowsPreserves ==
  ASSUME Inv, NEW t \in Threads, FormatThrows(t)
  PROVE  Inv'
<1> DEFINE o == call[t]
<1>1. o \in Calls /\ Sound(t, o) /\ Undisturbed(t, o) /\ o.pc = "format"
  BY CallKnown DEF FormatThrows, At
<1>2. PICK c : Become(t, c) /\ c = Idle
  BY DEF FormatThrows
<1>3. ASSUME c # Idle
      PROVE  c \in Calls /\ Sound(t, c) /\ Undisturbed(t, c)'
  BY <1>1, <1>2, <1>3
     DEF Calls, Sound, Recorded, Fresh, Placed, Served, Stays, Saved, Undisturbed,
         Early, Writing, Logging, Sharing
<1> QED
  BY <1>2, <1>3, QuietStep DEF FormatThrows, Inv, TypeOK, Share, Unshare

LEMMA SubmitEndPreserves ==
  ASSUME Inv, NEW t \in Threads, SubmitEnd(t)
  PROVE  Inv'
<1> DEFINE o == call[t]
<1>1. o \in Calls /\ Sound(t, o) /\ Undisturbed(t, o) /\ o.pc = "append"
  BY CallKnown DEF SubmitEnd, At
<1>2. PICK c : Become(t, c) /\ c = Idle
  BY DEF SubmitEnd, AfterLoop
<1>3. ASSUME c # Idle
      PROVE  c \in Calls /\ Sound(t, c) /\ Undisturbed(t, c)'
  BY <1>1, <1>2, <1>3
     DEF Calls, Sound, Recorded, Fresh, Placed, Served, Stays, Saved, Undisturbed,
         Early, Writing, Logging, Sharing
<1> QED
  BY <1>2, <1>3, QuietStep DEF SubmitEnd, Inv, TypeOK, Share, Unshare

LEMMA FlushOwnPreserves ==
  ASSUME Inv, NEW t \in Threads, FlushOwn(t)
  PROVE  Inv'
<1> DEFINE o == call[t]
<1>1. o \in Calls /\ Sound(t, o) /\ Undisturbed(t, o) /\ o.pc = "enter"
  BY CallKnown DEF FlushOwn, At
<1>2. PICK c : Become(t, c) /\ c = [o EXCEPT !.pc = "flush", !.list = appenders[o.logger]]
  BY DEF FlushOwn
<1>3. ASSUME c # Idle
      PROVE  c \in Calls /\ Sound(t, c) /\ Undisturbed(t, c)'
  <2>1. appenders[o.logger] \in Seq(Appenders)
    BY <1>1, Lists DEF Calls
  <2>2. UNCHANGED appenders /\ t \in sharing'[o.logger]
    BY <1>1 DEF FlushOwn, Share, lists, Inv, TypeOK, Calls
  <2>3. c \in Calls
    BY <1>1, <1>2, <2>1 DEF Calls
  <2>4. /\ c.pc = "flush" /\ c.stay = {} /\ c.next = 1
        /\ c.list = appenders[c.logger] /\ c.logger = o.logger
    BY <1>1, <1>2 DEF Calls, Sound, Fresh, Stays
  <2>5. Len(c.list) \in Nat
    BY <2>1, <2>4
  <2>6. Sound(t, c)
    BY <2>4, <2>5
       DEF Sound, Recorded, Fresh, Placed, Served, Stays, Saved, Early, Writing, Logging
  <2>7. Undisturbed(t, c)'
    BY <2>2, <2>4 DEF Undisturbed
  <2> QED
    BY <2>3, <2>6, <2>7
<1> QED
  BY <1>2, <1>3, QuietStep DEF FlushOwn, Inv, TypeOK, Share, Unshare

LEMMA FlushRootPreserves ==
  ASSUME Inv, NEW t \in Threads, FlushRoot(t)
  PROVE  Inv'
<1> DEFINE o == call[t]
<1>1. o \in Calls /\ Sound(t, o) /\ Undisturbed(t, o) /\ o.pc = "enter"
  BY CallKnown DEF FlushRoot, At
<1>2. PICK c : Become(t, c) /\ 
        \/ c = Idle
        \/ HasRoot(o.logger) /\ c = [o EXCEPT !.logger = RootOf(o.logger)]
  BY DEF FlushRoot
<1>3. ASSUME c # Idle
      PROVE  c \in Calls /\ Sound(t, c) /\ Undisturbed(t, c)'
  <2>1. RootOf(o.logger) \in AllLoggers
    BY <1>1, <1>2, <1>3, Lists DEF Calls
  <2>2. c = [o EXCEPT !.logger = RootOf(o.logger)] /\ c \in Calls
    BY <1>1, <1>2, <1>3, <2>1 DEF Calls
  <2>3. c.pc = "enter" /\ c.next = 1 /\ c.stay = {}
    BY <1>1, <2>2 DEF Calls, Sound, Fresh, Stays
  <2>4. Sound(t, c)
    BY <2>3 DEF Sound, Recorded, Fresh, Placed, Served, Stays, Saved, Early, Writing, Logging
  <2>5. Undisturbed(t, c)'
    BY <2>3 DEF Undisturbed, Sharing
  <2> QED
    BY <2>2, <2>4, <2>5
<1> QED
  BY <1>2, <1>3, QuietStep DEF FlushRoot, Inv, TypeOK

LEMMA FlushEndPreserves ==
  ASSUME Inv, NEW t \in Threads, FlushEnd(t)
  PROVE  Inv'
<1> DEFINE o == call[t]
<1>1. o \in Calls /\ Sound(t, o) /\ Undisturbed(t, o) /\ o.pc = "flush"
  BY CallKnown DEF FlushEnd, At
<1>2. PICK c : Become(t, c) /\ c = Idle
  BY DEF FlushEnd
<1>3. ASSUME c # Idle
      PROVE  c \in Calls /\ Sound(t, c) /\ Undisturbed(t, c)'
  BY <1>1, <1>2, <1>3
     DEF Calls, Sound, Recorded, Fresh, Placed, Served, Stays, Saved, Undisturbed,
         Early, Writing, Logging, Sharing
<1> QED
  BY <1>2, <1>3, QuietStep DEF FlushEnd, Inv, TypeOK, Share, Unshare

LEMMA FormatPreserves ==
  ASSUME Inv, NEW t \in Threads, Format(t)
  PROVE  Inv'
<1> DEFINE o == call[t]
<1>1. o \in Calls /\ Sound(t, o) /\ Undisturbed(t, o) /\ o.pc = "format"
  BY CallKnown DEF Format, At
<1>2. PICK c : Become(t, c) /\ c = [o EXCEPT !.pc = "append"]
  BY DEF Format
<1>3. ASSUME c # Idle
      PROVE  c \in Calls /\ Sound(t, c) /\ Undisturbed(t, c)'
  <2>1. o.list \in Seq(Appenders) /\ SubSeq(o.list, 1, 0) = <<>>
    BY <1>1 DEF Calls
  <2>2. \A a : Times(a, <<>>) = 0
    BY TimesEmpty
  <2>3. \A a \in Appenders : Times(o.record, written[a]) = 0
    BY <1>1, TimesZero DEF Inv, TypeOK, Sound, Fresh, Early
  <2>4. o.next = 1 /\ o.refused = <<>>
    BY <1>1 DEF Sound, Fresh, Early
  <2>5. Served(c)
    <3>1. c.next - 1 = 0 /\ c.list = o.list /\ c.refused = <<>> /\ c.record = o.record
      BY <1>1, <1>2, <2>4 DEF Calls
    <3>2. SubSeq(c.list, 1, c.next - 1) = <<>>
      BY <2>1, <3>1
    <3>3. \A a \in Appenders :
             Times(c.record, written[a]) + Times(a, c.refused)
               = Times(a, SubSeq(c.list, 1, c.next - 1))
      <4> SUFFICES ASSUME NEW a \in Appenders
                   PROVE  Times(c.record, written[a]) + Times(a, c.refused)
                            = Times(a, SubSeq(c.list, 1, c.next - 1))
        OBVIOUS
      <4>1. Times(c.record, written[a]) = 0
        BY <2>3, <3>1
      <4>2. Times(a, c.refused) = 0
        BY <2>2, <2>4, <3>1
      <4>3. Times(a, SubSeq(c.list, 1, c.next - 1)) = 0
        BY <2>2, <3>2
      <4> QED
        BY <4>1, <4>2, <4>3
    <3> QED
      BY <3>3 DEF Served
  <2>6. UNCHANGED <<appenders, sharing>>
    BY DEF Format, lists
  <2> QED
    BY <1>1, <1>2, <1>3, <2>1, <2>4, <2>5, <2>6
       DEF Calls, Sound, Recorded, Fresh, Placed, Stays, Saved, Undisturbed,
           Early, Writing, Logging, Sharing
<1> QED
  BY <1>2, <1>3, QuietStep DEF Format, Inv, TypeOK

LEMMA AppendLevelPreserves ==
  ASSUME Inv, NEW t \in Threads, AppendLevel(t)
  PROVE  Inv'
<1> DEFINE o == call[t]
<1>1. o \in Calls /\ Sound(t, o) /\ Undisturbed(t, o) /\ o.pc = "append"
  BY CallKnown DEF AppendLevel, At
<1>2. PICK c : Become(t, c) /\ 
        \/ c = [o EXCEPT !.pc = "write"]
        \/ c = [o EXCEPT !.next = @ + 1, !.refused = Append(@, Current(t))]
  BY DEF AppendLevel
<1>3. ASSUME c # Idle
      PROVE  c \in Calls /\ Sound(t, c) /\ Undisturbed(t, c)'
  <2>1. /\ o.list \in Seq(Appenders)
        /\ appenders[o.logger] = o.list
        /\ o.next \in 1 .. Len(o.list)
        /\ Current(t) = o.list[o.next]
        /\ UNCHANGED <<appenders, sharing>>
    BY <1>1 DEF Calls, Undisturbed, Sharing, AppendLevel, Looping, Current, lists
  <2>2. SubSeq(o.list, 1, o.next - 1) \in Seq(Appenders)
        /\ SubSeq(o.list, 1, o.next) = Append(SubSeq(o.list, 1, o.next - 1), Current(t))
    BY <2>1, OneMore
  <2>3. \A a : Times(a, SubSeq(o.list, 1, o.next))
                 = Times(a, SubSeq(o.list, 1, o.next - 1)) + (IF Current(t) = a THEN 1 ELSE 0)
    <3> SUFFICES ASSUME NEW a
                 PROVE  Times(a, SubSeq(o.list, 1, o.next))
                          = Times(a, SubSeq(o.list, 1, o.next - 1))
                            + (IF Current(t) = a THEN 1 ELSE 0)
      OBVIOUS
    <3>1. Current(t) \in Appenders
      BY <2>1
    <3>2. PICK before : before = SubSeq(o.list, 1, o.next - 1)
      OBVIOUS
    <3>3. PICK current : current = Current(t)
      OBVIOUS
    <3>4. before \in Seq(Appenders) /\ current \in Appenders
      BY <2>2, <3>1, <3>2, <3>3
    <3>5. Times(a, Append(before, current)) = Times(a, before) + (IF current = a THEN 1 ELSE 0)
      BY <3>4, TimesAppend
    <3> QED
      BY <2>2, <3>2, <3>3, <3>5
  <2>4. \A a : Times(a, Append(o.refused, Current(t)))
                 = Times(a, o.refused) + (IF Current(t) = a THEN 1 ELSE 0)
    BY <1>1, <2>1, TimesAppend DEF Calls
  <2>5. \A a \in Appenders : /\ Times(o.record, written[a]) \in Nat
                             /\ Times(a, o.refused) \in Nat
                             /\ Times(a, SubSeq(o.list, 1, o.next - 1)) \in Nat
    BY <1>1, <2>2, TimesType DEF Calls, Inv, TypeOK
  <2>6. Served(c)
    <3>1. CASE c = [o EXCEPT !.pc = "write"]
      BY <1>1, <3>1 DEF Sound, Served, Writing, Calls
    <3>2. CASE c = [o EXCEPT !.next = @ + 1, !.refused = Append(@, Current(t))]
      <4>1. /\ c.next - 1 = o.next
            /\ c.list = o.list
            /\ c.record = o.record
            /\ c.refused = Append(o.refused, Current(t))
        BY <1>1, <2>1, <3>2 DEF Calls
      <4>2. \A a \in Appenders :
               Times(o.record, written[a]) + Times(a, o.refused)
                 = Times(a, SubSeq(o.list, 1, o.next - 1))
        BY <1>1 DEF Sound, Served, Writing
      <4>3. \A a \in Appenders :
               Times(o.record, written[a]) + Times(a, Append(o.refused, Current(t)))
                 = Times(a, SubSeq(o.list, 1, o.next))
        BY <2>3, <2>4, <2>5, <4>2
      <4> QED
        BY <4>1, <4>3 DEF Served
    <3> QED
      BY <1>2, <3>1, <3>2
  <2>7. c \in Calls
    <3>1. Append(o.refused, Current(t)) \in Seq(Appenders)
      <4>1. Current(t) \in Appenders
        BY <2>1
      <4> QED
        BY <1>1, <4>1 DEF Calls
    <3> QED
      <4>1. CASE c = [o EXCEPT !.pc = "write"]
        BY <1>1, <4>1 DEF Calls
      <4>2. CASE c = [o EXCEPT !.next = @ + 1, !.refused = Append(@, Current(t))]
        <5>1. o.next + 1 \in Nat \ {0}
          BY <1>1 DEF Calls
        <5> QED
          BY <1>1, <3>1, <4>2, <5>1 DEF Calls
      <4> QED
        BY <1>2, <4>1, <4>2
  <2>8. /\ c.pc \in Writing
        /\ c.record = o.record /\ c.list = o.list /\ c.stay = o.stay
        /\ c.logger = o.logger /\ c.home = o.home
        /\ c.pc = "append" => c.next = o.next + 1
        /\ c.pc = "write" => c.next = o.next
    BY <1>1, <1>2 DEF Calls, Writing
  <2>9. Recorded(t, c) /\ Fresh(c) /\ Placed(c) /\ Stays(c) /\ Saved(t, c)
    BY <1>1, <2>1, <2>8
       DEF Sound, Recorded, Fresh, Placed, Stays, Saved, Early, Writing, Logging
  <2>10. Undisturbed(t, c)'
    BY <1>1, <2>1, <2>8 DEF Undisturbed, Sharing, Writing
  <2> QED
    BY <2>6, <2>7, <2>9, <2>10 DEF Sound
<1> QED
  BY <1>2, <1>3, QuietStep DEF AppendLevel, Inv, TypeOK

LEMMA FlushBeginPreserves ==
  ASSUME Inv, NEW t \in Threads, NEW l \in AllLoggers, NEW sync \in BOOLEAN,
         FlushBegin(t, l, sync)
  PROVE  Inv'
<1>1. PICK c : /\ Become(t, c)
               /\ c = [pc |-> "enter", home |-> l, logger |-> l, next |-> 1,
                       record |-> Nothing, sync |-> sync,
                       stay |-> {}, list |-> <<>>, refused |-> <<>>]
  BY DEF FlushBegin
<1>2. c \in Calls
  BY <1>1 DEF Calls
<1>3. Sound(t, c) /\ Undisturbed(t, c)'
  BY <1>1 DEF Sound, Recorded, Fresh, Placed, Served, Stays, Saved, Undisturbed,
              Early, Writing, Logging, Sharing
<1> QED
  BY <1>1, <1>2, <1>3, QuietStep DEF FlushBegin, Inv, TypeOK

-----------------------------------------------------------------------------
(* A new record.                                                           *)

LEMMA LogBeginPreserves ==
  ASSUME Inv, NEW t \in Threads, NEW l \in AllLoggers, NEW lv \in Levels,
         LogBegin(t, l, lv)
  PROVE  Inv'
<1> DEFINE r == [thread |-> t, number |-> count[t] + 1, level |-> lv]
           c == [pc |-> "ask", home |-> l, logger |-> l, next |-> 1,
                 record |-> r, sync |-> FALSE,
                 stay |-> {}, list |-> <<>>, refused |-> <<>>]
<1>1. /\ call' = [call EXCEPT ![t] = c]
      /\ count' = [count EXCEPT ![t] = @ + 1]
      /\ count[t] \in 0 .. MaxRecords /\ count[t] < MaxRecords
      /\ UNCHANGED <<lists, levels, output, sharing>>
  BY DEF LogBegin, Become, Inv, TypeOK
<1>2. r \in Records /\ r.thread = t /\ r.number = count'[t]
  BY <1>1, LoggerAssumption DEF Records, Inv, TypeOK
<1>3. c \in Calls
  BY <1>2 DEF Calls
<1>4. TypeOK'
  BY <1>1, <1>3, LoggerAssumption DEF Inv, TypeOK, lists, levels, output
<1>5. \A u \in Threads : count[u] \in Nat /\ count'[u] \in Nat /\ count[u] <= count'[u]
  BY <1>1, LoggerAssumption DEF Inv, TypeOK
<1>6. \A a \in Appenders : \A i \in DOMAIN written[a] : written[a][i] \in Records
  BY DEF Inv, TypeOK
<1>7. \A r1 \in Records : r1.thread \in Threads /\ r1.number \in Nat
  BY DEF Records
<1>8. NumberInv'
  BY <1>1, <1>5, <1>6, <1>7 DEF Inv, NumberInv, output
<1>9. (FlushedInv /\ FatalFlushed)'
  BY <1>1 DEF Inv, FlushedInv, FatalFlushed, output
<1>10. ASSUME NEW u \in Threads
       PROVE  CallInv(u, call[u])'
  <2>1. CASE u = t
    <3>1. \A a \in Appenders : \A i \in DOMAIN written[a] : written[a][i] # r
      BY <1>1, <1>6, <1>7 DEF Inv, NumberInv
    <3>2. call'[u] = c
      BY <1>1, <2>1 DEF Inv, TypeOK
    <3>3. PICK d : d = c
      OBVIOUS
    <3>4. CallInv(u, d)'
      BY <1>1, <1>2, <2>1, <3>1, <3>3
         DEF CallInv, Sound, Recorded, Fresh, Placed, Served, Stays, Saved, Undisturbed,
             Early, Writing, Logging, Sharing, output
    <3> QED
      BY <3>2, <3>3, <3>4
  <2>2. CASE u # t
    <3>1. call'[u] = call[u] /\ CallInv(u, call[u]) /\ count'[u] = count[u]
      BY <1>1, <2>2 DEF Inv, TypeOK
    <3>2. PICK d : d = call[u]
      OBVIOUS
    <3>3. CallInv(u, d)'
      BY <1>1, <3>1, <3>2
         DEF CallInv, Sound, Recorded, Fresh, Placed, Served, Stays, Saved, Safe,
             Undisturbed, lists, output
    <3> QED
      BY <3>1, <3>2, <3>3
  <2> QED
    BY <2>1, <2>2
<1> QED
  BY <1>4, <1>8, <1>9, <1>10 DEF Inv

-----------------------------------------------------------------------------
(* Steps that flush.                                                       *)

\* More has been flushed and synced than before, and no more than is written.
Rises(older, newer) ==
    /\ newer \in [Appenders -> Nat]
    /\ \A a \in Appenders : older[a] <= newer[a] /\ newer[a] <= Len(written[a])

\* Then what does not concern the lists still holds of every call.
LEMMA BasicWhenFlushed ==
  ASSUME Inv, NEW u \in Threads, NEW d \in {Idle} \cup Calls, Sound(u, d),
         UNCHANGED <<written, count>>,
         Rises(flushed, flushed'), Rises(synced, synced')
  PROVE  (Recorded(u, d) /\ Fresh(d) /\ Placed(d) /\ Served(d) /\ Saved(u, d))'
<1>1. (Recorded(u, d) /\ Fresh(d) /\ Placed(d) /\ Served(d))'
  BY DEF Sound, Recorded, Fresh, Placed, Served
<1>2. ASSUME d.pc = "flush", NEW k \in 1 .. d.next - 1
      PROVE  Safe(u, d, d.list[k])'
  <2>1. d \in Calls
    BY <1>2 DEF Idle
  <2>2. PICK a \in Appenders : a = d.list[k]
    BY <1>2, <2>1 DEF Sound, Placed, Calls
  <2>3. Safe(u, d, a)
    BY <1>2, <2>2 DEF Sound, Saved
  <2>4. /\ flushed[a] \in Nat /\ flushed'[a] \in Nat /\ flushed[a] <= flushed'[a]
        /\ synced[a] \in Nat /\ synced'[a] \in Nat /\ synced[a] <= synced'[a]
        /\ DOMAIN written[a] \subseteq Nat
    <3>1. a \in Appenders
      BY <2>2
    <3> QED
      BY <3>1 DEF Rises, Inv, TypeOK
  <2> QED
    BY <2>2, <2>3, <2>4 DEF Safe
<1>3. Saved(u, d)'
  BY <1>2 DEF Saved
<1> QED
  BY <1>1, <1>3

LEMMA SoundWhenFlushed ==
  ASSUME Inv, NEW u \in Threads, NEW d \in {Idle} \cup Calls, Sound(u, d),
         UNCHANGED <<appenders, written, count>>,
         Rises(flushed, flushed'), Rises(synced, synced')
  PROVE  Sound(u, d)'
<1>1. Stays(d)'
  BY DEF Sound, Stays
<1> QED
  BY <1>1, BasicWhenFlushed DEF Sound

LEMMA OutputWhenFlushed ==
  ASSUME Inv, UNCHANGED <<written, count>>,
         Rises(flushed, flushed'), Rises(synced, synced')
  PROVE  (NumberInv /\ FlushedInv /\ FatalFlushed)'
<1>1. \A a \in Appenders : /\ flushed[a] \in Nat /\ flushed'[a] \in Nat
                           /\ DOMAIN written[a] \subseteq Nat
  BY DEF Rises, Inv, TypeOK
<1> QED
  BY <1>1 DEF Inv, NumberInv, FlushedInv, FatalFlushed, Rises

LEMMA FlushRises ==
  ASSUME Inv, NEW a \in Appenders, NEW sync \in BOOLEAN, Flush(a, sync)
  PROVE  Rises(flushed, flushed') /\ Rises(synced, synced') /\ UNCHANGED written
<1>1. \A b \in Appenders : Len(written[b]) \in Nat /\ flushed[b] \in Nat /\ synced[b] \in Nat
  BY DEF Inv, TypeOK
<1> QED
  BY <1>1 DEF Flush, Rises, Inv, TypeOK, FlushedInv

LEMMA ClosesRises ==
  ASSUME Inv, Closes
  PROVE  Rises(flushed, flushed') /\ Rises(synced, synced') /\ UNCHANGED written
<1>1. \A b \in Appenders : Len(written[b]) \in Nat /\ flushed[b] \in Nat /\ synced[b] \in Nat
  BY DEF Inv, TypeOK
<1> QED
  BY <1>1 DEF Closes, Rises, Inv, TypeOK, FlushedInv

\* A step that changes no call and no list, and at most flushes.
LEMMA AsideStep ==
  ASSUME Inv, UNCHANGED <<appenders, written, sharing, call, count>>,
         Rises(flushed, flushed'), Rises(synced, synced'),
         made' \subseteq AllLoggers, Root \in made', held' \subseteq Appenders,
         level' \in [AllLoggers -> Levels], threshold' \in [Appenders -> Levels],
         changes' \in 0 .. MaxChanges
  PROVE  Inv'
<1>1. TypeOK'
  BY DEF Inv, TypeOK, Rises
<1>2. ASSUME NEW u \in Threads
      PROVE  CallInv(u, call[u])'
  <2>1. PICK d \in {Idle} \cup Calls : d = call[u]
    BY DEF Inv, TypeOK
  <2>2. Sound(u, d)'
    BY <2>1, SoundWhenFlushed DEF Inv, CallInv
  <2>3. Undisturbed(u, d)'
    BY <2>1 DEF Inv, CallInv, Undisturbed
  <2> QED
    BY <2>1, <2>2, <2>3 DEF CallInv
<1> QED
  BY <1>1, <1>2, OutputWhenFlushed DEF Inv

LEMMA AppenderFlushPreserves ==
  ASSUME Inv, NEW a \in Appenders, NEW sync \in BOOLEAN, AppenderFlush(a, sync)
  PROVE  Inv'
<1>1. changes' \in 0 .. MaxChanges
  BY LoggerAssumption DEF AppenderFlush, Change, Inv, TypeOK
<1>2. Rises(flushed, flushed') /\ Rises(synced, synced') /\ UNCHANGED written
  BY FlushRises DEF AppenderFlush
<1> QED
  BY <1>1, <1>2, AsideStep DEF AppenderFlush, levels, Inv, TypeOK

LEMMA ReleasePreserves ==
  ASSUME Inv, NEW a \in Appenders, Release(a)
  PROVE  Inv'
<1>1. Rises(flushed, flushed') /\ Rises(synced, synced') /\ UNCHANGED written
  BY ClosesRises DEF Release
<1> QED
  BY <1>1, AsideStep DEF Release, levels, Inv, TypeOK

\* Nothing is flushed either.
LEMMA NothingRises ==
  ASSUME Inv, UNCHANGED output
  PROVE  Rises(flushed, flushed') /\ Rises(synced, synced')
BY DEF Rises, Inv, TypeOK, FlushedInv, output

LEMMA GetLoggerPreserves ==
  ASSUME Inv, NEW l \in AllLoggers, GetLogger(l)
  PROVE  Inv'
BY NothingRises, AsideStep DEF GetLogger, levels, output, Inv, TypeOK

LEMMA SetLevelPreserves ==
  ASSUME Inv, NEW l \in AllLoggers, NEW lv \in Levels, SetLevel(l, lv)
  PROVE  Inv'
<1>1. changes' \in 0 .. MaxChanges
  BY LoggerAssumption DEF SetLevel, Change, Inv, TypeOK
<1> QED
  BY <1>1, NothingRises, AsideStep DEF SetLevel, output, Inv, TypeOK

LEMMA SetThresholdPreserves ==
  ASSUME Inv, NEW a \in Appenders, NEW lv \in Levels, SetThreshold(a, lv)
  PROVE  Inv'
<1>1. changes' \in 0 .. MaxChanges
  BY LoggerAssumption DEF SetThreshold, Change, Inv, TypeOK
<1> QED
  BY <1>1, NothingRises, AsideStep DEF SetThreshold, output, Inv, TypeOK

LEMMA FlushOnePreserves ==
  ASSUME Inv, NEW t \in Threads, FlushOne(t)
  PROVE  Inv'
<1>0. PICK o : o = call[t]
  OBVIOUS
<1> DEFINE c == [o EXCEPT !.next = @ + 1]
<1>1. o \in Calls /\ Sound(t, o) /\ Undisturbed(t, o) /\ o.pc = "flush"
  BY <1>0, CallKnown DEF FlushOne, At
<1>2. call' = [call EXCEPT ![t] = c] /\ UNCHANGED <<lists, levels, sharing, count>>
  BY <1>0 DEF FlushOne, Become
<1>3. /\ o.next \in 1 .. Len(o.list)
      /\ o.list \in Seq(Appenders)
      /\ Current(t) = o.list[o.next]
      /\ o.sync \in BOOLEAN
  BY <1>0, <1>1 DEF FlushOne, Looping, Current, Undisturbed, Sharing, Calls
<1>4. Current(t) \in Appenders
  BY <1>3
<1>5. /\ Flush(Current(t), o.sync)
      /\ Rises(flushed, flushed')
      /\ Rises(synced, synced')
      /\ UNCHANGED written
  BY <1>0, <1>3, <1>4, FlushRises DEF FlushOne
<1>6. c \in Calls
  <2>1. o.next + 1 \in Nat \ {0}
    BY <1>1 DEF Calls
  <2> QED
    BY <1>1, <2>1 DEF Calls
<1>7. TypeOK'
  BY <1>2, <1>5, <1>6 DEF Inv, TypeOK, lists, levels, Rises
<1>8. ASSUME NEW u \in Threads
      PROVE  CallInv(u, call[u])'
  <2>1. CASE u = t
    <3>1. PICK d : d = c
      OBVIOUS
    <3>2. call'[u] = d
      BY <1>2, <2>1, <3>1 DEF Inv, TypeOK
    <3>3. /\ d.pc = "flush" /\ d.next = o.next + 1 /\ d.list = o.list
          /\ d.sync = o.sync /\ d.stay = o.stay /\ d.logger = o.logger
      BY <1>1, <3>1 DEF Calls
    <3>4. Sound(t, o)'
      BY <1>1, <1>2, <1>5, SoundWhenFlushed DEF lists
    <3>5. ASSUME NEW k \in 1 .. d.next - 1
          PROVE  Safe(t, d, d.list[k])'
      <4>1. CASE k < o.next
        <5>1. Safe(t, o, o.list[k])'
          BY <3>3, <3>4, <3>5, <4>1, <1>1, <1>3 DEF Sound, Saved
        <5> QED
          BY <3>3, <5>1 DEF Safe
      <4>2. CASE k = o.next
        <5>1. PICK a \in Appenders : a = d.list[k]
          BY <3>3, <4>2, <1>3, <1>4
        <5>2. /\ flushed'[a] = Len(written[a])
              /\ o.sync /\ a \in Files => synced'[a] = Len(written[a])
          BY <5>1, <3>3, <4>2, <1>3, <1>5 DEF Flush, ReachesDevice, Inv, TypeOK
        <5>3. \A i \in DOMAIN written[a] : i \in Nat /\ i <= Len(written[a])
          BY DEF Inv, TypeOK
        <5> QED
          BY <5>1, <5>2, <5>3, <3>3, <1>5 DEF Safe
      <4> QED
        BY <3>3, <3>5, <1>3, <4>1, <4>2
    <3>6. Saved(t, d)'
      BY <3>5 DEF Saved
    <3>7. (Recorded(t, d) /\ Fresh(d) /\ Placed(d) /\ Served(d) /\ Stays(d))'
      BY <1>1, <1>3, <3>3
         DEF Sound, Recorded, Fresh, Placed, Served, Stays, Early, Writing, Logging
    <3>8. Undisturbed(t, d)'
      BY <1>1, <1>2, <3>3 DEF Undisturbed, lists
    <3> QED
      BY <2>1, <3>2, <3>6, <3>7, <3>8 DEF CallInv, Sound
  <2>2. CASE u # t
    <3>1. PICK d \in {Idle} \cup Calls : d = call[u] /\ call'[u] = d
      BY <1>2, <2>2 DEF Inv, TypeOK
    <3>2. Sound(u, d)'
      BY <3>1, <1>2, <1>5, SoundWhenFlushed DEF Inv, CallInv, lists
    <3>3. Undisturbed(u, d)'
      BY <3>1, <1>2 DEF Inv, CallInv, Undisturbed, lists
    <3> QED
      BY <3>1, <3>2, <3>3 DEF CallInv
  <2> QED
    BY <2>1, <2>2
<1> QED
  BY <1>2, <1>5, <1>7, <1>8, OutputWhenFlushed DEF Inv

-----------------------------------------------------------------------------
(* The step that writes.                                                   *)

LEMMA AppendWritePreserves ==
  ASSUME Inv, NEW t \in Threads, AppendWrite(t)
  PROVE  Inv'
<1> DEFINE o == call[t]
           r == o.record
           c == [o EXCEPT !.pc = "append", !.next = @ + 1]
<1>1. o \in Calls /\ Sound(t, o) /\ Undisturbed(t, o) /\ o.pc = "write"
  BY CallKnown DEF AppendWrite, At
<1>2. call' = [call EXCEPT ![t] = c] /\ UNCHANGED <<lists, levels, synced, sharing, count>>
  BY DEF AppendWrite, Become
<1>3. /\ o.next \in 1 .. Len(o.list)
      /\ o.list \in Seq(Appenders)
      /\ Current(t) = o.list[o.next]
  BY <1>1 DEF Sound, Placed, Current, Undisturbed, Sharing, Calls
<1>4. PICK a \in Appenders : a = Current(t)
  BY <1>3
<1>5. /\ r \in Records /\ r.thread = t /\ r.number = count[t]
      /\ r.number \in Nat /\ r.level \in Levels
  BY <1>1 DEF Sound, Recorded, Logging, Writing, Records
<1>6. /\ written[a] \in Seq(Records)
      /\ Len(written[a]) \in Nat
      /\ flushed[a] \in Nat /\ synced[a] \in Nat
      /\ flushed[a] <= Len(written[a]) /\ synced[a] <= Len(written[a])
  BY DEF Inv, TypeOK, FlushedInv
<1>7. PICK text : text = Append(written[a], r)
  OBVIOUS
<1>8. /\ text \in Seq(Records)
      /\ Len(text) = Len(written[a]) + 1
      /\ DOMAIN text = 1 .. Len(written[a]) + 1
      /\ DOMAIN written[a] = 1 .. Len(written[a])
      /\ text[Len(written[a]) + 1] = r
      /\ \A i \in 1 .. Len(written[a]) : text[i] = written[a][i]
  <2>1. r \in Records
    BY <1>5
  <2> HIDE DEF r
  <2> QED
    BY <2>1, <1>6, <1>7
<1>9. /\ written' = [written EXCEPT ![a] = text]
      /\ flushed' = [flushed EXCEPT ![a] = IF r.level = Fatal THEN Len(text) ELSE @]
  BY <1>4, <1>7 DEF AppendWrite, FlushesAfter
<1>10. /\ written'[a] = text
       /\ flushed'[a] = IF r.level = Fatal THEN Len(text) ELSE flushed[a]
       /\ \A b \in Appenders \ {a} : written'[b] = written[b] /\ flushed'[b] = flushed[b]
  BY <1>9 DEF Inv, TypeOK
<1>11. c \in Calls
  <2>1. o.next + 1 \in Nat \ {0}
    BY <1>1 DEF Calls
  <2> QED
    BY <1>1, <2>1 DEF Calls
<1>12. TypeOK'
  BY <1>2, <1>6, <1>8, <1>9, <1>11 DEF Inv, TypeOK, lists, levels
<1>13. NumberInv'
  <2>1. ASSUME NEW b \in Appenders, NEW i \in DOMAIN written'[b]
        PROVE  written'[b][i].number <= count[written'[b][i].thread]
    <3>1. CASE b = a /\ i = Len(written[a]) + 1
      <4>1. written'[b][i] = r
        BY <3>1, <1>8, <1>10
      <4> QED
        BY <4>1, <1>5
    <3>2. CASE ~(b = a /\ i = Len(written[a]) + 1)
      <4>1. i \in DOMAIN written[b] /\ written'[b][i] = written[b][i]
        <5>1. CASE b = a
          BY <2>1, <3>2, <5>1, <1>6, <1>8, <1>10
        <5>2. CASE b # a
          BY <2>1, <5>2, <1>10
        <5> QED
          BY <5>1, <5>2
      <4> QED
        BY <4>1 DEF Inv, NumberInv
    <3> QED
      BY <3>1, <3>2
  <2> QED
    BY <2>1, <1>2 DEF NumberInv
<1>14. FlushedInv'
  BY <1>2, <1>6, <1>8, <1>10 DEF Inv, FlushedInv
<1>15. FatalFlushed'
  <2>1. ASSUME NEW b \in Appenders, NEW i \in DOMAIN written'[b], written'[b][i].level = Fatal
        PROVE  flushed'[b] >= i
    <3>1. CASE b = a /\ i = Len(written[a]) + 1
      <4>1. written'[b][i] = r
        BY <3>1, <1>8, <1>10
      <4> QED
        BY <2>1, <3>1, <4>1, <1>6, <1>8, <1>10
    <3>2. CASE ~(b = a /\ i = Len(written[a]) + 1)
      <4>1. i \in DOMAIN written[b] /\ written'[b][i] = written[b][i]
        <5>1. CASE b = a
          BY <2>1, <3>2, <5>1, <1>6, <1>8, <1>10
        <5>2. CASE b # a
          BY <2>1, <5>2, <1>10
        <5> QED
          BY <5>1, <5>2
      <4>2. flushed[b] >= i
        BY <2>1, <4>1 DEF Inv, FatalFlushed
      <4> QED
        BY <2>1, <3>2, <4>2, <1>6, <1>8, <1>10
    <3> QED
      BY <3>1, <3>2
  <2> QED
    BY <2>1 DEF FatalFlushed
<1>16. ASSUME NEW x, NEW b \in Appenders
       PROVE  Times(x, written'[b]) = Times(x, written[b]) + (IF b = a /\ x = r THEN 1 ELSE 0)
  <2>1. CASE b = a
    <3>1. PICK e \in Records : e = r
      BY <1>5
    <3>2. Times(x, Append(written[a], e)) = Times(x, written[a]) + (IF e = x THEN 1 ELSE 0)
      BY <1>6, TimesAppend
    <3> QED
      BY <2>1, <3>1, <3>2, <1>7, <1>10
  <2>2. CASE b # a
    BY <2>2, <1>10, TimesType DEF Inv, TypeOK
  <2> QED
    BY <2>1, <2>2
<1>17. ASSUME NEW u \in Threads
       PROVE  CallInv(u, call[u])'
  <2>1. CASE u = t
    <3>1. PICK d : d = c
      OBVIOUS
    <3>2. call'[u] = d
      BY <1>2, <2>1, <3>1 DEF Inv, TypeOK
    <3>3. /\ d.pc = "append" /\ d.next = o.next + 1 /\ d.next - 1 = o.next
          /\ d.list = o.list /\ d.record = r /\ d.refused = o.refused
          /\ d.stay = o.stay /\ d.home = o.home /\ d.logger = o.logger
      BY <1>1, <3>1 DEF Calls
    <3>4. ASSUME NEW b \in Appenders
          PROVE  Times(r, written'[b]) + Times(b, o.refused) = Times(b, SubSeq(o.list, 1, o.next))
      <4>1. Times(r, written[b]) + Times(b, o.refused) = Times(b, SubSeq(o.list, 1, o.next - 1))
        BY <1>1 DEF Sound, Served, Writing
      <4>2. PICK before : before = SubSeq(o.list, 1, o.next - 1)
        OBVIOUS
      <4>3. before \in Seq(Appenders) /\ SubSeq(o.list, 1, o.next) = Append(before, a)
        BY <4>2, <1>3, <1>4, OneMore
      <4>4. Times(b, Append(before, a)) = Times(b, before) + (IF a = b THEN 1 ELSE 0)
        BY <4>3, TimesAppend
      <4>5. Times(r, written'[b]) = Times(r, written[b]) + (IF b = a THEN 1 ELSE 0)
        BY <1>16
      <4>6. Times(r, written[b]) \in Nat /\ Times(b, o.refused) \in Nat /\ Times(b, before) \in Nat
        BY <4>3, <1>1, TimesType DEF Inv, TypeOK, Calls
      <4> QED
        <5>1. Times(b, SubSeq(o.list, 1, o.next)) = Times(b, before) + (IF a = b THEN 1 ELSE 0)
          BY <4>3, <4>4
        <5>2. Times(r, written[b]) + Times(b, o.refused) = Times(b, before)
          BY <4>1, <4>2
        <5> HIDE DEF o, r
        <5> QED
          BY <5>1, <5>2, <4>5, <4>6
    <3>5. Served(d)'
      BY <3>3, <3>4 DEF Served
    <3>6. (Recorded(t, d) /\ Fresh(d) /\ Placed(d) /\ Stays(d) /\ Saved(t, d))'
      BY <1>1, <1>2, <1>3, <3>3
         DEF Sound, Recorded, Fresh, Placed, Stays, Saved, Early, Writing, Logging, lists
    <3>7. Undisturbed(t, d)'
      BY <1>1, <1>2, <3>3 DEF Undisturbed, Sharing, lists
    <3> QED
      BY <2>1, <3>2, <3>5, <3>6, <3>7 DEF CallInv, Sound
  <2>2. CASE u # t
    <3>1. PICK d \in {Idle} \cup Calls : d = call[u] /\ call'[u] = d /\ CallInv(u, d)
      BY <1>2, <2>2 DEF Inv, TypeOK
    <3>2. Undisturbed(u, d)' /\ (Recorded(u, d) /\ Placed(d) /\ Stays(d))'
      BY <3>1, <1>2 DEF CallInv, Sound, Undisturbed, Recorded, Placed, Stays, lists
    <3>3. d.pc \in Logging => d.record # r
      BY <3>1, <2>2, <1>5 DEF CallInv, Sound, Recorded
    <3>4. Fresh(d)'
      BY <3>1, <3>3, <1>8, <1>10 DEF CallInv, Sound, Fresh, Logging
    <3>5. Served(d)'
      <4>1. ASSUME d.pc \in Writing, NEW b \in Appenders
            PROVE  Times(d.record, written'[b]) = Times(d.record, written[b])
        BY <4>1, <3>3, <1>16, TimesType DEF Logging, Inv, TypeOK
      <4> QED
        BY <3>1, <4>1 DEF CallInv, Sound, Served
    <3>6. ASSUME d.pc = "flush", NEW k \in 1 .. d.next - 1
          PROVE  Safe(u, d, d.list[k])'
      <4>1. PICK b \in Appenders : b = d.list[k]
        <5>1. d \in Calls
          BY <3>6 DEF Idle
        <5> QED
          BY <5>1, <3>1, <3>6 DEF CallInv, Sound, Placed, Calls
      <4>2. Safe(u, d, b)
        BY <4>1, <3>1, <3>6 DEF CallInv, Sound, Saved
      <4>3. CASE b = a
        BY <4>1, <4>2, <4>3, <2>2, <1>2, <1>5, <1>6, <1>8, <1>10 DEF Safe
      <4>4. CASE b # a
        BY <4>1, <4>2, <4>4, <1>2, <1>10 DEF Safe
      <4> QED
        BY <4>3, <4>4
    <3>7. Saved(u, d)'
      BY <3>6 DEF Saved
    <3> QED
      BY <3>1, <3>2, <3>4, <3>5, <3>7 DEF CallInv, Sound
  <2> QED
    BY <2>1, <2>2
<1> QED
  BY <1>12, <1>13, <1>14, <1>15, <1>17 DEF Inv

-----------------------------------------------------------------------------
(* The changes of the lists.                                               *)

\* Nobody who is in a loop over l's list notices that it changes, and the
\* history keeps up with it.
LEMMA ListStep ==
  ASSUME Inv, NEW l \in AllLoggers, NEW new \in Seq(Appenders), NEW left \in SUBSET Appenders,
         Exclusive(l),
         appenders' = [appenders EXCEPT ![l] = new],
         ToSet(appenders[l]) \cap left \subseteq ToSet(new),
         call' \in [Threads -> {Idle} \cup Calls],
         \A u \in Threads : call'[u] = IF call[u] # Idle /\ call[u].home = l
                                      THEN [call[u] EXCEPT !.stay = @ \cap left]
                                      ELSE call[u],
         UNCHANGED <<made, held, levels, written, sharing, count>>,
         Rises(flushed, flushed'), Rises(synced, synced'),
         Change
  PROVE  Inv'
<1>1. changes' \in 0 .. MaxChanges
  BY LoggerAssumption DEF Change, Inv, TypeOK
<1>2. TypeOK'
  BY <1>1 DEF Inv, TypeOK, levels, Rises
<1>3. ASSUME NEW u \in Threads
      PROVE  CallInv(u, call[u])'
  <2>1. PICK d \in {Idle} \cup Calls : d = call[u] /\ CallInv(u, d)
    BY DEF Inv, TypeOK
  <2>2. PICK e : /\ e = call'[u]
                 /\ e = IF d # Idle /\ d.home = l THEN [d EXCEPT !.stay = @ \cap left] ELSE d
    BY <2>1
  <2>3. (Recorded(u, d) /\ Fresh(d) /\ Placed(d) /\ Served(d) /\ Saved(u, d))'
    BY <2>1, BasicWhenFlushed DEF CallInv
  <2>4. CASE d = Idle
    BY <2>2, <2>4, IdleInv
  <2>5. CASE d \in Calls /\ d # Idle
    <3>1. /\ e.pc = d.pc /\ e.record = d.record /\ e.home = d.home /\ e.logger = d.logger
          /\ e.next = d.next /\ e.sync = d.sync /\ e.list = d.list /\ e.refused = d.refused
          /\ e.stay = IF d.home = l THEN d.stay \cap left ELSE d.stay
      BY <2>2, <2>5 DEF Calls
    <3>2. (Recorded(u, e) /\ Fresh(e) /\ Placed(e) /\ Served(e) /\ Saved(u, e))'
      BY <2>3, <3>1 DEF Recorded, Fresh, Placed, Served, Saved, Safe
    <3>3. Stays(e)'
      <4>1. d.home \in AllLoggers
        BY <2>5 DEF Calls
      <4>2. /\ d.pc \in {"ask", "has", "enter", "flush"} => d.stay = {}
            /\ d.pc \in Logging /\ d.stay # {} =>
                  d.logger = d.home /\ d.stay \subseteq ToSet(appenders[d.home])
        BY <2>1 DEF CallInv, Sound, Stays
      <4>3. appenders'[d.home] = IF d.home = l THEN new ELSE appenders[d.home]
        BY <4>1 DEF Inv, TypeOK
      <4> QED
        BY <3>1, <4>2, <4>3 DEF Stays
    <3>4. Undisturbed(u, e)'
      <4>1. SUFFICES ASSUME d.pc \in Sharing
                     PROVE  /\ appenders'[d.logger] = d.list
                            /\ u \in sharing[d.logger]
        BY <3>1 DEF Undisturbed
      <4>2. appenders[d.logger] = d.list /\ u \in sharing[d.logger]
        BY <2>1, <4>1 DEF CallInv, Undisturbed
      <4>3. d.logger # l /\ d.logger \in AllLoggers
        BY <2>5, <4>2 DEF Exclusive, Calls
      <4> QED
        BY <4>2, <4>3 DEF Inv, TypeOK
    <3> QED
      BY <2>2, <3>2, <3>3, <3>4 DEF CallInv, Sound
  <2> QED
    BY <2>1, <2>4, <2>5
<1> QED
  BY <1>2, <1>3, OutputWhenFlushed DEF Inv

\* With the history of those who stay, every call remains one.
LEMMA StayersTyped ==
  ASSUME Inv, NEW l \in AllLoggers, NEW left \in SUBSET Appenders, Stayers(l, left)
  PROVE  /\ call' \in [Threads -> {Idle} \cup Calls]
         /\ \A u \in Threads : call'[u] = IF call[u] # Idle /\ call[u].home = l
                                         THEN [call[u] EXCEPT !.stay = @ \cap left]
                                         ELSE call[u]
<1>1. \A u \in Threads : call[u] \in {Idle} \cup Calls
  BY DEF Inv, TypeOK
<1>2. ASSUME NEW d \in Calls
      PROVE  [d EXCEPT !.stay = @ \cap left] \in Calls
  BY DEF Calls
<1> QED
  BY <1>1, <1>2 DEF Stayers

LEMMA AddAppenderPreserves ==
  ASSUME Inv, NEW l \in AllLoggers, NEW a \in Appenders, AddAppender(l, a)
  PROVE  Inv'
<1> DEFINE new == Append(appenders[l], a)
<1>1. appenders[l] \in Seq(Appenders)
  BY Lists
<1>2. new \in Seq(Appenders) /\ ToSet(appenders[l]) \cap Appenders \subseteq ToSet(new)
  BY <1>1 DEF ToSet
<1>3. \A u \in Threads : call[u] \in Calls => call[u] = [call[u] EXCEPT !.stay = @ \cap Appenders]
  <2>1. ASSUME NEW d \in Calls
        PROVE  d = [d EXCEPT !.stay = @ \cap Appenders]
    <3>1. d.stay \cap Appenders = d.stay
      BY DEF Calls
    <3> QED
      BY <3>1 DEF Calls
  <2> QED
    BY <2>1
<1>4. \A u \in Threads : call'[u] = IF call[u] # Idle /\ call[u].home = l
                                   THEN [call[u] EXCEPT !.stay = @ \cap Appenders]
                                   ELSE call[u]
  BY <1>3 DEF AddAppender, Inv, TypeOK
<1> HIDE DEF new
<1> QED
  BY <1>2, <1>4, ListStep, NothingRises DEF AddAppender, new, output, Inv, TypeOK

LEMMA RemoveAppenderPreserves ==
  ASSUME Inv, NEW l \in AllLoggers, NEW a \in Appenders, RemoveAppender(l, a)
  PROVE  Inv'
<1>1. /\ Erased(l, a) \in Seq(Appenders)
      /\ ToSet(appenders[l]) \cap (Appenders \ {a}) \subseteq ToSet(Erased(l, a))
  BY Lists, ErasedList
<1>2. PICK new : new = Erased(l, a)
  OBVIOUS
<1>3. PICK left : left = Appenders \ {a}
  OBVIOUS
<1>4. /\ call' \in [Threads -> {Idle} \cup Calls]
      /\ \A u \in Threads : call'[u] = IF call[u] # Idle /\ call[u].home = l
                                      THEN [call[u] EXCEPT !.stay = @ \cap left]
                                      ELSE call[u]
  BY <1>3, StayersTyped DEF RemoveAppender
<1>5. Rises(flushed, flushed') /\ Rises(synced, synced')
  BY NothingRises DEF RemoveAppender
<1>6. /\ Exclusive(l) /\ Change /\ appenders' = [appenders EXCEPT ![l] = new]
      /\ UNCHANGED <<made, held, levels, written, sharing, count>>
  BY <1>2 DEF RemoveAppender, output
<1> QED
  BY <1>1, <1>2, <1>3, <1>4, <1>5, <1>6, ListStep

LEMMA ClearAppendersPreserves ==
  ASSUME Inv, NEW l \in AllLoggers, ClearAppenders(l)
  PROVE  Inv'
<1>1. PICK left \in SUBSET Appenders : left = {}
  OBVIOUS
<1>2. /\ call' \in [Threads -> {Idle} \cup Calls]
      /\ \A u \in Threads : call'[u] = IF call[u] # Idle /\ call[u].home = l
                                      THEN [call[u] EXCEPT !.stay = @ \cap left]
                                      ELSE call[u]
  BY <1>1, StayersTyped DEF ClearAppenders
<1>3. Rises(flushed, flushed') /\ Rises(synced, synced') /\ UNCHANGED written
  BY ClosesRises DEF ClearAppenders
<1>4. /\ Exclusive(l) /\ Change /\ appenders' = [appenders EXCEPT ![l] = <<>>]
      /\ UNCHANGED <<made, held, levels, sharing, count>>
  BY DEF ClearAppenders
<1>5. <<>> \in Seq(Appenders) /\ ToSet(appenders[l]) \cap left \subseteq ToSet(<<>>)
  BY <1>1
<1> QED
  BY <1>2, <1>3, <1>4, <1>5, ListStep

-----------------------------------------------------------------------------
(* A mutex is held by the threads that loop over its logger's list only.   *)

Released ==
    \A t \in Threads, l \in AllLoggers :
        t \in sharing[l] => call[t].pc \in Sharing /\ call[t].logger = l

\* A step of one thread, which takes no mutex for others.
LEMMA ReleasedStep ==
  ASSUME Inv, Released, NEW t \in Threads, NEW c, Become(t, c),
         \A l \in AllLoggers : \A u \in Threads \ {t} : u \in sharing'[l] => u \in sharing[l],
         \A l \in AllLoggers : t \in sharing'[l] => c.pc \in Sharing /\ c.logger = l
  PROVE  Released'
<1>1. call'[t] = c /\ \A u \in Threads \ {t} : call'[u] = call[u]
  BY DEF Become, Inv, TypeOK
<1> QED
  BY <1>1 DEF Released

\* Before a loop a thread holds nothing, and takes nothing.
LEMMA OutsideReleases ==
  ASSUME Inv, Released, NEW t \in Threads,
         \/ AskLevel(t) \/ AskAppenders(t) \/ SubmitLevel(t) \/ SubmitRoot(t) \/ FlushRoot(t)
         \/ \E l \in AllLoggers, sync \in BOOLEAN : FlushBegin(t, l, sync)
         \/ \E l \in AllLoggers, lv \in Levels : LogBegin(t, l, lv)
  PROVE  Released'
<1>1. call[t].pc \in {"ask", "has", "submit", "lock", "enter", "idle"}
  BY DEF AskLevel, AskAppenders, SubmitLevel, SubmitRoot, FlushRoot, FlushBegin, LogBegin, At
<1>2. \A l \in AllLoggers : t \notin sharing[l]
  BY <1>1 DEF Released, Sharing
<1>3. UNCHANGED sharing /\ \E c : Become(t, c)
  BY DEF AskLevel, AskAppenders, SubmitLevel, SubmitRoot, FlushRoot, FlushBegin, LogBegin
<1> QED
  BY <1>2, <1>3, ReleasedStep

\* At its start it takes the mutex of the logger it is going to loop for.
LEMMA TakesReleases ==
  ASSUME Inv, Released, NEW t \in Threads, SubmitOwn(t) \/ FlushOwn(t)
  PROVE  Released'
<1>1. call[t].pc \in {"lock", "enter"}
  BY DEF SubmitOwn, FlushOwn, At
<1>2. PICK o \in Calls : o = call[t]
  BY <1>1, CallKnown
<1>3. PICK c : /\ Become(t, c)
               /\ \E pc \in {"format", "flush"} :
                     c = [o EXCEPT !.pc = pc, !.list = appenders[o.logger]]
  BY <1>2 DEF SubmitOwn, FlushOwn
<1>4. c.pc \in Sharing /\ c.logger = o.logger
  BY <1>3 DEF Calls, Sharing
<1>5. \A l \in AllLoggers : t \notin sharing[l]
  BY <1>1 DEF Released, Sharing
<1>6. \A l \in AllLoggers :
         sharing'[l] = IF l = o.logger THEN sharing[l] \cup {t} ELSE sharing[l]
  BY <1>2 DEF SubmitOwn, FlushOwn, Share, Inv, TypeOK
<1>7. \A l \in AllLoggers : t \in sharing'[l] => c.pc \in Sharing /\ c.logger = l
  BY <1>4, <1>5, <1>6
<1>8. \A l \in AllLoggers : \A u \in Threads \ {t} : u \in sharing'[l] => u \in sharing[l]
  BY <1>6
<1> QED
  BY <1>3, <1>7, <1>8, ReleasedStep

\* Within the loop the call stays with its logger.
LEMMA InsideReleases ==
  ASSUME Inv, Released, NEW t \in Threads,
         Format(t) \/ AppendLevel(t) \/ AppendWrite(t) \/ FlushOne(t)
  PROVE  Released'
<1>1. call[t].pc \in {"format", "append", "write", "flush"}
  BY DEF Format, AppendLevel, AppendWrite, FlushOne, At
<1>2. PICK o \in Calls : o = call[t]
  BY <1>1, CallKnown
<1>3. PICK c : /\ Become(t, c)
               /\ \/ c = [o EXCEPT !.pc = "append"]
                  \/ c = [o EXCEPT !.pc = "write"]
                  \/ c = [o EXCEPT !.next = @ + 1, !.refused = Append(@, Current(t))]
                  \/ c = [o EXCEPT !.pc = "append", !.next = @ + 1]
                  \/ c = [o EXCEPT !.next = @ + 1]
  BY <1>2 DEF Format, AppendLevel, AppendWrite, FlushOne
<1>4. c.pc \in Sharing /\ c.logger = o.logger
  BY <1>1, <1>2, <1>3 DEF Calls, Sharing
<1>5. UNCHANGED sharing
  BY DEF Format, AppendLevel, AppendWrite, FlushOne
<1> QED
  BY <1>2, <1>3, <1>4, <1>5, ReleasedStep DEF Released

\* At its end, and when formatting throws, the mutex is released.
LEMMA EndsReleases ==
  ASSUME Inv, Released, NEW t \in Threads, FormatThrows(t) \/ SubmitEnd(t) \/ FlushEnd(t)
  PROVE  Released'
<1>1. Become(t, Idle)
  BY DEF FormatThrows, SubmitEnd, FlushEnd, AfterLoop
<1>2. \A l \in AllLoggers :
         sharing'[l] = IF l = call[t].logger THEN sharing[l] \ {t} ELSE sharing[l]
  BY DEF FormatThrows, SubmitEnd, FlushEnd, Unshare, Inv, TypeOK
<1>3. \A l \in AllLoggers : t \notin sharing'[l]
  BY <1>2 DEF Released
<1> QED
  BY <1>1, <1>2, <1>3, ReleasedStep

\* Changes of lists, levels and references move no call and hold no mutex.
LEMMA OthersRelease ==
  ASSUME Inv, Released, ListChanges \/ LevelChanges \/ References \/ UNCHANGED vars
  PROVE  Released'
<1>1. UNCHANGED sharing
  BY DEF ListChanges, AddAppender, RemoveAppender, ClearAppenders, LevelChanges, SetLevel,
         SetThreshold, References, GetLogger, Release, AppenderFlush, vars
<1>2. CASE UNCHANGED call
  BY <1>1, <1>2 DEF Released
<1>3. CASE \E l \in AllLoggers, left \in SUBSET Appenders : Stayers(l, left)
  <2>1. ASSUME NEW u \in Threads, call[u].pc \in Sharing
        PROVE  call'[u].pc = call[u].pc /\ call'[u].logger = call[u].logger
    <3>1. call[u] \in Calls
      BY <2>1, CallKnown DEF Sharing
    <3> QED
      BY <1>3, <3>1 DEF Stayers, Calls
  <2> QED
    BY <1>1, <2>1 DEF Released
<1>4. UNCHANGED call \/ \E l \in AllLoggers, left \in SUBSET Appenders : Stayers(l, left)
  BY DEF ListChanges, AddAppender, RemoveAppender, ClearAppenders, LevelChanges, SetLevel,
         SetThreshold, References, GetLogger, Release, AppenderFlush, vars
<1> QED
  BY <1>2, <1>3, <1>4

-----------------------------------------------------------------------------
(* The invariant and the properties of Logger.                             *)

LEMMA InitEstablishes ==
  ASSUME Init
  PROVE  Inv
<1>1. TypeOK
  BY LoggerAssumption DEF Init, TypeOK, AllLoggers
<1>2. NumberInv /\ FlushedInv /\ FatalFlushed
  BY DEF Init, NumberInv, FlushedInv, FatalFlushed
<1>3. \A t \in Threads : CallInv(t, call[t])
  BY IdleInv DEF Init
<1> QED
  BY <1>1, <1>2, <1>3 DEF Inv

LEMMA StutterPreserves ==
  ASSUME Inv, UNCHANGED vars
  PROVE  Inv'
BY NothingRises, AsideStep DEF vars, lists, levels, output, Inv, TypeOK

\* Steps inside a call.
LEMMA LogStepsPreserve ==
  ASSUME Inv, NEW t \in Threads, LogSteps(t) \/ FlushSteps(t)
  PROVE  Inv'
BY AskLevelPreserves, AskAppendersPreserves, SubmitLevelPreserves, SubmitOwnPreserves,
   SubmitRootPreserves, FormatPreserves, FormatThrowsPreserves, AppendLevelPreserves,
   AppendWritePreserves, SubmitEndPreserves, FlushOwnPreserves, FlushRootPreserves,
   FlushOnePreserves, FlushEndPreserves
   DEF LogSteps, FlushSteps

\* The invariant of the logger: where a call stands, its list, its record and
\* what has been written fit together, whatever lists and levels change.
THEOREM Invariance == Spec => []Inv
<1>1. Init => Inv
  BY InitEstablishes
<1>2. Inv /\ [Next]_vars => Inv'
  <2> SUFFICES ASSUME Inv, [Next]_vars
               PROVE  Inv'
    OBVIOUS
  <2>1. CASE \E t \in Threads : LogSteps(t) \/ FlushSteps(t)
    BY <2>1, LogStepsPreserve
  <2>2. CASE \E t \in Threads : Begin(t)
    BY <2>2, FlushBeginPreserves, LogBeginPreserves DEF Begin
  <2>3. CASE ListChanges
    BY <2>3, ClearAppendersPreserves, AddAppenderPreserves, RemoveAppenderPreserves
       DEF ListChanges
  <2>4. CASE LevelChanges
    BY <2>4, SetLevelPreserves, SetThresholdPreserves DEF LevelChanges
  <2>5. CASE References
    BY <2>5, GetLoggerPreserves, ReleasePreserves, AppenderFlushPreserves DEF References
  <2>6. CASE UNCHANGED vars
    BY <2>6, StutterPreserves
  <2> QED
    BY <2>1, <2>2, <2>3, <2>4, <2>5, <2>6 DEF Next
<1> QED
  BY <1>1, <1>2, PTL DEF Spec

\* Every variable keeps its type; with it the loops stay inside their lists.
THEOREM TypeCorrect == Spec => []TypeOK
<1>1. Inv => TypeOK
  BY DEF Inv
<1> QED
  BY <1>1, Invariance, PTL

\* The shared mutex keeps the list of a loop as it is, to its end, and is held
\* no longer than the loop lasts.
THEOREM ListsHeld == Spec => []LoopUndisturbed
<1>1. Init => Released
  BY DEF Init, Released
<1>2. Inv /\ Released /\ [Next]_vars => Released'
  <2> SUFFICES ASSUME Inv, Released, [Next]_vars
               PROVE  Released'
    OBVIOUS
  <2>1. CASE \E t \in Threads : LogSteps(t) \/ FlushSteps(t) \/ Begin(t)
    BY <2>1, OutsideReleases, TakesReleases, InsideReleases, EndsReleases
       DEF LogSteps, FlushSteps, Begin
  <2>2. CASE ListChanges \/ LevelChanges \/ References \/ UNCHANGED vars
    BY <2>2, OthersRelease
  <2> QED
    BY <2>1, <2>2 DEF Next
<1>3. Inv /\ Released => LoopUndisturbed
  <2> SUFFICES ASSUME Inv, Released, NEW t \in Threads, NEW c, c = call[t]
               PROVE  /\ c.pc \in Sharing => appenders[c.logger] = c.list
                      /\ \A l \in AllLoggers :
                            t \in sharing[l] <=> c.pc \in Sharing /\ c.logger = l
    BY DEF LoopUndisturbed, Sharing
  <2>1. Undisturbed(t, c)
    BY DEF Inv, CallInv
  <2> QED
    BY <2>1 DEF Undisturbed, Released
<1> QED
  BY <1>1, <1>2, <1>3, Invariance, PTL DEF Spec

\* After FATAL nothing waits in a buffer, whoever else writes.
THEOREM FatalLeaves == Spec => []FatalFlushed
<1>1. Inv => FatalFlushed
  BY DEF Inv
<1> QED
  BY <1>1, Invariance, PTL

\* Each entry of the list that served a record got it or refused it, once.
THEOREM RecordsExact == Spec => WrittenExactly
<1>1. ASSUME Inv, NEW t \in Threads, SubmitEnd(t), NEW a \in Appenders
      PROVE  Times(call[t].record, written[a]) + Times(a, call[t].refused)
               = Times(a, call[t].list)
  <2>1. PICK c \in Calls : c = call[t] /\ Sound(t, c) /\ Undisturbed(t, c) /\ c.pc = "append"
    BY <1>1, CallKnown DEF SubmitEnd, At
  <2>2. c.list \in Seq(Appenders) /\ c.next = Len(c.list) + 1
    BY <1>1, <2>1 DEF SubmitEnd, Looping, Sound, Placed, Undisturbed, Sharing, Calls
  <2>3. SubSeq(c.list, 1, c.next - 1) = c.list
    BY <2>2, SubSeqFull
  <2> QED
    BY <2>1, <2>3 DEF Sound, Served, Writing
<1>2. Inv /\ [Next]_vars =>
        [\A t \in Threads : SubmitEnd(t) =>
           \A a \in Appenders :
               Times(call[t].record, written[a]) + Times(a, call[t].refused)
                   = Times(a, call[t].list)]_vars
  BY <1>1
<1> QED
  BY <1>2, Invariance, PTL DEF Spec, WrittenExactly

\* The appenders that stay registered get the record, never the root's instead.
THEOREM StayersGetIt == Spec => StayersServed
<1>1. ASSUME Inv, NEW t \in Threads, SubmitOwn(t), call[t].stay # {}
      PROVE  /\ call[t].logger = call[t].home
             /\ call[t].stay \subseteq ToSet(appenders[call[t].home])
  BY <1>1, CallKnown DEF SubmitOwn, At, Sound, Stays, Logging, Early
<1>2. Inv /\ [Next]_vars =>
        [\A t \in Threads : SubmitOwn(t) /\ call[t].stay # {} =>
           /\ call[t].logger = call[t].home
           /\ call[t].stay \subseteq ToSet(appenders[call[t].home])]_vars
  BY <1>1
<1> QED
  BY <1>2, Invariance, PTL DEF Spec, StayersServed

\* What a thread logged before it flushes or syncs is safe when that returns.
THEOREM OwnRecordsLeave == Spec => OwnRecordsSafe
<1>1. ASSUME Inv, NEW t \in Threads, FlushEnd(t), NEW a \in ToSet(call[t].list)
      PROVE  Safe(t, call[t], a)
  <2>1. PICK c \in Calls : c = call[t] /\ Sound(t, c) /\ Undisturbed(t, c) /\ c.pc = "flush"
    BY <1>1, CallKnown DEF FlushEnd, At
  <2>2. c.list \in Seq(Appenders) /\ c.next = Len(c.list) + 1
    BY <1>1, <2>1 DEF FlushEnd, Looping, Sound, Placed, Undisturbed, Sharing, Calls
  <2>3. PICK k \in 1 .. c.next - 1 : a = c.list[k]
    BY <1>1, <2>1, <2>2 DEF ToSet
  <2> QED
    BY <2>1, <2>3 DEF Sound, Saved
<1>2. Inv /\ [Next]_vars =>
        [\A t \in Threads : FlushEnd(t) =>
           \A a \in ToSet(call[t].list) : \A i \in DOMAIN written[a] :
               written[a][i].thread = t =>
                   /\ flushed[a] >= i
                   /\ call[t].sync /\ a \in Files => synced[a] >= i]_vars
  BY <1>1 DEF Safe
<1> QED
  BY <1>2, Invariance, PTL DEF Spec, OwnRecordsSafe
=============================================================================
