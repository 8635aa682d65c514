-------------------------- MODULE StatementsProofs --------------------------
(***************************************************************************)
(* What holds of Statements for any texts, capacities and depth of nested  *)
(* statements and reports: the messages are exact and the flag that stops  *)
(* reports in reports is.  The argument is an invariant of each frame of   *)
(* the stack, of the kinds of frames that can lie under others, and of the *)
(* flag; InlineBuffer enters by one lemma, that append appends.            *)
(***************************************************************************)
EXTENDS Statements, SequenceTheorems, TLAPS

-----------------------------------------------------------------------------
(* Sequences.                                                              *)

\* A prefix agrees place by place.
LEMMA PrefixPlaces ==
  ASSUME NEW S, NEW s \in Seq(S), NEW t \in Seq(S)
  PROVE  IsPrefix(s, t) <=> Len(s) <= Len(t) /\ \A i \in 1 .. Len(s) : s[i] = t[i]
<1>1. ASSUME Len(s) <= Len(t)
      PROVE  /\ SubSeq(s, 1, Len(s)) = s
             /\ SubSeq(t, 1, Len(s)) \in Seq(S)
             /\ Len(SubSeq(t, 1, Len(s))) = Len(s)
             /\ \A i \in 1 .. Len(s) : SubSeq(t, 1, Len(s))[i] = t[i]
  BY <1>1, SubSeqFull
<1>2. ASSUME Len(s) <= Len(t)
      PROVE  s = SubSeq(t, 1, Len(s)) <=> \A i \in 1 .. Len(s) : s[i] = t[i]
  <2>1. PICK u \in Seq(S) : u = SubSeq(t, 1, Len(s))
    BY <1>1, <1>2
  <2>2. Len(u) = Len(s) /\ \A i \in 1 .. Len(s) : u[i] = t[i]
    BY <1>1, <1>2, <2>1
  <2>3. (\A i \in 1 .. Len(s) : s[i] = u[i]) => s = u
    BY <2>2, SeqEqual
  <2> QED
    BY <2>1, <2>2, <2>3
<1> QED
  BY <1>1, <1>2 DEF IsPrefix

\* What is appended to the longer one keeps the prefix.
LEMMA PrefixConcat ==
  ASSUME NEW S, NEW s \in Seq(S), NEW t \in Seq(S), NEW u \in Seq(S), IsPrefix(s, t)
  PROVE  IsPrefix(s, t \o u)
<1>1. t \o u \in Seq(S) /\ Len(t \o u) = Len(t) + Len(u)
  OBVIOUS
<1>2. \A i \in 1 .. Len(t) : (t \o u)[i] = t[i]
  OBVIOUS
<1>3. PICK x \in Seq(S) : x = t \o u
  BY <1>1
<1>4. Len(s) <= Len(t) /\ \A i \in 1 .. Len(s) : s[i] = t[i]
  BY PrefixPlaces
<1>5. Len(s) <= Len(x) /\ \A i \in 1 .. Len(s) : s[i] = x[i]
  BY <1>1, <1>2, <1>3, <1>4
<1> QED
  BY <1>3, <1>5, PrefixPlaces

\* A part of what is appended gives a prefix.
LEMMA PrefixCut ==
  ASSUME NEW S, NEW s \in Seq(S), NEW u \in Seq(S), NEW k \in 0 .. Len(u)
  PROVE  IsPrefix(s \o SubSeq(u, 1, k), s \o u)
<1>1. PICK v \in Seq(S) : v = SubSeq(u, 1, k)
  <2>1. \A i \in 1 .. k : u[i] \in S
    OBVIOUS
  <2>2. k \in Int /\ 1 \in Int
    OBVIOUS
  <2>3. SubSeq(u, 1, k) \in Seq(S)
    BY <2>1, <2>2, SubSeqProperties
  <2> QED
    BY <2>3
<1>2. Len(v) = k /\ \A i \in 1 .. k : v[i] = u[i]
  BY <1>1
<1>3. /\ s \o v \in Seq(S) /\ Len(s \o v) = Len(s) + k
      /\ \A i \in 1 .. Len(s) + k : (s \o v)[i] = IF i <= Len(s) THEN s[i] ELSE v[i - Len(s)]
  BY <1>2
<1>4. /\ s \o u \in Seq(S) /\ Len(s \o u) = Len(s) + Len(u)
      /\ \A i \in 1 .. Len(s) + Len(u) : (s \o u)[i] = IF i <= Len(s) THEN s[i] ELSE u[i - Len(s)]
  OBVIOUS
<1>5. \A i \in 1 .. Len(s) + k : (s \o v)[i] = (s \o u)[i]
  BY <1>2, <1>3, <1>4
<1> QED
  <2>1. PICK x \in Seq(S) : x = s \o v
    BY <1>3
  <2>2. PICK y \in Seq(S) : y = s \o u
    BY <1>4
  <2>3. Len(x) <= Len(y) /\ \A i \in 1 .. Len(x) : x[i] = y[i]
    BY <1>3, <1>4, <1>5, <2>1, <2>2
  <2> QED
    BY <1>1, <2>1, <2>2, <2>3, PrefixPlaces

LEMMA PrefixSelf ==
  ASSUME NEW S, NEW s \in Seq(S)
  PROVE  IsPrefix(s, s)
BY PrefixPlaces

-----------------------------------------------------------------------------
(* The buffer.                                                             *)

\* m_size is the length of what is in use: the inline part, or the vector.
BufferInv(b) ==
    /\ b \in Buffers
    /\ b.size = IF b.overflow = <<>> THEN Len(b.inline) ELSE Len(b.overflow)

LEMMA BufferView ==
  ASSUME NEW b, BufferInv(b)
  PROVE  /\ Buffer!view(b) \in Seq(Characters)
         /\ Buffer!view(b) = IF b.overflow = <<>> THEN b.inline ELSE b.overflow
BY SubSeqFull DEF BufferInv, Buffers, Buffer!view

\* append appends, inline, at the spill and after it, for every capacity.
LEMMA Appends ==
  ASSUME NEW b, BufferInv(b), NEW data \in Seq(Characters)
  PROVE  /\ BufferInv(Buffer!append(b, data))
         /\ Buffer!view(Buffer!append(b, data)) = Buffer!view(b) \o data
<1>0. PICK c : c = Buffer!append(b, data)
  OBVIOUS
<1>1. b.inline \in Seq(Characters) /\ b.overflow \in Seq(Characters) /\ b.size \in Nat
  BY DEF BufferInv, Buffers
<1>2. CASE data = <<>>
  BY <1>2, BufferView DEF Buffer!append
<1>3. CASE data # <<>> /\ Buffer!Fits(b, data)
  <2>1. b.overflow = <<>> /\ SubSeq(b.inline, 1, b.size) = b.inline /\ b.size = Len(b.inline)
    BY <1>1, <1>3, SubSeqFull DEF Buffer!Fits, BufferInv
  <2>2. c = [b EXCEPT !.inline = b.inline \o data, !.size = b.size + Len(data)]
    BY <1>0, <1>3, <2>1 DEF Buffer!append
  <2>3. /\ c.inline = b.inline \o data /\ c.overflow = b.overflow
        /\ c.size = b.size + Len(data)
        /\ c.inline \in Seq(Characters) /\ Len(c.inline) = Len(b.inline) + Len(data)
    BY <1>1, <2>2 DEF BufferInv, Buffers
  <2>4. c \in Buffers
    <3>1. b.size + Len(data) \in Nat /\ b.inline \o data \in Seq(Characters)
      BY <1>1
    <3>2. b \in Buffers
      BY DEF BufferInv
    <3> QED
      BY <2>2, <3>1, <3>2 DEF Buffers
  <2>5. BufferInv(c)
    BY <2>1, <2>3, <2>4 DEF BufferInv
  <2> QED
    BY <1>0, <2>1, <2>3, <2>5, BufferView
<1>4. CASE data # <<>> /\ ~Buffer!Fits(b, data)
  <2>1. Buffer!Spilled(b) = Buffer!view(b)
    BY BufferView, SubSeqFull, <1>1 DEF Buffer!Spilled, BufferInv
  <2>2. PICK v \in Seq(Characters) : v = Buffer!view(b)
    BY BufferView
  <2>3. c = [b EXCEPT !.overflow = v \o data, !.size = Len(v) + Len(data)]
    BY <1>0, <1>4, <2>1, <2>2 DEF Buffer!append
  <2>4. /\ c.overflow = v \o data /\ c.overflow # <<>> /\ c.size = Len(v) + Len(data)
        /\ c.overflow \in Seq(Characters) /\ Len(c.overflow) = Len(v) + Len(data)
    BY <1>1, <1>4, <2>2, <2>3 DEF BufferInv, Buffers
  <2>5. c \in Buffers
    <3>1. Len(v) + Len(data) \in Nat /\ v \o data \in Seq(Characters)
      OBVIOUS
    <3>2. b \in Buffers
      BY DEF BufferInv
    <3> QED
      BY <2>3, <3>1, <3>2 DEF Buffers
  <2>6. BufferInv(c)
    BY <2>4, <2>5 DEF BufferInv
  <2> QED
    BY <1>0, <2>2, <2>4, <2>6, BufferView
<1> QED
  BY <1>2, <1>3, <1>4

LEMMA EmptyBufferInv ==
  BufferInv(Buffer!EmptyBuffer) /\ Buffer!view(Buffer!EmptyBuffer) = <<>>
<1>1. BufferInv(Buffer!EmptyBuffer)
  BY DEF BufferInv, Buffers, Buffer!EmptyBuffer
<1> QED
  BY <1>1, BufferView DEF Buffer!EmptyBuffer

-----------------------------------------------------------------------------
(* The invariant.                                                          *)

\* The message so far is what was inserted, or a prefix once the stream is
\* bad; LogPrintf inserts once.
FrameInv(f) ==
    /\ f \in Frames
    /\ BufferInv(f.buffer)
    /\ IsPrefix(Buffer!view(f.buffer), f.sent)
    /\ ~f.bad => Buffer!view(f.buffer) = f.sent
    /\ f.kind = "written" => f.sent = f.text
    /\ f.kind \in {"printf", "large"} => f.sent = <<>>

\* Only streams and reports evaluate code of the caller's.
Opens(f) == f.kind \in {"stream", "report"}

StackInv ==
    /\ stack \in Seq(Frames) /\ Len(stack) <= MaxDepth
    /\ \A i \in DOMAIN stack : FrameInv(stack[i]) /\ (i # 1 => Opens(stack[i]))

\* An exception comes out of the caller's code or of LogPrintf.
ThrowInv == throwing => stack # <<>> /\ (Opens(Top) \/ Top.kind = "large")

Inv == TypeOK /\ StackInv /\ ThrowInv /\ ReportsExact

-----------------------------------------------------------------------------
(* What happens to the stack.                                              *)

\* A frame more.
LEMMA PushStep ==
  ASSUME StackInv, NEW f, FrameInv(f), Push(f), stack # <<>> => Opens(Top)
  PROVE  /\ StackInv'
         /\ DOMAIN stack' = 1 .. Len(stack) + 1
         /\ stack'[1] = f
         /\ \A i \in DOMAIN stack : stack'[i + 1] = stack[i]
         /\ stack' # <<>>
<1>1. PICK s \in Seq(Frames) : s = stack
  BY DEF StackInv
<1>2. f \in Frames
  BY DEF FrameInv
<1>3. PICK r : r = <<f>> \o s
  OBVIOUS
<1>4. /\ r \in Seq(Frames) /\ Len(r) = Len(s) + 1 /\ r[1] = f
      /\ \A i \in 1 .. Len(s) : r[i + 1] = s[i]
      /\ \A i \in 2 .. Len(s) + 1 : r[i] = s[i - 1]
  BY <1>2, <1>3
<1>5. stack' = r /\ Len(s) < MaxDepth
  BY <1>1, <1>3 DEF Push
<1>6. ASSUME NEW i \in DOMAIN r
      PROVE  FrameInv(r[i]) /\ (i # 1 => Opens(r[i]))
  <2>1. CASE i = 1
    BY <2>1, <1>4
  <2>2. CASE i # 1
    <3>1. i - 1 \in DOMAIN s /\ r[i] = s[i - 1]
      BY <1>6, <2>2, <1>4
    <3>2. FrameInv(s[i - 1]) /\ Opens(s[i - 1])
      BY <3>1, <1>1 DEF StackInv, Top
    <3> QED
      BY <3>1, <3>2
  <2> QED
    BY <2>1, <2>2
<1>7. StackInv'
  BY <1>1, <1>4, <1>5, <1>6, StatementsAssumption DEF StackInv, FrameInv
<1> QED
  BY <1>1, <1>4, <1>5, <1>7

\* Another frame in place of the innermost.
LEMMA ReplaceStep ==
  ASSUME StackInv, stack # <<>>, NEW f, FrameInv(f), Replace(f)
  PROVE  /\ StackInv'
         /\ DOMAIN stack' = DOMAIN stack
         /\ stack'[1] = f
         /\ \A i \in DOMAIN stack : i # 1 => stack'[i] = stack[i]
         /\ stack' # <<>>
<1>1. PICK s \in Seq(Frames) : s = stack
  BY DEF StackInv
<1>2. f \in Frames
  BY DEF FrameInv
<1>3. PICK r : r = <<f>> \o Tail(s)
  OBVIOUS
<1>4. /\ r \in Seq(Frames) /\ Len(r) = Len(s) /\ Len(s) >= 1 /\ r[1] = f
      /\ \A i \in 2 .. Len(s) : r[i] = s[i]
  <2>1. PICK t \in Seq(Frames) : t = Tail(s)
    BY <1>1, HeadTailProperties
  <2>2. Len(t) = Len(s) - 1 /\ \A i \in 1 .. Len(s) - 1 : t[i] = s[i + 1]
    BY <1>1, <2>1
  <2>3. r = <<f>> \o t
    BY <1>3, <2>1
  <2> QED
    BY <1>1, <1>2, <2>2, <2>3
<1>5. stack' = r
  BY <1>1, <1>3 DEF Replace
<1>6. \A i \in DOMAIN r : FrameInv(r[i]) /\ (i # 1 => Opens(r[i]))
  BY <1>1, <1>4 DEF StackInv
<1>7. StackInv'
  BY <1>1, <1>4, <1>5, <1>6 DEF StackInv, FrameInv
<1> QED
  BY <1>1, <1>4, <1>5, <1>7

\* The innermost frame is taken away.
LEMMA PopStep ==
  ASSUME StackInv, stack # <<>>, stack' = Tail(stack)
  PROVE  /\ StackInv'
         /\ DOMAIN stack' = 1 .. Len(stack) - 1
         /\ \A i \in DOMAIN stack' : stack'[i] = stack[i + 1]
         /\ stack' # <<>> => Opens(Top')
<1>1. PICK s \in Seq(Frames) : s = stack
  BY DEF StackInv
<1>2. PICK t \in Seq(Frames) : t = Tail(s)
  BY <1>1, HeadTailProperties
<1>3. Len(t) = Len(s) - 1 /\ \A i \in 1 .. Len(s) - 1 : t[i] = s[i + 1]
  BY <1>1, <1>2
<1>4. stack' = t
  BY <1>1, <1>2
<1>5. ASSUME NEW i \in DOMAIN t
      PROVE  FrameInv(t[i]) /\ Opens(t[i])
  <2>1. i + 1 \in DOMAIN s /\ i + 1 # 1 /\ t[i] = s[i + 1]
    BY <1>1, <1>3, <1>5
  <2> QED
    BY <2>1, <1>1 DEF StackInv
<1>6. StackInv'
  BY <1>1, <1>3, <1>4, <1>5, StatementsAssumption DEF StackInv, FrameInv
<1>7. t # <<>> => Opens(t[1])
  BY <1>5
<1> QED
  BY <1>1, <1>3, <1>4, <1>6, <1>7 DEF Top

-----------------------------------------------------------------------------
(* What happens to the flag.                                               *)

LEMMA PushedStatement ==
  ASSUME Inv, NEW f, FrameInv(f), Push(f), stack # <<>> => Opens(Top),
         f.kind \notin {"report", "caught"}, UNCHANGED reporting
  PROVE  ReportsExact'
<1>1. /\ DOMAIN stack' = 1 .. Len(stack) + 1 /\ stack'[1] = f
      /\ \A i \in DOMAIN stack : stack'[i + 1] = stack[i]
      /\ DOMAIN stack = 1 .. Len(stack) /\ Len(stack) \in Nat
  BY PushStep DEF Inv, StackInv
<1>2. ~IsReport(1)'
  BY <1>1 DEF IsReport
<1>3. \A i \in DOMAIN stack : IsReport(i + 1)' <=> IsReport(i)
  BY <1>1 DEF IsReport
<1>4. \A i \in DOMAIN stack' : IsReport(i)' => i - 1 \in DOMAIN stack /\ IsReport(i - 1)
  <2> SUFFICES ASSUME NEW i \in DOMAIN stack', IsReport(i)'
               PROVE  i - 1 \in DOMAIN stack /\ IsReport(i - 1)
    OBVIOUS
  <2>1. i # 1
    BY <1>2
  <2>2. i - 1 \in DOMAIN stack /\ (i - 1) + 1 = i
    BY <1>1, <2>1
  <2> QED
    BY <1>3, <2>2
<1>5. \A i \in DOMAIN stack : i + 1 \in DOMAIN stack'
  BY <1>1
<1>6. reporting' <=> \E i \in DOMAIN stack' : IsReport(i)'
  BY <1>3, <1>4, <1>5 DEF Inv, ReportsExact
<1>7. \A i, j \in DOMAIN stack' : IsReport(i)' /\ IsReport(j)' => i = j
  BY <1>1, <1>4 DEF Inv, ReportsExact
<1> QED
  BY <1>6, <1>7 DEF ReportsExact

LEMMA PushedReport ==
  ASSUME Inv, NEW f, FrameInv(f), Push(f), stack # <<>> => Opens(Top),
         f.kind = "report", ~reporting, reporting' = TRUE
  PROVE  ReportsExact'
<1>1. /\ DOMAIN stack' = 1 .. Len(stack) + 1 /\ stack'[1] = f
      /\ \A i \in DOMAIN stack : stack'[i + 1] = stack[i]
      /\ DOMAIN stack = 1 .. Len(stack) /\ Len(stack) \in Nat
  BY PushStep DEF Inv, StackInv
<1>2. IsReport(1)'
  BY <1>1 DEF IsReport
<1>3. ASSUME NEW i \in DOMAIN stack', i # 1
      PROVE  ~IsReport(i)'
  <2>1. i - 1 \in DOMAIN stack /\ stack'[i] = stack[i - 1]
    BY <1>1, <1>3
  <2>2. ~IsReport(i - 1)
    BY <2>1 DEF Inv, ReportsExact
  <2> QED
    BY <2>1, <2>2 DEF IsReport
<1> QED
  BY <1>1, <1>2, <1>3 DEF ReportsExact

LEMMA Replaced ==
  ASSUME Inv, stack # <<>>, NEW f, FrameInv(f), Replace(f),
         f.kind \in {"report", "caught"} <=> Top.kind \in {"report", "caught"},
         UNCHANGED reporting
  PROVE  ReportsExact'
<1>1. /\ DOMAIN stack' = DOMAIN stack /\ stack'[1] = f
      /\ \A i \in DOMAIN stack : i # 1 => stack'[i] = stack[i]
  BY ReplaceStep DEF Inv
<1>2. \A i \in DOMAIN stack : IsReport(i)' <=> IsReport(i)
  BY <1>1 DEF IsReport, Top
<1> QED
  BY <1>1, <1>2 DEF Inv, ReportsExact

LEMMA PoppedStatement ==
  ASSUME Inv, stack # <<>>, stack' = Tail(stack),
         Top.kind \notin {"report", "caught"}, UNCHANGED reporting
  PROVE  ReportsExact'
<1>1. /\ DOMAIN stack' = 1 .. Len(stack) - 1
      /\ \A i \in DOMAIN stack' : stack'[i] = stack[i + 1]
      /\ DOMAIN stack = 1 .. Len(stack) /\ Len(stack) \in Nat
  BY PopStep DEF Inv, StackInv
<1>2. ~IsReport(1)
  BY DEF IsReport, Top
<1>3. \A i \in DOMAIN stack' : i + 1 \in DOMAIN stack /\ (IsReport(i)' <=> IsReport(i + 1))
  BY <1>1 DEF IsReport
<1>4. ASSUME NEW i \in DOMAIN stack, IsReport(i)
      PROVE  i - 1 \in DOMAIN stack' /\ IsReport(i - 1)'
  <2>1. i # 1
    BY <1>2, <1>4
  <2>2. i - 1 \in DOMAIN stack' /\ (i - 1) + 1 = i
    BY <1>1, <2>1
  <2> QED
    BY <1>3, <1>4, <2>2
<1>5. reporting' <=> \E i \in DOMAIN stack' : IsReport(i)'
  BY <1>3, <1>4 DEF Inv, ReportsExact
<1>6. \A i, j \in DOMAIN stack' : IsReport(i)' /\ IsReport(j)' => i = j
  BY <1>1, <1>3 DEF Inv, ReportsExact
<1> QED
  BY <1>5, <1>6 DEF ReportsExact

LEMMA PoppedReport ==
  ASSUME Inv, stack # <<>>, stack' = Tail(stack),
         Top.kind \in {"report", "caught"}, reporting' = FALSE
  PROVE  ReportsExact'
<1>1. /\ DOMAIN stack' = 1 .. Len(stack) - 1
      /\ \A i \in DOMAIN stack' : stack'[i] = stack[i + 1]
      /\ DOMAIN stack = 1 .. Len(stack) /\ Len(stack) \in Nat
  BY PopStep DEF Inv, StackInv
<1>2. IsReport(1) /\ 1 \in DOMAIN stack
  BY <1>1 DEF IsReport, Top
<1>3. ASSUME NEW i \in DOMAIN stack'
      PROVE  ~IsReport(i)'
  <2>1. i + 1 \in DOMAIN stack /\ i + 1 # 1 /\ stack'[i] = stack[i + 1]
    BY <1>1
  <2>2. ~IsReport(i + 1)
    BY <1>2, <2>1 DEF Inv, ReportsExact
  <2> QED
    BY <2>1, <2>2 DEF IsReport
<1> QED
  BY <1>3 DEF ReportsExact

-----------------------------------------------------------------------------
(* What happens to a frame.                                                *)

LEMMA NewFrame ==
  ASSUME name \in Views, NEW kind \in Kinds, kind # "written"
  PROVE  FrameInv(Frame(kind)) /\ Frame(kind).kind = kind
<1>1. PICK f : f = Frame(kind)
  OBVIOUS
<1>2. /\ f.kind = kind /\ f.view = name /\ f.buffer = Buffer!EmptyBuffer /\ f.bad = FALSE
      /\ f.sent = <<>> /\ f.text = <<>>
  BY <1>1 DEF Frame
<1>3. f \in Frames
  <2>1. Buffer!EmptyBuffer \in Buffers
    BY EmptyBufferInv DEF BufferInv
  <2> QED
    BY <1>1, <2>1 DEF Frame, Frames
<1>4. IsPrefix(<<>>, <<>>)
  <2>1. <<>> \in Seq(Characters)
    OBVIOUS
  <2> QED
    BY <2>1, PrefixSelf
<1>5. FrameInv(f)
  BY <1>2, <1>3, <1>4, EmptyBufferInv DEF FrameInv
<1> QED
  BY <1>1, <1>2, <1>5

\* The text is inserted whole, or not at all into a bad stream.
LEMMA InsertedWhole ==
  ASSUME NEW f, FrameInv(f), NEW text \in Seq(Characters)
  PROVE  /\ Inserted(f, text) \in Frames
         /\ Inserted(f, text).kind = f.kind
         /\ Inserted(f, text).text = f.text
         /\ Inserted(f, text).bad = f.bad
         /\ Inserted(f, text).sent = f.sent \o text
         /\ BufferInv(Inserted(f, text).buffer)
         /\ IsPrefix(Buffer!view(Inserted(f, text).buffer), f.sent \o text)
         /\ ~f.bad => Buffer!view(Inserted(f, text).buffer) = f.sent \o text
<1>1. f \in Frames /\ f.sent \in Seq(Characters) /\ f.bad \in BOOLEAN
  BY DEF FrameInv, Frames
<1>2. PICK b : b = IF f.bad THEN f.buffer ELSE Buffer!append(f.buffer, text)
  OBVIOUS
<1>3. PICK sent \in Seq(Characters) : sent = f.sent \o text
  <2>1. f.sent \o text \in Seq(Characters)
    BY <1>1, ConcatProperties
  <2> QED
    BY <2>1
<1>4. BufferInv(b)
  BY <1>2, Appends DEF FrameInv
<1>5. IsPrefix(Buffer!view(b), sent) /\ (~f.bad => Buffer!view(b) = sent)
  <2>1. CASE f.bad
    BY <1>1, <1>2, <1>3, <2>1, BufferView, PrefixConcat DEF FrameInv
  <2>2. CASE ~f.bad
    BY <1>2, <1>3, <2>2, Appends, PrefixSelf DEF FrameInv
  <2> QED
    BY <2>1, <2>2
<1>6. PICK g : g = Inserted(f, text)
  OBVIOUS
<1>7. g = [f EXCEPT !.buffer = b, !.sent = sent]
  BY <1>2, <1>3, <1>6 DEF Inserted
<1>8. b \in Buffers
  BY <1>4 DEF BufferInv
<1>9. /\ g \in Frames /\ g.kind = f.kind /\ g.text = f.text /\ g.bad = f.bad
      /\ g.sent = sent /\ g.buffer = b
  BY <1>1, <1>7, <1>8 DEF Frames
<1> QED
  BY <1>3, <1>4, <1>5, <1>6, <1>9

\* Memory runs out after k characters.
LEMMA CutShort ==
  ASSUME NEW f, FrameInv(f), ~f.bad, NEW text \in Seq(Characters), NEW k \in 0 .. Len(text)
  PROVE  /\ Cut(f, text, k) \in Frames
         /\ Cut(f, text, k).kind = f.kind
         /\ Cut(f, text, k).text = f.text
         /\ Cut(f, text, k).bad
         /\ Cut(f, text, k).sent = f.sent \o text
         /\ BufferInv(Cut(f, text, k).buffer)
         /\ IsPrefix(Buffer!view(Cut(f, text, k).buffer), f.sent \o text)
<1>1. f \in Frames /\ f.sent \in Seq(Characters)
  BY DEF FrameInv, Frames
<1>2. PICK part \in Seq(Characters) : part = SubSeq(text, 1, k)
  <2>1. \A i \in 1 .. k : text[i] \in Characters
    OBVIOUS
  <2>2. k \in Int /\ 1 \in Int
    OBVIOUS
  <2>3. SubSeq(text, 1, k) \in Seq(Characters)
    BY <2>1, <2>2, SubSeqProperties
  <2> QED
    BY <2>3
<1>3. PICK b : b = Buffer!append(f.buffer, part)
  OBVIOUS
<1>4. BufferInv(b) /\ Buffer!view(b) = f.sent \o part
  BY <1>3, Appends DEF FrameInv
<1>5. IsPrefix(Buffer!view(b), f.sent \o text)
  BY <1>1, <1>2, <1>4, PrefixCut
<1>6. PICK sent \in Seq(Characters) : sent = f.sent \o text
  <2>1. f.sent \o text \in Seq(Characters)
    BY <1>1, ConcatProperties
  <2> QED
    BY <2>1
<1>7. PICK g : g = Cut(f, text, k)
  OBVIOUS
<1>8. g = [f EXCEPT !.buffer = b, !.bad = TRUE, !.sent = sent]
  BY <1>2, <1>3, <1>6, <1>7 DEF Cut
<1>9. b \in Buffers
  BY <1>4 DEF BufferInv
<1>10. /\ g \in Frames /\ g.kind = f.kind /\ g.text = f.text /\ g.bad
       /\ g.sent = sent /\ g.buffer = b
  BY <1>1, <1>8, <1>9 DEF Frames
<1> QED
  BY <1>4, <1>5, <1>6, <1>7, <1>10

-----------------------------------------------------------------------------
(* The actions.                                                            *)

\* What is known when the caller's code runs inside a message.
LEMMA TopKnown ==
  ASSUME Inv, stack # <<>>
  PROVE  FrameInv(Top) /\ Top \in Frames /\ Top.sent \in Seq(Characters)
         /\ Top.text \in Seq(Characters) /\ Top.bad \in BOOLEAN /\ Top.kind \in Kinds
<1>1. 1 \in DOMAIN stack
  BY DEF Inv, StackInv
<1>2. FrameInv(Top)
  BY <1>1 DEF Inv, StackInv, Top
<1> QED
  BY <1>2 DEF FrameInv, Frames

\* A step that changes the stack and the flags of the thread, and no name.
LEMMA ThreadStep ==
  ASSUME Inv, UNCHANGED <<debug, thread>>, StackInv', ThrowInv', ReportsExact',
         throwing' \in BOOLEAN, reporting' \in BOOLEAN,
         aborted' \in BOOLEAN, aborted' => debug
  PROVE  Inv'
BY DEF Inv, TypeOK, StackInv, thread

LEMMA StreamBeginPreserves ==
  ASSUME Inv, StreamBegin
  PROVE  Inv'
<1>1. PICK f : f = Frame("stream")
  OBVIOUS
<1>2. FrameInv(f) /\ f.kind = "stream"
  BY <1>1, NewFrame DEF Inv, TypeOK, Kinds
<1>3. Push(f) /\ (stack # <<>> => Opens(Top)) /\ ~throwing
  BY <1>1 DEF StreamBegin, Calling, Running, Opens
<1>4. StackInv' /\ ReportsExact'
  BY <1>2, <1>3, PushStep, PushedStatement DEF Inv, StreamBegin
<1> QED
  BY <1>3, <1>4, ThreadStep DEF StreamBegin, Inv, TypeOK, ThrowInv

LEMMA PrintfBeginPreserves ==
  ASSUME Inv, NEW text \in Texts, PrintfBegin(text)
  PROVE  Inv'
<1>1. PICK e : e = Frame("printf")
  OBVIOUS
<1>2. FrameInv(e) /\ e.kind = "printf"
  BY <1>1, NewFrame DEF Inv, TypeOK, Kinds
<1>3. PICK f : f = [e EXCEPT !.text = text]
  OBVIOUS
<1>4. FrameInv(f) /\ f.kind = "printf"
  BY <1>2, <1>3, StatementsAssumption DEF FrameInv, Frames
<1>5. Push(f) /\ (stack # <<>> => Opens(Top)) /\ ~throwing
  BY <1>1, <1>3 DEF PrintfBegin, Calling, Running, Opens
<1>6. StackInv' /\ ReportsExact'
  BY <1>4, <1>5, PushStep, PushedStatement DEF Inv, PrintfBegin
<1> QED
  BY <1>5, <1>6, ThreadStep DEF PrintfBegin, Inv, TypeOK, ThrowInv

LEMMA ReportBeginPreserves ==
  ASSUME Inv, ReportBegin
  PROVE  Inv'
<1>1. PICK f : f = Frame("report")
  OBVIOUS
<1>2. FrameInv(f) /\ f.kind = "report"
  BY <1>1, NewFrame DEF Inv, TypeOK, Kinds
<1>3. Push(f) /\ (stack # <<>> => Opens(Top)) /\ ~throwing /\ ~reporting
  BY <1>1 DEF ReportBegin, Nested, Calling, Running, Opens
<1>4. StackInv' /\ ReportsExact'
  BY <1>2, <1>3, PushStep, PushedReport DEF Inv, ReportBegin
<1> QED
  BY <1>3, <1>4, ThreadStep DEF ReportBegin, Inv, TypeOK, ThrowInv

\* Another frame in place of the innermost, no exception.
LEMMA FrameStep ==
  ASSUME Inv, stack # <<>>, NEW f, FrameInv(f), Replace(f),
         f.kind \in {"report", "caught"} <=> Top.kind \in {"report", "caught"},
         throwing' = FALSE, UNCHANGED <<debug, aborted, reporting, thread>>
  PROVE  Inv'
<1>1. StackInv' /\ ReportsExact'
  BY ReplaceStep, Replaced DEF Inv
<1> QED
  BY <1>1, ThreadStep DEF Inv, TypeOK, ThrowInv

LEMMA InsertPreserves ==
  ASSUME Inv, NEW text \in Texts, Insert(text)
  PROVE  Inv'
<1>1. stack # <<>> /\ Opens(Top) /\ throwing' = FALSE
  BY DEF Insert, Calling, Running, Opens, Inv, TypeOK
<1>2. text \in Seq(Characters)
  BY StatementsAssumption
<1>3. PICK f : f = Inserted(Top, text)
  OBVIOUS
<1>4. FrameInv(f) /\ f.kind = Top.kind
  BY <1>1, <1>2, <1>3, TopKnown, InsertedWhole DEF FrameInv, Opens
<1> QED
  BY <1>1, <1>3, <1>4, FrameStep DEF Insert

LEMMA InsertFailsPreserves ==
  ASSUME Inv, NEW text \in Texts, InsertFails(text)
  PROVE  Inv'
<1>1. stack # <<>> /\ Opens(Top) /\ throwing' = FALSE
  BY DEF InsertFails, Calling, Running, Opens, Inv, TypeOK
<1>2. text \in Seq(Characters)
  BY StatementsAssumption
<1>3. PICK k \in 0 .. Len(text) - 1 : OutOfMemoryAt(Top, text, k) /\ Replace(Cut(Top, text, k))
  BY DEF InsertFails
<1>4. k \in 0 .. Len(text) /\ ~Top.bad
  BY <1>2, <1>3 DEF OutOfMemoryAt
<1>5. PICK f : f = Cut(Top, text, k)
  OBVIOUS
<1>6. FrameInv(f) /\ f.kind = Top.kind
  BY <1>1, <1>2, <1>4, <1>5, TopKnown, CutShort DEF FrameInv, Opens
<1> QED
  BY <1>1, <1>3, <1>5, <1>6, FrameStep DEF InsertFails

\* What LogPrintf inserts is its whole text, or the note that it failed.
LEMMA FinishedInv ==
  ASSUME NEW f, FrameInv(f), f.kind \in {"printf", "large"},
         NEW text \in Seq(Characters), NEW g,
         g = IF text = f.text THEN Finished(f, text) ELSE [Finished(f, text) EXCEPT !.text = text]
  PROVE  FrameInv(g) /\ g.kind = "written"
<1>1. PICK e : e = Inserted(f, text)
  OBVIOUS
<1>2. /\ e \in Frames /\ e.text = f.text /\ e.bad = f.bad
      /\ e.sent = f.sent \o text /\ BufferInv(e.buffer)
      /\ IsPrefix(Buffer!view(e.buffer), f.sent \o text)
      /\ ~f.bad => Buffer!view(e.buffer) = f.sent \o text
  BY <1>1, InsertedWhole
<1>3. f.sent \o text = text
  BY ConcatEmptySeq DEF FrameInv
<1>4. g = [e EXCEPT !.kind = "written", !.text = text]
  BY <1>1, <1>2 DEF Finished, Frames
<1>5. g \in Frames
  BY <1>2, <1>4 DEF Frames, Kinds
<1>6. /\ g.kind = "written" /\ g.text = text /\ g.bad = e.bad /\ g.sent = e.sent
      /\ g.buffer = e.buffer
  BY <1>2, <1>4 DEF Frames
<1> QED
  BY <1>2, <1>3, <1>5, <1>6 DEF FrameInv

LEMMA PrintfInlinePreserves ==
  ASSUME Inv, PrintfInline
  PROVE  Inv'
<1>1. stack # <<>> /\ Top.kind = "printf" /\ throwing' = FALSE
  BY DEF PrintfInline, Running, Inv, TypeOK
<1>2. PICK t : t = Top
  OBVIOUS
<1>3. FrameInv(t) /\ t \in Frames /\ t.text \in Seq(Characters) /\ t.kind = "printf"
  BY <1>1, <1>2, TopKnown
<1>4. CASE FitsInline(Len(t.text))
  <2>1. SubSeq(t.text, 1, Min2(Len(t.text), PrintfCapacity - 1)) = t.text
    <3>1. Len(t.text) \in Nat /\ PrintfCapacity \in Nat
      BY <1>3, StatementsAssumption
    <3>2. Min2(Len(t.text), PrintfCapacity - 1) = Len(t.text)
      BY <1>4, <3>1 DEF FitsInline, Min2
    <3> QED
      BY <1>3, <3>2, SubSeqFull
  <2>2. PICK f : f = Finished(t, t.text)
    OBVIOUS
  <2>3. FrameInv(f) /\ f.kind = "written"
    BY <1>3, <2>2, FinishedInv
  <2>4. Replace(f)
    BY <1>2, <1>4, <2>1, <2>2 DEF PrintfInline
  <2> QED
    BY <1>1, <2>3, <2>4, FrameStep DEF PrintfInline
<1>5. CASE ~FitsInline(Len(t.text))
  <2>1. PICK f : f = [t EXCEPT !.kind = "large"]
    OBVIOUS
  <2>2. FrameInv(f) /\ f.kind = "large"
    BY <1>3, <2>1 DEF FrameInv, Frames, Kinds
  <2>3. Replace(f)
    BY <1>2, <1>5, <2>1 DEF PrintfInline
  <2> QED
    BY <1>1, <2>2, <2>3, FrameStep DEF PrintfInline
<1> QED
  BY <1>4, <1>5

LEMMA PrintfOverflowPreserves ==
  ASSUME Inv, PrintfOverflow
  PROVE  Inv'
<1>1. stack # <<>> /\ Top.kind = "large" /\ throwing' = FALSE
  BY DEF PrintfOverflow, Running, Inv, TypeOK
<1>2. PICK f : f = Finished(Top, Top.text)
  OBVIOUS
<1>3. FrameInv(f) /\ f.kind = "written"
  BY <1>1, <1>2, TopKnown, FinishedInv
<1> QED
  BY <1>1, <1>2, <1>3, FrameStep DEF PrintfOverflow

LEMMA PrintfErrorPreserves ==
  ASSUME Inv, PrintfError
  PROVE  Inv'
<1>1. stack # <<>> /\ Top.kind \in {"printf", "large"} /\ throwing' = FALSE
  BY DEF PrintfError, Running, Inv, TypeOK
<1>2. PICK t : t = Top
  OBVIOUS
<1>3. FrameInv(t) /\ t.kind \in {"printf", "large"}
  BY <1>1, <1>2, TopKnown
<1>4. PICK f : f = [Finished(t, FormatError) EXCEPT !.text = FormatError]
  OBVIOUS
<1>5. FormatError \in Seq(Characters)
  BY StatementsAssumption
<1>6. f = IF FormatError = t.text THEN Finished(t, FormatError) ELSE f
  <2>1. ASSUME FormatError = t.text
        PROVE  [Finished(t, FormatError) EXCEPT !.text = FormatError] = Finished(t, FormatError)
    BY <1>3, <1>5, <2>1 DEF Finished, Inserted, FrameInv, Frames
  <2> QED
    BY <1>4, <2>1
<1>7. FrameInv(f) /\ f.kind = "written"
  BY <1>3, <1>4, <1>5, <1>6, FinishedInv
<1> QED
  BY <1>1, <1>2, <1>4, <1>7, FrameStep DEF PrintfError

LEMMA PrintfCutPreserves ==
  ASSUME Inv, PrintfCut
  PROVE  Inv'
<1>1. stack # <<>> /\ Top.kind = "large" /\ throwing' = FALSE /\ ~Top.bad
  BY DEF PrintfCut, Running, Inv, TypeOK, OutOfMemoryAt
<1>2. FrameInv(Top) /\ Top.text \in Seq(Characters) /\ Top.sent = <<>>
  BY <1>1, TopKnown DEF FrameInv
<1>3. PICK e : e = Cut(Top, Top.text, 0)
  OBVIOUS
<1>4. /\ e \in Frames /\ e.text = Top.text /\ e.bad /\ e.sent = Top.sent \o Top.text
      /\ BufferInv(e.buffer) /\ IsPrefix(Buffer!view(e.buffer), Top.sent \o Top.text)
  <2>1. 0 \in 0 .. Len(Top.text)
    BY <1>2
  <2> QED
    BY <1>1, <1>2, <1>3, <2>1, CutShort
<1>5. Top.sent \o Top.text = Top.text
  BY <1>2, ConcatEmptySeq
<1>6. PICK f : f = [e EXCEPT !.kind = "written"]
  OBVIOUS
<1>7. f \in Frames /\ f.kind = "written" /\ f.text = e.text /\ f.bad = e.bad
      /\ f.sent = e.sent /\ f.buffer = e.buffer
  BY <1>4, <1>6 DEF Frames, Kinds
<1>8. FrameInv(f)
  BY <1>4, <1>5, <1>7 DEF FrameInv
<1> QED
  BY <1>1, <1>3, <1>6, <1>7, <1>8, FrameStep DEF PrintfCut

LEMMA ReportCatchesPreserves ==
  ASSUME Inv, ReportCatches
  PROVE  Inv'
<1>1. stack # <<>> /\ Top.kind = "report" /\ throwing' = FALSE
  BY DEF ReportCatches, Inv, ThrowInv
<1>2. PICK b : b = Buffer!append(Buffer!EmptyBuffer, Unavailable)
  OBVIOUS
<1>3. Unavailable \in Seq(Characters)
  BY StatementsAssumption
<1>4. BufferInv(b) /\ Buffer!view(b) = Unavailable
  BY <1>2, <1>3, EmptyBufferInv, Appends, ConcatEmptySeq
<1>5. PICK e : e = Frame("report")
  OBVIOUS
<1>6. e \in Frames /\ e.bad = FALSE /\ e.buffer = Buffer!EmptyBuffer
  BY <1>5, NewFrame DEF Frame, FrameInv, Inv, TypeOK, Kinds
<1>7. PICK f : f = [e EXCEPT !.buffer = b, !.sent = Unavailable, !.kind = "caught"]
  OBVIOUS
<1>8. b \in Buffers
  BY <1>4 DEF BufferInv
<1>9. f \in Frames /\ f.kind = "caught" /\ f.sent = Unavailable /\ f.buffer = b
  BY <1>3, <1>6, <1>7, <1>8 DEF Frames, Kinds
<1>10. FrameInv(f)
  BY <1>3, <1>4, <1>9, PrefixSelf DEF FrameInv
<1>11. Replace(f)
  BY <1>2, <1>5, <1>6, <1>7 DEF ReportCatches
<1> QED
  BY <1>1, <1>9, <1>10, <1>11, FrameStep DEF ReportCatches

\* The caller's code, or LogPrintf, throws.
LEMMA ThrowPreserves ==
  ASSUME Inv, Throw \/ PrintfThrows
  PROVE  Inv'
<1>1. stack # <<>> /\ (Opens(Top) \/ Top.kind = "large")
  BY DEF Throw, PrintfThrows, Calling, Opens
<1>2. UNCHANGED <<debug, aborted, stack, reporting, thread>> /\ throwing' = TRUE
  BY DEF Throw, PrintfThrows
<1>3. (StackInv /\ ReportsExact)'
  BY <1>2 DEF Inv, StackInv, ReportsExact, IsReport
<1>4. ThrowInv'
  BY <1>1, <1>2 DEF ThrowInv, Top
<1> QED
  BY <1>2, <1>3, <1>4, ThreadStep DEF Inv, TypeOK

\* A statement ends; the exception that ends it may go on.
LEMMA StatementEndsPreserves ==
  ASSUME Inv, StatementEnd \/ StatementUnwound
  PROVE  Inv'
<1>1. stack # <<>> /\ stack' = Tail(stack) /\ Top.kind \notin {"report", "caught"}
  BY DEF StatementEnd, StatementUnwound, Submitting, Inv, ThrowInv, Opens
<1>2. StackInv' /\ ReportsExact' /\ (stack' # <<>> => Opens(Top'))
  BY <1>1, PopStep, PoppedStatement DEF Inv, StatementEnd, StatementUnwound
<1>3. throwing' \in BOOLEAN /\ (throwing' => stack' # <<>>)
  <2>1. CASE StatementEnd
    <3>1. throwing' = throwing /\ ~throwing
      BY <2>1 DEF StatementEnd, Running
    <3> QED
      BY <3>1 DEF Inv, TypeOK
  <2>2. CASE StatementUnwound
    <3>1. throwing' = (stack' # <<>>) \/ throwing' = FALSE
      BY <1>1, <2>2 DEF StatementUnwound
    <3> QED
      BY <3>1
  <2> QED
    BY <1>1, <2>1, <2>2
<1>4. ThrowInv'
  BY <1>2, <1>3 DEF ThrowInv, Opens
<1> QED
  <2>1. UNCHANGED <<debug, aborted, reporting, thread>>
    BY DEF StatementEnd, StatementUnwound
  <2> QED
    BY <2>1, <1>2, <1>3, <1>4, ThreadStep DEF Inv, TypeOK

LEMMA ReportEndPreserves ==
  ASSUME Inv, ReportEnd
  PROVE  Inv'
<1>1. stack # <<>> /\ stack' = Tail(stack) /\ Top.kind \in {"report", "caught"} /\ ~throwing
  BY DEF ReportEnd, Running
<1>2. StackInv' /\ ReportsExact'
  BY <1>1, PopStep, PoppedReport DEF Inv, ReportEnd
<1>3. ThrowInv'
  BY <1>1 DEF ReportEnd, ThrowInv
<1> QED
  BY <1>2, <1>3, ThreadStep DEF ReportEnd, Abort, Inv, TypeOK

\* A step that leaves the stack and the flags alone.
LEMMA AsideStep ==
  ASSUME Inv, UNCHANGED <<debug, stack, throwing, reporting>>,
         aborted' \in BOOLEAN, aborted' => debug,
         name' \in Views, name'.storage <= MaxRenames,
         native' \in Seq(Characters), Len(native') <= NativeLength
  PROVE  Inv'
<1>1. TypeOK'
  BY DEF Inv, TypeOK
<1>2. (StackInv /\ ThrowInv /\ ReportsExact)'
  BY DEF Inv, StackInv, ThrowInv, ReportsExact, IsReport, Top
<1> QED
  BY <1>1, <1>2 DEF Inv

LEMMA ReportNestedPreserves ==
  ASSUME Inv, ReportNested
  PROVE  Inv'
BY AsideStep DEF ReportNested, Abort, Inv, TypeOK, thread

LEMMA StutterPreserves ==
  ASSUME Inv, UNCHANGED vars
  PROVE  Inv'
BY AsideStep DEF vars, thread, Inv, TypeOK

LEMMA SetThreadNamePreserves ==
  ASSUME Inv, NEW text \in Names, SetThreadName(text)
  PROVE  Inv'
<1>1. text \in Seq(Characters)
  BY StatementsAssumption
<1>2. name' \in Views /\ name'.storage <= MaxRenames
  BY <1>1, StatementsAssumption DEF SetThreadName, Assign, Views, Inv, TypeOK
<1>3. native' \in Seq(Characters) /\ Len(native') <= NativeLength
  <2>1. PICK k \in 0 .. Len(text) : k = Min2(Len(text), NativeLength) /\ k <= NativeLength
    BY <1>1, StatementsAssumption DEF Min2
  <2>2. SubSeq(text, 1, k) \in Seq(Characters) /\ Len(SubSeq(text, 1, k)) = k
    BY <1>1
  <2> QED
    BY <2>1, <2>2 DEF SetThreadName, NativeName
<1> QED
  BY <1>2, <1>3, AsideStep DEF SetThreadName, Inv, TypeOK

LEMMA SetThreadNameEmptyPreserves ==
  ASSUME Inv, SetThreadNameEmpty
  PROVE  Inv'
<1>1. CASE UNCHANGED name
  BY <1>1, AsideStep DEF SetThreadNameEmpty, Abort, Inv, TypeOK
<1>2. CASE ~UNCHANGED name
  <2>1. PICK text \in Seq(Characters) : Assign(text)
    BY <1>2, StatementsAssumption DEF SetThreadNameEmpty, Inv, TypeOK
  <2>2. name' \in Views /\ name'.storage <= MaxRenames
    BY <2>1, StatementsAssumption DEF SetThreadNameEmpty, Assign, Views, Inv, TypeOK
  <2> QED
    BY <2>2, AsideStep DEF SetThreadNameEmpty, Abort, Inv, TypeOK
<1> QED
  BY <1>1, <1>2

LEMMA InitEstablishes ==
  ASSUME Init
  PROVE  Inv
<1>1. native \in Seq(Characters) /\ Len(native) <= NativeLength /\ <<>> \in Seq(Characters)
  BY StatementsAssumption DEF Init
<1>2. name \in Views /\ name.storage <= MaxRenames
  <2>1. 0 <= MaxRenames
    BY StatementsAssumption
  <2>2. name \in [text : {native, <<>>}, storage : {0}]
    BY DEF Init
  <2>3. name.text \in {native, <<>>} /\ name.storage = 0
    BY <2>2
  <2>4. name.text \in Seq(Characters) /\ name.storage \in Nat
    <3>1. name.text = native \/ name.text = <<>>
      BY <2>3, Zenon
    <3>2. name.text \in Seq(Characters)
      BY <1>1, <3>1, Zenon
    <3> QED
      BY <2>3, <3>2
  <2>5. name \in Views
    BY <2>2, <2>4, Zenon DEF Views
  <2> QED
    BY <2>1, <2>3, <2>5
<1>3. TypeOK
  <2>1. 0 <= MaxDepth
    BY StatementsAssumption
  <2>2. stack = <<>> /\ stack \in Seq(Frames) /\ Len(stack) = 0
    BY DEF Init
  <2>3. throwing = FALSE /\ reporting = FALSE /\ debug \in BOOLEAN /\ aborted = FALSE
    BY DEF Init
  <2> QED
    BY <1>1, <1>2, <2>1, <2>2, <2>3 DEF TypeOK
<1> QED
  BY <1>3, StatementsAssumption DEF Init, Inv, StackInv, ThrowInv, ReportsExact

-----------------------------------------------------------------------------
(* The invariant and the properties of Statements.                         *)

\* The invariant of a thread that logs and reports: its messages, its stack
\* of statements and its flag fit together, through exceptions and failures.
THEOREM Invariance == Spec => []Inv
<1>1. Init => Inv
  BY InitEstablishes
<1>2. Inv /\ [Next]_vars => Inv'
  <2> SUFFICES ASSUME Inv, [Next]_vars
               PROVE  Inv'
    OBVIOUS
  <2>1. CASE StreamBegin \/ StatementEnd \/ Throw \/ StatementUnwound
    BY <2>1, StreamBeginPreserves, StatementEndsPreserves, ThrowPreserves
  <2>2. CASE \E text \in Texts : Insert(text) \/ InsertFails(text) \/ PrintfBegin(text)
    BY <2>2, InsertPreserves, InsertFailsPreserves, PrintfBeginPreserves
  <2>3. CASE PrintfInline \/ PrintfOverflow \/ PrintfError \/ PrintfThrows \/ PrintfCut
    BY <2>3, PrintfInlinePreserves, PrintfOverflowPreserves, PrintfErrorPreserves,
       ThrowPreserves, PrintfCutPreserves
  <2>4. CASE ReportBegin \/ ReportNested \/ ReportCatches \/ ReportEnd
    BY <2>4, ReportBeginPreserves, ReportNestedPreserves, ReportCatchesPreserves,
       ReportEndPreserves
  <2>5. CASE (\E text \in Names : SetThreadName(text)) \/ SetThreadNameEmpty
    BY <2>5, SetThreadNamePreserves, SetThreadNameEmptyPreserves
  <2>6. CASE UNCHANGED vars
    BY <2>6, StutterPreserves
  <2> QED
    BY <2>1, <2>2, <2>3, <2>4, <2>5, <2>6 DEF Next
<1> QED
  BY <1>1, <1>2, PTL DEF Spec

\* Every variable keeps its type; the system's name for the thread is never
\* longer than the system allows.
THEOREM TypeCorrect == Spec => []TypeOK
<1>1. Inv => TypeOK
  BY DEF Inv
<1> QED
  BY <1>1, Invariance, PTL

\* The flag of ReportAssertionFailure is set exactly during the one report a
\* thread can be in.
THEOREM OneReport == Spec => []ReportsExact
<1>1. Inv => ReportsExact
  BY DEF Inv
<1> QED
  BY <1>1, Invariance, PTL

\* A record's message is what its statement inserted, or a prefix when memory
\* ran out, and LogPrintf's is its whole text: at every length and capacity.
THEOREM MessagesExact == Spec => MessageExact
<1>1. ASSUME Inv, StatementEnd \/ StatementUnwound
      PROVE  LET message == Buffer!view(Top.buffer)
             IN  /\ IsPrefix(message, Top.sent)
                 /\ ~Top.bad => message = Top.sent
                 /\ Top.kind = "written" => Top.sent = Top.text
  <2>1. FrameInv(Top)
    BY <1>1, TopKnown DEF StatementEnd, StatementUnwound, Submitting
  <2> QED
    BY <2>1 DEF FrameInv
<1>2. Inv /\ [Next]_vars =>
        [StatementEnd \/ StatementUnwound =>
           LET message == Buffer!view(Top.buffer)
           IN  /\ IsPrefix(message, Top.sent)
               /\ ~Top.bad => message = Top.sent
               /\ Top.kind = "written" => Top.sent = Top.text]_vars
  BY <1>1
<1> QED
  BY <1>2, Invariance, PTL DEF Spec, MessageExact
=============================================================================
