---------------------------- MODULE InlineBuffer ----------------------------
(***************************************************************************)
(* InlineBuffer of src/logger/buffer.h, in which the message of a log      *)
(* statement and the formatted record are built: INLINE_CAPACITY           *)
(* characters in the object itself, and a vector once they are not enough. *)
(*                                                                         *)
(* inline is what has been copied to m_inline, overflow is m_overflow and  *)
(* size is m_size.                                                         *)
(***************************************************************************)
EXTENDS Integers, Sequences

CONSTANT INLINE_CAPACITY      \* a natural number

EmptyBuffer == [inline |-> <<>>, overflow |-> <<>>, size |-> 0]

Fits(b, data) ==
    b.overflow = <<>> /\ b.size + Len(data) <= INLINE_CAPACITY

\* Variant: the inline part stays behind when the vector is begun.
SpilledAlone(b) == b.overflow

\* The vector to which data is added: the inline part, the first time.
Spilled(b) ==
    IF b.overflow = <<>> THEN SubSeq(b.inline, 1, b.size) ELSE b.overflow

append(b, data) ==
    IF data = <<>> THEN b
    ELSE IF Fits(b, data)
    THEN [b EXCEPT !.inline = SubSeq(@, 1, b.size) \o data, !.size = @ + Len(data)]
    ELSE [b EXCEPT !.overflow = Spilled(b) \o data, !.size = Len(Spilled(b)) + Len(data)]

\* append needs memory exactly when the vector may have to grow.  When there
\* is none it throws and leaves the buffer as it was.
MayThrow(b, data) == data # <<>> /\ ~Fits(b, data)

view(b) == SubSeq(IF b.overflow = <<>> THEN b.inline ELSE b.overflow, 1, b.size)
=============================================================================
