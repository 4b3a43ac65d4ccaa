----------------------------- MODULE RingBuffer -----------------------------
(***************************************************************************)
(* RingBuffer<T, Size> (pw_sys_io_mcu_driver_hal/sys_io_mdh.cc): "Ring     *)
(* buffer that overwrites old data when full".  A buffer is a record of    *)
(* its members; each operation, one critical section in the code, is an    *)
(* operator from a buffer to the buffer it leaves.                         *)
(***************************************************************************)
EXTENDS Integers, Sequences, FiniteSets

CONSTANT Stale   \* what a cell, or a destination nobody copied to, holds

Empty(size) ==
    [buffer_ |-> [i \in 0..size-1 |-> Stale], head_ |-> 0, tail_ |-> 0, full_ |-> FALSE]

Size(b) == Cardinality(DOMAIN b.buffer_)
Rings(size, T) ==
    [buffer_ : [0..size-1 -> T \cup {Stale}], head_ : 0..size-1, tail_ : 0..size-1, full_ : BOOLEAN]

empty_(b) == b.head_ = b.tail_ /\ ~b.full_
size_(b) ==
    IF b.full_ THEN Size(b)
    ELSE IF b.head_ < b.tail_ THEN Size(b) - (b.tail_ - b.head_) ELSE b.head_ - b.tail_
capacity(b) == Size(b) - size_(b)

increment(b, val, incr) == IF val + incr >= Size(b) THEN val + incr - Size(b) ELSE val + incr

\* What the buffer holds, oldest first: the queue it stands for.
Content(b) == [i \in 1..size_(b) |-> b.buffer_[(b.tail_ + i - 1) % Size(b)]]

-----------------------------------------------------------------------------
(* A definition Name_Slip, just above Name, is a plausible slip in the code *)
(* of Name: with it in Name's place the runs must report a violation.       *)

\* put(data), of one item.
PutOne(b, data) ==
    LET head == increment(b, b.head_, 1)
    IN  [buffer_ |-> [b.buffer_ EXCEPT ![b.head_] = data],
         head_   |-> head,
         tail_   |-> IF b.full_ THEN head ELSE b.tail_,
         full_   |-> b.full_ \/ head = b.tail_]

\* put(span): does this span reach the oldest item, or the last free cell?
AdjustTail_Beyond(b, src) == capacity(b) < Len(src)
AdjustTail(b, src) == capacity(b) <= Len(src)

\* put(span) of at least two items: the part to the right of head_, then the
\* rest from the start of the buffer.
PutSpan(b, src) ==
    LET right == IF b.head_ + Len(src) > Size(b) THEN Size(b) - b.head_ ELSE Len(src)
        rest  == Len(src) - right
        head  == IF rest # 0 THEN rest ELSE increment(b, b.head_, right)
    IN  IF Len(src) > Size(b)
        THEN [buffer_ |-> [i \in DOMAIN b.buffer_ |-> src[Len(src) - Size(b) + i + 1]],
              head_ |-> 0, tail_ |-> 0, full_ |-> TRUE]
        ELSE [buffer_ |-> [i \in DOMAIN b.buffer_ |->
                              IF i \in b.head_ .. (b.head_ + right - 1) THEN src[i - b.head_ + 1]
                              ELSE IF i < rest THEN src[right + i + 1]
                              ELSE b.buffer_[i]],
              head_ |-> head,
              tail_ |-> IF AdjustTail(b, src) THEN head ELSE b.tail_,
              full_ |-> b.full_ \/ AdjustTail(b, src)]

put(b, src) ==
    CASE Len(src) = 0 -> b
      [] Len(src) = 1 -> PutOne(b, src[1])
      [] OTHER -> PutSpan(b, src)

\* Does put take the branch that calls abort() under ABORT_ON_OVERFLOW?
Overflows(b, src) ==
    CASE Len(src) = 0 -> FALSE
      [] Len(src) = 1 -> b.full_
      [] OTHER -> Len(src) > Size(b) \/ AdjustTail(b, src)

-----------------------------------------------------------------------------
\* A copy out of the cells from `first` on, `n` of them, around the end.
Copied(b, first, n) == [i \in 1..n |-> b.buffer_[(first + i - 1) % Size(b)]]

\* k calls of get(data), k at most size_().
GetEach(b, k) ==
    [ring |-> [b EXCEPT !.tail_ = increment(b, b.tail_, k), !.full_ = b.full_ /\ k = 0],
     dest |-> Copied(b, b.tail_, k)]

\* get(span) of at least two items, around the end in two pieces.
TwoPieces_Restart(b, n) ==
    LET left == n - (Size(b) - b.tail_)
    IN  [i \in 1..n |-> IF i <= left THEN b.buffer_[i - 1] ELSE b.buffer_[(b.tail_ + i - 1) % Size(b)]]
TwoPieces(b, n) == Copied(b, b.tail_, n)

\* get(span) of at least two items, in one piece.  The code's copy ends at
\* buffer_ + n where buffer_ + tail_ + n is meant: the last tail_ cells of the
\* destination are not written.  When n < tail_ the copy's range is reversed, which
\* is undefined: none being written stands for whatever happens then.
OnePiece(b, n) == [i \in 1..n |-> IF i <= n - b.tail_ THEN b.buffer_[b.tail_ + i - 1] ELSE Stale]
GetSpan(b, n) ==
    IF b.tail_ + n > Size(b)
      THEN [ring |-> [b EXCEPT !.tail_ = n - (Size(b) - b.tail_), !.full_ = FALSE],
            dest |-> TwoPieces(b, n)]
      ELSE [ring |-> [b EXCEPT !.tail_ = increment(b, b.tail_, n), !.full_ = FALSE],
            dest |-> OnePiece(b, n)]

\* get(span) into a destination of `room` items.
get(b, room) ==
    LET n == IF size_(b) < room THEN size_(b) ELSE room
    IN  IF room <= 1 \/ empty_(b) THEN GetEach(b, n) ELSE GetSpan(b, n)
=============================================================================
