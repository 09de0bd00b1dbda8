----------------------------- MODULE RingBuffer -----------------------------
(* Network/ring_buffer.cpp: the byte ring a session sends from (send_buf_)   *)
(* and a user's packets are assembled in (packet_buf_). front_ is the oldest *)
(* byte, rear_ the next free cell, and one cell always stays empty, so that  *)
(* front_ = rear_ means empty and never full. One caller at a time: what     *)
(* happens when two threads are inside the packet ring at once is not here.  *)
(*                                                                           *)
(* An operator whose comment starts with "Slip:" is no part of the code: it  *)
(* is a plausible mistake in the definition that follows, kept to show that  *)
(* the properties notice it.                                                 *)
EXTENDS Integers, Sequences

CONSTANTS Values,    \* byte values
          size_,     \* kDEFAULT_RINGBUFFER_SIZE in the code
          Chunks     \* what callers enqueue: a set of byte sequences

ASSUME SizeAssumption == size_ \in Nat \ {0}
ASSUME ChunksAssumption == Chunks \subseteq Seq(Values)

VARIABLES p_buf_,    \* the cells
          front_,
          rear_,
          returned,  \* what the last call returned
          called     \* which kind of call it was

vars == <<p_buf_, front_, rear_, returned, called>>

Cells == 0 .. size_ - 1

\* Slip: the index runs off the end.
AdvanceWithoutWrap(index, n) == index + n

Advance(index, n) == (index + n) % size_

GetSizeInUse ==
  IF front_ > rear_ THEN size_ - (front_ - rear_) ELSE rear_ - front_

\* Slip: the spare cell is given away, and a full ring looks empty.
GetFreeSizeWithSpare == size_ - GetSizeInUse

GetFreeSize == size_ - GetSizeInUse - 1

\* Slip: leaves the last cell out when the contents wrap.
ContinuousWithoutLast ==
  IF front_ > rear_ THEN size_ - front_ - 1 ELSE rear_ - front_

\* How many bytes can be read at GetFrontBufferPtr() before the ring wraps.
\* The code's cases for an empty ring (0) and for front_ at the last cell (1)
\* are instances of these two.
GetContinuousDequeueSize ==
  IF front_ > rear_ THEN size_ - front_ ELSE rear_ - front_

\* The bytes between front_ and rear_, oldest first.
Contents == [i \in 1 .. GetSizeInUse |-> p_buf_[Advance(front_, i - 1)]]

\* Session::SetWsaBuf: the bytes of the one or two buffers given to WSASend,
\* the first at GetFrontBufferPtr(), the second at the start of the ring.
WsaBufs ==
  LET first == GetContinuousDequeueSize
      rest  == GetSizeInUse - first
  IN [i \in 1 .. first |-> p_buf_[front_ + i - 1]] \o
     [i \in 1 .. rest |-> p_buf_[i - 1]]

Least(m, n) == IF m < n THEN m ELSE n

-----------------------------------------------------------------------------
\* new char[size]: the cells hold anything.
Init ==
  /\ p_buf_ \in [Cells -> Values]
  /\ front_ = 0
  /\ rear_ = 0
  /\ returned = 0
  /\ called = "clear"

\* Copies byte by byte until data ends or the ring is full. What it returns
\* is the distance rear_ moved, which is negative when rear_ wrapped.
Enqueue(data) ==
  LET k == Least(Len(data), GetFreeSize)
  IN /\ p_buf_' = [c \in Cells |->
                     LET i == (c - rear_) % size_
                     IN IF i < k THEN data[i + 1] ELSE p_buf_[c]]
     /\ rear_' = Advance(rear_, k)
     /\ returned' = rear_' - rear_
     /\ called' = "put"
     /\ UNCHANGED front_

Dequeue(len) ==
  LET k == Least(len, GetSizeInUse)
  IN /\ front_' = Advance(front_, k)
     /\ returned' = front_' - front_
     /\ called' = "take"
     /\ UNCHANGED <<p_buf_, rear_>>

\* Copies without moving front_, and returns a true count.
Peek(len) ==
  /\ returned' = Least(len, GetSizeInUse)
  /\ called' = "take"
  /\ UNCHANGED <<p_buf_, front_, rear_>>

\* The callers move over bytes that are there: User::CompleteProcess over a
\* packet GetPacketData found whole, BindSend over what WSASend has sent.
MoveFront(size) ==
  /\ size <= GetSizeInUse
  /\ front_' = Advance(front_, size)
  /\ called' = "take"
  /\ UNCHANGED <<p_buf_, rear_, returned>>

ClearBuffer ==
  /\ front_' = 0
  /\ rear_' = 0
  /\ called' = "clear"
  /\ UNCHANGED <<p_buf_, returned>>

Next ==
  \/ \E data \in Chunks : Enqueue(data)
  \/ \E len \in Cells : Dequeue(len)
  \/ \E len \in Cells : Peek(len)
  \/ \E size \in Cells : MoveFront(size)
  \/ ClearBuffer

Spec == Init /\ [][Next]_vars

-----------------------------------------------------------------------------
\* The indices stay inside the buffer and the cells hold bytes.
TypeOK ==
  /\ p_buf_ \in [Cells -> Values]
  /\ front_ \in Cells
  /\ rear_ \in Cells
  /\ returned \in -size_ .. size_
  /\ called \in {"put", "take", "clear"}

\* Wherever the indices are, also when the contents wrap around the end, the
\* buffers Session::SetWsaBuf builds (session.cpp:142-152) hold exactly the
\* bytes in the ring, in order: what WSASend is given is what was enqueued.
SendBuffersAreContents == WsaBufs = Contents

\* The ring is a bounded FIFO of size_ - 1 bytes: no sequence of calls loses,
\* duplicates or reorders a byte that was accepted, and what does not fit is
\* cut off the end of the call that brings it (ring_buffer.cpp:58-114).
Fifo == INSTANCE BoundedFifo WITH Capacity <- size_ - 1, content <- Contents
RingIsFifo == Fifo!FifoSpec

\* Session::EnqueueSendData hands on "the size that Enqueue succeeded for"
\* (comment at session.cpp:193), User::EnqueuePacketData compares it with len.
EnqueueReturnsCount ==
  [][\A data \in Chunks :
       Enqueue(data) => returned' = GetSizeInUse' - GetSizeInUse]_vars
=============================================================================
