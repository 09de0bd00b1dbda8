---------------------------- MODULE BoundedFifo ----------------------------
(* What RingBuffer promises to its two users, a session's send_buf_ and a    *)
(* user's packet_buf_: a FIFO of bytes that holds at most Capacity of them.  *)
(* Bytes that do not fit are dropped from the END of what is put.            *)
EXTENDS Integers, Sequences

CONSTANTS Values,      \* the byte values
          Capacity,    \* the most bytes it holds
          Chunks       \* the byte sequences callers put

VARIABLES content,
          called       \* the kind of call: putting never removes a byte

FifoInit == content = <<>> /\ called = "clear"

Put(data) ==
  LET room == Capacity - Len(content)
      k    == IF Len(data) < room THEN Len(data) ELSE room
  IN /\ content' = content \o SubSeq(data, 1, k)
     /\ called' = "put"

\* Remove the n oldest bytes.
Take(n) ==
  /\ n \in 0 .. Len(content)
  /\ content' = SubSeq(content, n + 1, Len(content))
  /\ called' = "take"

Clear == content' = <<>> /\ called' = "clear"

FifoNext ==
  \/ \E data \in Chunks : Put(data)
  \/ \E n \in 0 .. Capacity : Take(n)
  \/ Clear

FifoSpec == FifoInit /\ [][FifoNext]_<<content, called>>
=============================================================================
