--------------------------- MODULE UserStream_proofs ---------------------------
(* What holds of one user's packet_buf_ for a ring of any size and a client  *)
(* that sends any packets that fit: the packet thread gets them whole and in *)
(* order although it shares no lock with the worker that brings the bytes.   *)
EXTENDS UserStream, SequenceTheorems, TLAPS

-----------------------------------------------------------------------------
(* The invariant.                                                            *)

\* The worker is never past the bytes it was given.
CopiesWhatCame ==
  /\ src <= received + 1
  /\ wpc = "move_rear" => src <= received

\* A header has been read before its packet is looked at.
HeaderRead == ppc \in {"compare", "size", "handle"} => header \in DOMAIN Packets

StreamTypes == TypeOK /\ CopiesWhatCame /\ HeaderRead

\* As long as no byte came too early, there is nothing in the buffer when CONNECT
\* clears it.
ClearedEarly ==
  ~early =>
  /\ ~connected => ppc \in {"idle", "clear_rear"}
  /\ ~connected \/ ppc = "clear_rear" =>
       /\ received = 0 /\ src = 1 /\ wpc = "idle" /\ indices = 0 /\ served = <<>>
       /\ front_ = 0 /\ rear_ = 0

\* How many packets have left the ring, where in the stream the next one
\* begins, and how many bytes of it and what follows are in the ring.
Taken == IF ppc = "handle" THEN Len(served) - 1 ELSE Len(served)
Position == First[Taken + 1]
Held == src - Position

\* The ring holds the bytes between the packets that are done with and the
\* next byte to come; a byte that is written but not yet counted in rear_ lies
\* behind them.
RingHoldsStream ==
  /\ Held \in Cells
  /\ rear_ = Advance(front_, Held)
  /\ \A i \in 0 .. Held - 1 : p_buf_[Advance(front_, i)] = Position + i
  /\ wpc = "move_rear" =>
       at = rear_ /\ p_buf_[rear_] = src /\ Held < size_ - 1

\* What the packet thread knows of the packet at front_.
PacketAtFront ==
  /\ ppc # "astray"
  /\ \A i \in 1 .. Len(served) : served[i] = i
  /\ ppc \in {"compare", "size"} => header = Len(served) + 1 /\ Held >= HeaderLen
  /\ ppc = "size" /\ less => front_ > rear_
  /\ ppc = "handle" => /\ Len(served) # 0 /\ header = Len(served)
                       /\ Held >= Packets[header]

StreamInv ==
  /\ StreamTypes
  /\ ClearedEarly
  /\ ~cut /\ ~early => RingHoldsStream /\ PacketAtFront

-----------------------------------------------------------------------------
(* The ring's arithmetic.                                                    *)

LEMMA Advancing ==
  ASSUME NEW x \in Cells, NEW n \in 0 .. size_
  PROVE  /\ Advance(x, n) \in Cells
         /\ Advance(x, n) = IF x + n < size_ THEN x + n ELSE x + n - size_
<1>1. size_ \in Nat /\ size_ > 0 /\ x \in 0 .. size_ - 1
  BY StreamAssumption DEF Cells
<1>2. CASE x + n < size_
  <2>1. (x + n) % size_ = x + n
    BY <1>1, <1>2
  <2> QED BY <1>1, <1>2, <2>1 DEF Advance, Cells
<1>3. CASE x + n >= size_
  <2>1. CASE n = size_ /\ x + n >= 2 * size_
    BY <1>1, <2>1
  <2>2. (x + n) % size_ = x + n - size_
    BY <1>1, <1>3
  <2> QED BY <1>1, <1>3, <2>2 DEF Advance, Cells
<1> QED BY <1>1, <1>2, <1>3

\* Different distances from a cell are different cells.
LEMMA Apart ==
  ASSUME NEW x \in Cells, NEW m \in Cells, NEW n \in Cells, m # n
  PROVE  Advance(x, m) # Advance(x, n)
<1>1. size_ \in Nat /\ x \in 0 .. size_ - 1 /\ m \in 0 .. size_ - 1 /\ n \in 0 .. size_ - 1
  BY StreamAssumption DEF Cells
<1>2. /\ Advance(x, m) = IF x + m < size_ THEN x + m ELSE x + m - size_
      /\ Advance(x, n) = IF x + n < size_ THEN x + n ELSE x + n - size_
  BY <1>1, Advancing
<1> QED BY <1>1, <1>2

\* Two advances are one.
LEMMA Onward ==
  ASSUME NEW x \in Cells, NEW m \in Cells, NEW n \in 0 .. size_, m + n <= size_
  PROVE  Advance(Advance(x, m), n) = Advance(x, m + n)
<1>1. /\ size_ \in Nat /\ x \in 0 .. size_ - 1 /\ m \in 0 .. size_ - 1
      /\ m \in 0 .. size_ /\ m + n \in 0 .. size_
  BY StreamAssumption DEF Cells
<1>2. PICK y \in Cells : /\ y = Advance(x, m)
                         /\ y = IF x + m < size_ THEN x + m ELSE x + m - size_
  BY <1>1, Advancing
<1>3. Advance(y, n) = IF y + n < size_ THEN y + n ELSE y + n - size_
  BY Advancing
<1>4. Advance(x, m + n) = IF x + (m + n) < size_ THEN x + (m + n) ELSE x + (m + n) - size_
  BY <1>1, Advancing
<1>5. y \in 0 .. size_ - 1
  BY DEF Cells
<1>6. Advance(y, n) = Advance(x, m + n)
  BY <1>1, <1>2, <1>3, <1>4, <1>5
<1> QED BY <1>2, <1>6

\* How far a cell is ahead of another, as both size computations find it.
LEMMA Distance ==
  ASSUME NEW x \in Cells, NEW n \in Cells, NEW y, y = Advance(x, n)
  PROVE  /\ (y - x) % size_ = n
         /\ x > y => n = size_ - (x - y)
         /\ x <= y => n = y - x
<1>1. size_ \in Nat /\ x \in 0 .. size_ - 1 /\ n \in 0 .. size_ - 1 /\ n \in 0 .. size_
  BY StreamAssumption DEF Cells
<1>2. y = IF x + n < size_ THEN x + n ELSE x + n - size_
  BY <1>1, Advancing
<1>3. CASE x + n < size_
  <2>1. y - x = n /\ n % size_ = n
    BY <1>1, <1>2, <1>3
  <2> QED BY <1>1, <1>2, <1>3, <2>1
<1>4. CASE x + n >= size_
  <2>1. y - x = n - size_ /\ (n - size_) % size_ = n
    BY <1>1, <1>2, <1>4
  <2> QED BY <1>1, <1>2, <1>4, <2>1
<1> QED BY <1>1, <1>3, <1>4

\* A ring is full when one cell is left.
LEMMA FullIs ==
  ASSUME NEW x \in Cells, NEW n \in Cells
  PROVE  Advance(Advance(x, n), 1) = x <=> n = size_ - 1
<1>1. size_ \in Nat /\ size_ > 0 /\ x \in 0 .. size_ - 1 /\ n \in 0 .. size_ - 1
      /\ 1 \in 0 .. size_ /\ n + 1 \in 0 .. size_
  BY StreamAssumption DEF Cells
<1>2. Advance(Advance(x, n), 1) = Advance(x, n + 1)
  BY <1>1, Onward
<1>3. Advance(x, n + 1) = IF x + (n + 1) < size_ THEN x + (n + 1) ELSE x + (n + 1) - size_
  BY <1>1, Advancing
<1> QED BY <1>1, <1>2, <1>3

-----------------------------------------------------------------------------
(* The client's stream.                                                      *)

LEMMA PacketSizes ==
  /\ size_ \in Nat /\ size_ > 0 /\ HeaderLen \in Nat /\ HeaderLen > 0
  /\ Len(First) \in Nat /\ Len(First) >= 1 /\ First[1] = 1
  /\ DOMAIN Packets = 1 .. Len(First) - 1
  /\ \A k \in DOMAIN Packets : /\ Packets[k] = First[k + 1] - First[k]
                               /\ Packets[k] \in Nat /\ Packets[k] >= HeaderLen
                               /\ Packets[k] <= size_ - 1 /\ Packets[k] \in Cells
  /\ \A k \in 1 .. Len(First) : First[k] \in Nat /\ First[k] >= 1 /\ First[k] <= Total + 1
  /\ Total \in Nat
<1>1. /\ size_ \in Nat /\ size_ > 0 /\ HeaderLen \in Nat /\ HeaderLen > 0
      /\ First \in Seq(Nat) /\ First # <<>> /\ First[1] = 1
  BY StreamAssumption
<1>2. Len(First) \in Nat /\ Len(First) >= 1
  BY <1>1, EmptySeq
<1>3. DOMAIN Packets = 1 .. Len(First) - 1
  BY DEF Packets
<1>4. \A k \in 1 .. Len(First) : First[k] \in Nat
  BY <1>1, ElementOfSeq
<1>5. ASSUME NEW k \in DOMAIN Packets
      PROVE  /\ Packets[k] = First[k + 1] - First[k]
             /\ Packets[k] \in Nat /\ Packets[k] >= HeaderLen
             /\ Packets[k] <= size_ - 1 /\ Packets[k] \in Cells
  <2>1. k \in 1 .. Len(First) - 1
    BY <1>3
  <2>2. Packets[k] = First[k + 1] - First[k]
    BY <2>1 DEF Packets
  <2>3. Packets[k] \in HeaderLen .. size_ - 1
    BY <2>1, <2>2, StreamAssumption
  <2> QED BY <1>1, <2>2, <2>3 DEF Cells
<1>6. ASSUME NEW j \in 1 .. Len(First), NEW k \in 1 .. Len(First), j < k
      PROVE  First[j] < First[k]
  BY <1>6, StreamAssumption
<1>7. ASSUME NEW k \in 1 .. Len(First)
      PROVE  First[k] >= 1 /\ First[k] <= First[Len(First)]
  <2>1. 1 \in 1 .. Len(First) /\ Len(First) \in 1 .. Len(First)
    BY <1>2
  <2>2. First[k] \in Nat /\ First[1] \in Nat /\ First[Len(First)] \in Nat
    BY <1>4, <2>1
  <2>3. First[k] >= 1
    <3>1. CASE k = 1
      BY <3>1, <1>1
    <3>2. CASE k # 1
      <4>1. 1 < k
        BY <3>2, <1>2
      <4> QED BY <4>1, <2>1, <2>2, <1>1, <1>6
    <3> QED BY <3>1, <3>2
  <2>4. First[k] <= First[Len(First)]
    <3>1. CASE k = Len(First)
      BY <3>1, <2>2
    <3>2. CASE k # Len(First)
      <4>1. k < Len(First)
        BY <3>2, <1>2
      <4> QED BY <4>1, <2>1, <2>2, <1>6
    <3> QED BY <3>1, <3>2
  <2> QED BY <2>3, <2>4
<1>8. Total \in Nat /\ \A k \in 1 .. Len(First) : First[k] <= Total + 1
  <2>1. Len(First) \in 1 .. Len(First)
    BY <1>2
  <2>2. First[Len(First)] \in Nat /\ First[Len(First)] >= 1
    BY <1>4, <1>7, <2>1
  <2> QED BY <1>4, <1>7, <2>2 DEF Total
<1> QED BY <1>1, <1>2, <1>3, <1>4, <1>5, <1>7, <1>8

\* Two packets never begin at the same byte.
LEMMA BeginApart ==
  ASSUME NEW j \in 1 .. Len(First), NEW k \in 1 .. Len(First), First[j] = First[k]
  PROVE  j = k
<1>1. First[j] \in Nat /\ First[k] \in Nat /\ Len(First) \in Nat
  BY PacketSizes
<1>2. j < k => First[j] < First[k]
  BY StreamAssumption
<1>3. k < j => First[k] < First[j]
  BY StreamAssumption
<1> QED BY <1>1, <1>2, <1>3

-----------------------------------------------------------------------------
(* Types.                                                                    *)

LEMMA TypeFacts ==
  ASSUME TypeOK
  PROVE  /\ src \in Nat /\ src >= 1 /\ src <= Total + 1 /\ received \in Nat
         /\ received <= Total /\ front_ \in Cells /\ rear_ \in Cells /\ at \in Cells
         /\ front_ \in Int /\ rear_ \in Int /\ indices \in Nat
         /\ served \in Seq(DOMAIN Packets) /\ Len(served) \in Nat
<1>1. src \in 1 .. Total + 1 /\ received \in 0 .. Total
  BY DEF TypeOK
<1>2. front_ \in Cells /\ rear_ \in Cells /\ at \in Cells /\ indices \in Nat
      /\ served \in Seq(DOMAIN Packets)
  BY DEF TypeOK
<1>3. Len(served) \in Nat
  BY <1>2, LenProperties
<1> QED BY <1>1, <1>2, <1>3, PacketSizes DEF Cells

LEMMA WorkerTypes ==
  ASSUME StreamTypes, Worker
  PROVE  StreamTypes'
<1>1. /\ src \in Nat /\ src >= 1 /\ src <= Total + 1 /\ received \in Nat
      /\ received <= Total /\ src <= received + 1 /\ Total \in Nat
      /\ rear_ \in Cells /\ at \in Cells
  BY TypeFacts, PacketSizes DEF StreamTypes, CopiesWhatCame
<1>2. UNCHANGED <<front_, packet, connected>>
  BY DEF Worker, OnRecv, FreeSize, CopyByte, Enqueued, PushUserIndex, ring
<1>3. HeaderRead'
  BY <1>2 DEF StreamTypes, HeaderRead, packet
<1>4. ASSUME /\ p_buf_' \in [Cells -> 0 .. Total] /\ rear_' \in Cells /\ at' \in Cells
             /\ wpc' \in {"idle", "free_size", "copy", "move_rear", "push"}
             /\ received' \in 0 .. Total /\ src' \in 1 .. Total + 1
             /\ cut' \in BOOLEAN /\ indices' \in Nat /\ early' \in BOOLEAN
             /\ CopiesWhatCame'
      PROVE  StreamTypes'
  BY <1>2, <1>3, <1>4 DEF StreamTypes, TypeOK, packet
<1>5. CASE OnRecv
  <2>1. /\ received' \in Nat /\ received' <= Total /\ received' > received
        /\ wpc' = "free_size" /\ UNCHANGED <<ring, src, at, cut, indices>>
    BY <1>1, <1>5 DEF OnRecv
  <2>0. received' \in Nat /\ received' > received
    BY <2>1
  <2>2. src <= received' + 1
    <3>1. src \in Nat /\ received \in Nat /\ src <= received + 1
      BY <1>1
    <3>2. \A n \in Nat : n > received => src <= n + 1
      BY <3>1
    <3> QED BY <2>0, <3>2
  <2>3. CopiesWhatCame'
    BY <2>1, <2>2 DEF CopiesWhatCame
  <2>4. early' \in BOOLEAN
    BY <1>5 DEF OnRecv, StreamTypes, TypeOK
  <2> QED BY <1>4, <2>1, <2>3, <2>4 DEF StreamTypes, TypeOK, ring
<1>6. ASSUME Drop, UNCHANGED <<ring, received, at, indices, early>>
      PROVE  StreamTypes'
  <2>1. /\ src' = received + 1 /\ wpc' = "push" /\ received' = received
        /\ cut' \in BOOLEAN
    BY <1>6 DEF Drop, StreamTypes, TypeOK
  <2>2. CopiesWhatCame' /\ src' \in 1 .. Total + 1
    BY <1>1, <2>1 DEF CopiesWhatCame
  <2> QED BY <1>4, <1>6, <2>1, <2>2 DEF StreamTypes, TypeOK, ring
<1>7. CASE FreeSize
  <2>1. CASE Drop
    BY <1>6, <1>7, <2>1 DEF FreeSize
  <2>2. CASE wpc' = "copy" /\ UNCHANGED <<src, cut>>
    <3>1. UNCHANGED <<ring, received, at, indices, early>>
      BY <1>7 DEF FreeSize
    <3>2. CopiesWhatCame'
      BY <1>1, <2>2, <3>1 DEF CopiesWhatCame
    <3> QED BY <1>4, <2>2, <3>1, <3>2 DEF StreamTypes, TypeOK, ring
  <2> QED BY <1>7, <2>1, <2>2 DEF FreeSize
<1>8. CASE CopyByte /\ wpc = "copy"
  <2>1. /\ p_buf_' = [p_buf_ EXCEPT ![rear_] = src] /\ at' = rear_
        /\ wpc' = "move_rear" /\ src <= received
        /\ UNCHANGED <<rear_, src, received, cut, indices, early>>
    BY <1>8 DEF CopyByte, CopyThenMoveRear
  <2>2. src \in 0 .. Total
    BY <1>1, <2>1
  <2>3. p_buf_' \in [Cells -> 0 .. Total]
    BY <2>1, <2>2 DEF StreamTypes, TypeOK
  <2>4. CopiesWhatCame'
    BY <1>1, <2>1 DEF CopiesWhatCame
  <2> QED BY <1>4, <2>1, <2>3, <2>4 DEF StreamTypes, TypeOK
<1>9. CASE CopyByte /\ wpc # "copy"
  <2>1. /\ wpc = "move_rear" /\ rear_' = Advance(at, 1) /\ src' = src + 1 /\ wpc' = "copy"
        /\ UNCHANGED <<p_buf_, at, received, cut, indices, early>>
    BY <1>9 DEF CopyByte, CopyThenMoveRear
  <2>2. src <= received
    BY <2>1 DEF StreamTypes, CopiesWhatCame
  <2>3. src' \in 1 .. Total + 1 /\ CopiesWhatCame'
    BY <1>1, <2>1, <2>2 DEF CopiesWhatCame
  <2>4. 1 \in 0 .. size_
    BY PacketSizes
  <2>5. rear_' \in Cells
    BY <1>1, <2>1, <2>4, Advancing
  <2> QED BY <1>4, <2>1, <2>3, <2>5 DEF StreamTypes, TypeOK
<1>10. CASE Enqueued
  BY <1>6, <1>10 DEF Enqueued
<1>11. CASE PushUserIndex
  <2>1. /\ wpc' = "idle" /\ indices' = indices + 1
        /\ UNCHANGED <<ring, received, src, at, cut, early>>
    BY <1>11 DEF PushUserIndex
  <2>2. CopiesWhatCame' /\ indices' \in Nat
    BY <1>1, <2>1, TypeFacts DEF CopiesWhatCame, StreamTypes
  <2> QED BY <1>4, <2>1, <2>2 DEF StreamTypes, TypeOK, ring
<1> QED BY <1>5, <1>7, <1>8, <1>9, <1>10, <1>11 DEF Worker

LEMMA PacketTypes ==
  ASSUME StreamTypes, PacketThread
  PROVE  StreamTypes'
<1>1. UNCHANGED <<p_buf_, worker, early>>
  BY DEF PacketThread, PopUserIndex, PeekHeader, Compare, GetPacketData, MoveFront,
         CompleteProcess, ClearBuffer, ring
<1>2. CopiesWhatCame'
  BY <1>1 DEF StreamTypes, CopiesWhatCame, worker
<1>3. ASSUME /\ front_' \in Cells /\ rear_' \in Cells /\ indices' \in Nat
             /\ less' \in BOOLEAN /\ connected' \in BOOLEAN
             /\ ppc' \in {"idle", "peek", "compare", "size", "handle", "compare_rest",
                          "rest", "clear_rear", "astray"}
             /\ header' \in 0 .. Len(First) - 1 /\ served' \in Seq(DOMAIN Packets)
             /\ HeaderRead'
      PROVE  StreamTypes'
  BY <1>1, <1>2, <1>3 DEF StreamTypes, TypeOK, worker
<1>4. CASE PopUserIndex
  <2>1. indices' \in Nat
    BY <1>4, TypeFacts DEF PopUserIndex, StreamTypes
  <2> QED BY <1>3, <1>4, <2>1 DEF PopUserIndex, Step, HeaderRead, StreamTypes, TypeOK, ring
<1>5. CASE PeekHeader
  <2>1. UNCHANGED <<front_, rear_, indices, less, served, connected>>
    BY <1>5 DEF PeekHeader, ring
  <2>2. \/ ppc' \in {"idle", "astray"} /\ header' = header
        \/ ppc' = "compare" /\ header' \in DOMAIN Packets
    BY <1>5 DEF PeekHeader
  <2>3. DOMAIN Packets \subseteq 0 .. Len(First) - 1
    BY PacketSizes
  <2> QED BY <1>3, <2>1, <2>2, <2>3 DEF HeaderRead, StreamTypes, TypeOK
<1>6. CASE Compare("compare", "size") \/ Compare("compare_rest", "rest")
  <2>1. less' \in BOOLEAN
    <3>1. (front_ > rear_) \in BOOLEAN
      BY TypeFacts DEF StreamTypes
    <3> QED BY <1>6, <3>1 DEF Compare
  <2> QED BY <1>3, <1>6, <2>1 DEF Compare, Step, HeaderRead, StreamTypes, TypeOK, ring
<1>7. CASE GetPacketData
  <2>1. header \in DOMAIN Packets
    BY <1>7 DEF GetPacketData, StreamTypes, HeaderRead
  <2>2. Append(served, header) \in Seq(DOMAIN Packets)
    BY <2>1, TypeFacts, AppendProperties DEF StreamTypes
  <2> QED BY <1>3, <1>7, <2>1, <2>2 DEF GetPacketData, HeaderRead, StreamTypes, TypeOK, ring
<1>8. CASE MoveFront
  <2>1. Packets[header] \in 0 .. size_
    BY <1>8, PacketSizes DEF MoveFront, Step, StreamTypes, HeaderRead
  <2>2. front_' \in Cells
    BY <1>8, <2>1, TypeFacts, Advancing DEF MoveFront, StreamTypes
  <2> QED BY <1>3, <1>8, <2>2 DEF MoveFront, Step, HeaderRead, StreamTypes, TypeOK
<1>9. CASE CompleteProcess
  <2>1. indices' \in Nat
    BY <1>9, TypeFacts DEF CompleteProcess, ListedAgain, StreamTypes
  <2> QED BY <1>3, <1>9, <2>1 DEF CompleteProcess, Step, HeaderRead, StreamTypes, TypeOK, ring
<1>10. CASE ClearBuffer
  <2>1. 0 \in Cells
    BY PacketSizes DEF Cells
  <2> QED BY <1>3, <1>10, <2>1 DEF ClearBuffer, Step, HeaderRead, StreamTypes, TypeOK
<1> QED BY <1>4, <1>5, <1>6, <1>7, <1>8, <1>9, <1>10 DEF PacketThread

-----------------------------------------------------------------------------
(* The buffer is cleared before the first byte.                              *)

LEMMA ClearedStep ==
  ASSUME StreamTypes, ClearedEarly, Next
  PROVE  ClearedEarly'
<1>1. CASE OnRecv
  BY <1>1 DEF OnRecv, ClearedEarly, packet
<1>2. CASE FreeSize \/ CopyByte \/ Enqueued \/ PushUserIndex
  <2>1. wpc # "idle"
    BY <1>2 DEF FreeSize, CopyByte, CopyThenMoveRear, Enqueued, PushUserIndex
  <2>2. UNCHANGED <<packet, connected, early>>
    BY <1>2 DEF FreeSize, CopyByte, Enqueued, PushUserIndex
  <2> QED BY <2>1, <2>2 DEF ClearedEarly, packet
<1>3. CASE PopUserIndex
  <2>1. indices > 0 /\ ppc = "idle" /\ ppc' = "peek" /\ UNCHANGED <<connected, early>>
    BY <1>3 DEF PopUserIndex, Step
  <2>2. ~early => connected
    BY <2>1 DEF ClearedEarly
  <2> QED BY <2>1, <2>2 DEF ClearedEarly
<1>4. CASE \/ PeekHeader \/ Compare("compare", "size") \/ GetPacketData \/ MoveFront
           \/ Compare("compare_rest", "rest") \/ CompleteProcess
  <2>1. ppc \notin {"idle", "clear_rear"} /\ ppc' # "clear_rear"
        /\ UNCHANGED <<connected, early>>
    BY <1>4 DEF PeekHeader, Compare, GetPacketData, MoveFront, CompleteProcess, Step
  <2> QED BY <2>1 DEF ClearedEarly
<1>5. CASE ClearBuffer
  BY <1>5 DEF ClearBuffer, Step, ClearedEarly, worker
<1> QED BY <1>1, <1>2, <1>3, <1>4, <1>5 DEF Next, Worker, PacketThread

-----------------------------------------------------------------------------
(* What is in the ring.                                                      *)

\* The stream is in step: nothing was cut off and nothing is out of place.
InStep == StreamTypes /\ RingHoldsStream /\ PacketAtFront

LEMMA Where ==
  ASSUME InStep
  PROVE  /\ Len(served) \in Nat /\ Len(served) <= Len(First) - 1
         /\ Taken \in Nat /\ Taken <= Len(served) /\ Taken + 1 \in 1 .. Len(First)
         /\ Position \in Nat /\ Position >= 1 /\ Position <= Total + 1
         /\ Held \in Nat /\ Held < size_ /\ Held \in Cells /\ src = Position + Held
<1>1. Len(served) \in Nat /\ served \in Seq(DOMAIN Packets) /\ src \in Nat
  BY TypeFacts DEF InStep, StreamTypes
<1>2. DOMAIN Packets = 1 .. Len(First) - 1 /\ Len(First) \in Nat /\ Len(First) >= 1
      /\ size_ \in Nat
  BY PacketSizes
<1>3. Len(served) <= Len(First) - 1
  <2>1. CASE Len(served) = 0
    BY <1>2, <2>1
  <2>2. CASE Len(served) # 0
    <3>1. Len(served) \in 1 .. Len(served)
      BY <1>1, <2>2
    <3>2. served[Len(served)] = Len(served)
      BY <3>1 DEF InStep, PacketAtFront
    <3>3. served[Len(served)] \in DOMAIN Packets
      BY <1>1, <3>1, ElementOfSeq
    <3> QED BY <1>1, <1>2, <3>2, <3>3
  <2> QED BY <2>1, <2>2
<1>4. Taken \in Nat /\ Taken <= Len(served)
  <2>1. CASE ppc = "handle"
    <3>1. Len(served) # 0
      BY <2>1 DEF InStep, PacketAtFront
    <3> QED BY <1>1, <2>1, <3>1 DEF Taken
  <2>2. CASE ppc # "handle"
    BY <1>1, <2>2 DEF Taken
  <2> QED BY <2>1, <2>2
<1>5. Taken + 1 \in 1 .. Len(First)
  BY <1>1, <1>2, <1>3, <1>4
<1>6. Position \in Nat /\ Position >= 1 /\ Position <= Total + 1
  BY <1>5, PacketSizes DEF Position
<1>7. Held \in Cells /\ Held \in Nat /\ Held < size_
  BY <1>2 DEF InStep, RingHoldsStream, Cells
<1>8. src = Position + Held
  BY <1>1, <1>6 DEF Held
<1> QED BY <1>1, <1>3, <1>4, <1>5, <1>6, <1>7, <1>8

\* A step that leaves the ring alone.
LEMMA RingSame ==
  ASSUME InStep, UNCHANGED ring, src' = src, Taken' = Taken,
         wpc' = "move_rear" => wpc = "move_rear" /\ at' = at
  PROVE  RingHoldsStream' /\ Held' = Held
<1>1. Position' = Position
  BY DEF Position
<1>2. Held' = Held
  BY <1>1 DEF Held
<1>3. p_buf_' = p_buf_ /\ front_' = front_ /\ rear_' = rear_
  BY DEF ring
<1> QED BY <1>1, <1>2, <1>3 DEF InStep, RingHoldsStream, Advance

\* Neither does the packet thread's knowledge of it change.
LEMMA FrontSame ==
  ASSUME InStep, UNCHANGED packet, front_' = front_, Held' \in Nat, Held <= Held',
         ppc = "size" /\ less => front_ > rear_'
  PROVE  PacketAtFront'
<1>1. UNCHANGED <<ppc, header, less, served>>
  BY DEF packet
<1>2. Held \in Nat
  BY Where
<1>3. ASSUME ppc \in {"compare", "size"}
      PROVE  header = Len(served) + 1 /\ Held' >= HeaderLen
  <2>1. header = Len(served) + 1 /\ Held >= HeaderLen /\ HeaderLen \in Nat
    BY <1>3, PacketSizes DEF InStep, PacketAtFront
  <2> QED BY <1>2, <2>1
<1>4. ASSUME ppc = "handle"
      PROVE  Len(served) # 0 /\ header = Len(served) /\ Held' >= Packets[header]
  <2>1. Len(served) # 0 /\ header = Len(served) /\ Held >= Packets[header]
    BY <1>4 DEF InStep, PacketAtFront
  <2>2. Packets[header] \in Nat
    BY <1>4, PacketSizes DEF InStep, StreamTypes, HeaderRead
  <2> QED BY <1>2, <2>1, <2>2
<1> QED BY <1>1, <1>3, <1>4 DEF InStep, PacketAtFront

LEMMA WorkerInStep ==
  ASSUME InStep, Worker, ~cut, ~cut'
  PROVE  RingHoldsStream' /\ PacketAtFront'
<1>1. UNCHANGED packet /\ front_' = front_ /\ Taken' = Taken
  BY DEF Worker, OnRecv, FreeSize, CopyByte, Enqueued, PushUserIndex, ring, packet, Taken
<1>2. ASSUME UNCHANGED ring, src' = src, wpc' # "move_rear"
      PROVE  RingHoldsStream' /\ PacketAtFront'
  <2>1. RingHoldsStream' /\ Held' = Held
    BY <1>1, <1>2, RingSame
  <2>2. Held \in Nat /\ rear_' = rear_
    BY <1>2, Where DEF ring
  <2>3. Held <= Held'
    BY <2>1, <2>2
  <2>4. ppc = "size" /\ less => front_ > rear_'
    BY <2>2 DEF InStep, PacketAtFront
  <2> QED BY <1>1, <2>1, <2>2, <2>3, <2>4, FrontSame
<1>3. ASSUME Drop
      PROVE  src' = src /\ wpc' # "move_rear"
  <2>1. src' = received + 1 /\ ~(src <= received) /\ wpc' = "push"
    BY <1>3 DEF Drop
  <2>2. src \in Nat /\ received \in Nat /\ src <= received + 1
    BY TypeFacts DEF InStep, StreamTypes, CopiesWhatCame
  <2>3. src = received + 1
    BY <2>1, <2>2
  <2> QED BY <2>1, <2>3
<1>4. CASE OnRecv \/ PushUserIndex
  BY <1>2, <1>4 DEF OnRecv, PushUserIndex
<1>5. CASE FreeSize
  BY <1>2, <1>3, <1>5 DEF FreeSize
<1>6. CASE Enqueued
  BY <1>2, <1>3, <1>6 DEF Enqueued
<1>7. CASE CopyByte /\ wpc = "copy"
  <2>1. /\ p_buf_' = [p_buf_ EXCEPT ![rear_] = src] /\ at' = rear_ /\ rear_' = rear_
        /\ src' = src /\ ~Full
    BY <1>7 DEF CopyByte, CopyThenMoveRear
  <2>2. /\ front_ \in Cells /\ rear_ \in Cells /\ rear_ = Advance(front_, Held)
        /\ Held \in Cells /\ Held \in Nat /\ Held < size_ /\ size_ \in Nat
    BY TypeFacts, Where, PacketSizes DEF InStep, StreamTypes, RingHoldsStream
  <2>3. Held # size_ - 1
    BY <2>1, <2>2, FullIs DEF Full
  <2>4. Position' = Position /\ Held' = Held
    BY <1>1, <2>1 DEF Position, Held
  <2>5. ASSUME NEW i \in 0 .. Held - 1
        PROVE  p_buf_'[Advance(front_, i)] = Position + i
    <3>1. i \in Cells /\ i # Held /\ i \in 0 .. size_
      BY <2>2 DEF Cells
    <3>2. Advance(front_, i) # rear_ /\ Advance(front_, i) \in Cells
      BY <2>2, <3>1, Apart, Advancing
    <3>3. p_buf_[Advance(front_, i)] = Position + i
      BY DEF InStep, RingHoldsStream
    <3> QED BY <2>1, <3>2, <3>3 DEF InStep, StreamTypes, TypeOK
  <2>6. p_buf_'[rear_] = src
    BY <2>1, <2>2 DEF InStep, StreamTypes, TypeOK
  <2>7. RingHoldsStream'
    <3>1. Held < size_ - 1
      BY <2>2, <2>3
    <3>3. rear_' = Advance(front_', Held')
      BY <1>1, <2>1, <2>2, <2>4 DEF Advance
    <3>4. \A i \in 0 .. Held' - 1 : p_buf_'[Advance(front_', i)] = Position' + i
      BY <1>1, <2>4, <2>5
    <3> QED BY <2>1, <2>2, <2>4, <2>6, <3>1, <3>3, <3>4 DEF RingHoldsStream
  <2>8. ppc = "size" /\ less => front_ > rear_'
    BY <2>1 DEF InStep, PacketAtFront
  <2>9. Held' \in Nat /\ Held <= Held'
    BY <2>2, <2>4
  <2> QED BY <1>1, <2>7, <2>8, <2>9, FrontSame
<1>8. CASE CopyByte /\ wpc # "copy"
  <2>1. /\ wpc = "move_rear" /\ rear_' = Advance(at, 1) /\ src' = src + 1 /\ wpc' = "copy"
        /\ p_buf_' = p_buf_
    BY <1>8 DEF CopyByte, CopyThenMoveRear
  <2>2. /\ front_ \in Cells /\ rear_ \in Cells /\ rear_ = Advance(front_, Held)
        /\ Held \in Cells /\ Held \in Nat /\ Held < size_ /\ size_ \in Nat
        /\ Position \in Nat /\ src \in Nat /\ src = Position + Held
    BY TypeFacts, Where, PacketSizes DEF InStep, StreamTypes, RingHoldsStream
  <2>3. at = rear_ /\ p_buf_[rear_] = src /\ Held < size_ - 1
    BY <2>1 DEF InStep, RingHoldsStream
  <2>4. Position' = Position
    BY <1>1 DEF Position
  <2>5. Held' = Held + 1
    <3>1. Held' = (src + 1) - Position
      BY <2>1, <2>4 DEF Held
    <3> QED BY <2>2, <3>1
  <2>6. rear_' = Advance(front_, Held + 1)
    <3>1. 1 \in 0 .. size_ /\ Held + 1 <= size_
      BY <2>2
    <3> QED BY <2>1, <2>2, <2>3, <3>1, Onward
  <2>7. RingHoldsStream'
    <3>1. Held + 1 \in Cells
      BY <2>2, <2>3 DEF Cells
    <3>2. ASSUME NEW i \in 0 .. (Held + 1) - 1
          PROVE  p_buf_[Advance(front_, i)] = Position + i
      <4>1. CASE i = Held
        BY <2>2, <2>3, <4>1
      <4>2. CASE i # Held
        <5>1. i \in 0 .. Held - 1
          BY <2>2, <4>2
        <5> QED BY <5>1 DEF InStep, RingHoldsStream
      <4> QED BY <4>1, <4>2
    <3> QED BY <1>1, <2>1, <2>4, <2>5, <2>6, <3>1, <3>2 DEF RingHoldsStream, Advance
  <2>8. ppc = "size" /\ less => front_ > rear_'
    <3>1. SUFFICES ASSUME front_ > rear_ PROVE front_ > rear_'
      BY DEF InStep, PacketAtFront
    <3>2. /\ Advance(front_, Held) = IF front_ + Held < size_ THEN front_ + Held
                                                             ELSE front_ + Held - size_
          /\ Advance(front_, Held + 1) = IF front_ + (Held + 1) < size_
                                           THEN front_ + (Held + 1)
                                           ELSE front_ + (Held + 1) - size_
      <4>1. Held \in 0 .. size_ /\ Held + 1 \in 0 .. size_
        BY <2>2
      <4> QED BY <2>2, <4>1, Advancing
    <3>3. front_ \in 0 .. size_ - 1
      BY <2>2 DEF Cells
    <3> QED BY <2>2, <2>3, <2>6, <3>1, <3>2, <3>3
  <2>9. Held' \in Nat /\ Held <= Held'
    BY <2>2, <2>5
  <2> QED BY <1>1, <2>7, <2>8, <2>9, FrontSame
<1> QED BY <1>4, <1>5, <1>6, <1>7, <1>8 DEF Worker

\* The size the packet thread computes, although it reads rear_ twice, is never
\* more than there is.
LEMMA SizeInUseIs ==
  ASSUME InStep, less => front_ > rear_
  PROVE  /\ SizeInUse \in Int /\ SizeInUse <= Held
         /\ InUse = Held
<1>1. /\ front_ \in Cells /\ rear_ \in Cells /\ rear_ = Advance(front_, Held)
      /\ Held \in Cells /\ Held \in Nat /\ size_ \in Nat
  BY TypeFacts, Where, PacketSizes DEF InStep, StreamTypes, RingHoldsStream
<1>2. /\ InUse = Held
      /\ front_ > rear_ => Held = size_ - (front_ - rear_)
      /\ front_ <= rear_ => Held = rear_ - front_
  BY <1>1, Distance DEF InUse
<1>3. front_ \in 0 .. size_ - 1 /\ rear_ \in 0 .. size_ - 1
  BY <1>1 DEF Cells
<1>4. CASE less
  BY <1>1, <1>2, <1>3, <1>4 DEF SizeInUse
<1>5. CASE ~less
  <2>1. SizeInUse = rear_ - front_
    BY <1>5 DEF SizeInUse
  <2> QED BY <1>1, <1>2, <1>3, <2>1
<1> QED BY <1>2, <1>4, <1>5

\* The packet thread finds the packet whose turn it is, and no other.
LEMMA NextHeader ==
  ASSUME InStep, Held >= HeaderLen, ppc # "handle"
  PROVE  /\ Len(served) + 1 \in DOMAIN Packets
         /\ Holds(HeaderLen, Len(served) + 1)
         /\ \A k \in DOMAIN Packets : Holds(HeaderLen, k) => k = Len(served) + 1
<1>1. /\ Len(served) \in Nat /\ Len(served) <= Len(First) - 1
      /\ Len(served) + 1 \in 1 .. Len(First)
      /\ Position = First[Len(served) + 1] /\ Position \in Nat
      /\ Held \in Nat /\ src = Position + Held
  BY Where DEF Position, Taken
<1>2. /\ HeaderLen \in Nat /\ HeaderLen > 0 /\ Len(First) \in Nat /\ Total \in Nat
      /\ DOMAIN Packets = 1 .. Len(First) - 1 /\ Total = First[Len(First)] - 1
      /\ First[Len(First)] \in Nat
  <2>1. Len(First) \in 1 .. Len(First)
    BY PacketSizes
  <2> QED BY <2>1, PacketSizes DEF Total
<1>3. src <= Total + 1
  BY TypeFacts DEF InStep, StreamTypes
<1>4. Len(served) + 1 # Len(First)
  <2>1. SUFFICES ASSUME Len(served) + 1 = Len(First) PROVE FALSE
    OBVIOUS
  <2>2. Position = Total + 1
    BY <1>1, <1>2, <2>1
  <2> QED BY <1>1, <1>2, <1>3, <2>2, SMTT(30)
<1>5. Len(served) + 1 \in DOMAIN Packets
  BY <1>1, <1>2, <1>4
<1>6. \A i \in 0 .. HeaderLen - 1 : p_buf_[Advance(front_, i)] = Position + i
  <2>1. \A i \in 0 .. HeaderLen - 1 : i \in 0 .. Held - 1
    BY <1>1, <1>2
  <2> QED BY <2>1 DEF InStep, RingHoldsStream
<1>7. Holds(HeaderLen, Len(served) + 1)
  BY <1>1, <1>6 DEF Holds
<1>8. ASSUME NEW k \in DOMAIN Packets, Holds(HeaderLen, k)
      PROVE  k = Len(served) + 1
  <2>1. 0 \in 0 .. HeaderLen - 1 /\ k \in 1 .. Len(First)
    BY <1>2
  <2>2. Position + 0 = First[k] + 0
    BY <1>6, <1>8, <2>1 DEF Holds
  <2>3. First[k] \in Nat
    BY <2>1, PacketSizes
  <2>4. First[Len(served) + 1] = First[k]
    BY <1>1, <2>2, <2>3
  <2> QED BY <1>1, <2>1, <2>4, BeginApart
<1> QED BY <1>5, <1>7, <1>8

LEMMA PacketInStep ==
  ASSUME InStep, PacketThread, ~ClearBuffer
  PROVE  RingHoldsStream' /\ PacketAtFront'
<1>1. UNCHANGED <<p_buf_, rear_, wpc, received, src, at, cut>>
  BY DEF PacketThread, PopUserIndex, PeekHeader, Compare, GetPacketData, MoveFront,
         CompleteProcess, ring, worker
<1>2. ASSUME UNCHANGED <<front_, served>>, ppc # "handle", ppc' # "handle"
      PROVE  RingHoldsStream' /\ Held' = Held
  <2>1. Taken' = Taken /\ UNCHANGED ring
    BY <1>1, <1>2 DEF Taken, ring
  <2> QED BY <1>1, <2>1, RingSame
<1>3. ASSUME UNCHANGED <<front_, served>>, ppc # "handle",
             ppc' \in {"idle", "peek", "compare_rest", "rest"}
      PROVE  RingHoldsStream' /\ PacketAtFront'
  <2>1. RingHoldsStream'
    BY <1>2, <1>3
  <2>2. PacketAtFront'
    BY <1>3 DEF InStep, PacketAtFront
  <2> QED BY <2>1, <2>2
<1>4. CASE PopUserIndex
  BY <1>3, <1>4 DEF PopUserIndex, Step, ring
<1>5. CASE PeekHeader
  <2>1. UNCHANGED <<front_, less, served>> /\ ppc = "peek"
    BY <1>5 DEF PeekHeader, ring
  <2>2. InUse = Held /\ Held \in Nat /\ HeaderLen \in Nat
    <3>1. /\ front_ \in Cells /\ rear_ = Advance(front_, Held) /\ Held \in Cells
      BY TypeFacts, Where DEF InStep, StreamTypes, RingHoldsStream
    <3> QED BY <3>1, Distance, Where, PacketSizes DEF InUse
  <2>3. CASE InUse < HeaderLen
    BY <1>3, <1>5, <2>1, <2>3 DEF PeekHeader
  <2>4. CASE ~(InUse < HeaderLen)
    <3>1. Held >= HeaderLen
      BY <2>2, <2>4
    <3>2. /\ Len(served) + 1 \in DOMAIN Packets
          /\ Holds(HeaderLen, Len(served) + 1)
          /\ \A k \in DOMAIN Packets : Holds(HeaderLen, k) => k = Len(served) + 1
      BY <2>1, <3>1, NextHeader
    <3>3. header' = Len(served) + 1 /\ ppc' = "compare"
      BY <1>5, <2>4, <3>2 DEF PeekHeader
    <3>4. RingHoldsStream' /\ Held' = Held
      BY <1>2, <2>1, <3>3
    <3>5. PacketAtFront'
      BY <2>1, <3>1, <3>3, <3>4 DEF InStep, PacketAtFront
    <3> QED BY <3>4, <3>5
  <2> QED BY <2>3, <2>4
<1>6. CASE Compare("compare", "size")
  <2>1. /\ ppc = "compare" /\ ppc' = "size" /\ less' = (front_ > rear_)
        /\ UNCHANGED <<front_, header, served>>
    BY <1>6 DEF Compare, Step, ring
  <2>2. RingHoldsStream' /\ Held' = Held
    BY <1>2, <2>1
  <2>3. PacketAtFront'
    BY <1>1, <2>1, <2>2 DEF InStep, PacketAtFront
  <2> QED BY <2>2, <2>3
<1>7. CASE Compare("compare_rest", "rest")
  BY <1>3, <1>7 DEF Compare, Step, ring
<1>8. CASE GetPacketData /\ ~WholePacket
  BY <1>3, <1>8 DEF GetPacketData, ring
<1>9. CASE GetPacketData /\ WholePacket
  <2>1. /\ ppc = "size" /\ ppc' = "handle" /\ served' = Append(served, header)
        /\ UNCHANGED <<front_, header>> /\ SizeInUse >= Packets[header]
    BY <1>9 DEF GetPacketData, WholePacket, ring
  <2>2. /\ header = Len(served) + 1 /\ (less => front_ > rear_)
        /\ header \in DOMAIN Packets /\ served \in Seq(DOMAIN Packets)
        /\ Len(served) \in Nat
    BY <2>1, TypeFacts DEF InStep, PacketAtFront, StreamTypes, HeaderRead
  <2>3. /\ Len(served') = Len(served) + 1
        /\ \A i \in 1 .. Len(served') :
             served'[i] = IF i <= Len(served) THEN served[i] ELSE header
    BY <2>1, <2>2, AppendProperties
  <2>4. Taken' = Taken /\ UNCHANGED ring
    <3>1. Taken = Len(served) /\ Taken' = Len(served') - 1
      BY <2>1 DEF Taken
    <3> QED BY <1>1, <2>1, <2>2, <2>3, <3>1 DEF ring
  <2>5. RingHoldsStream' /\ Held' = Held
    BY <1>1, <2>4, RingSame
  <2>6. Held >= Packets[header]
    <3>1. SizeInUse \in Int /\ SizeInUse <= Held /\ Held \in Nat /\ Packets[header] \in Nat
      BY <2>2, SizeInUseIs, Where, PacketSizes
    <3> QED BY <2>1, <3>1
  <2>7. \A i \in 1 .. Len(served') : served'[i] = i
    <3>1. \A i \in 1 .. Len(served) : served[i] = i
      BY DEF InStep, PacketAtFront
    <3> QED BY <2>2, <2>3, <3>1
  <2>8. Len(served') # 0 /\ header' = Len(served')
    BY <2>1, <2>2, <2>3
  <2>9. PacketAtFront'
    BY <2>1, <2>5, <2>6, <2>7, <2>8 DEF PacketAtFront
  <2> QED BY <2>5, <2>9
<1>10. CASE MoveFront
  <2>1. /\ ppc = "handle" /\ ppc' = "compare_rest" /\ UNCHANGED <<header, less, served>>
        /\ front_' = Advance(front_, Packets[header])
    BY <1>10 DEF MoveFront, Step
  <2>2. /\ header = Len(served) /\ header \in DOMAIN Packets /\ Held >= Packets[header]
    BY <2>1 DEF InStep, PacketAtFront, StreamTypes, HeaderRead
  <2>3. PICK n \in Nat : /\ n = Packets[header] /\ n \in Cells /\ n > 0
                         /\ n = First[header + 1] - First[header]
    BY <2>2, PacketSizes, SMTT(30)
  <2>4. /\ header \in 1 .. Len(First) - 1 /\ Len(First) \in Nat /\ size_ \in Nat
        /\ First[header] \in Nat /\ First[header + 1] \in Nat
    BY <2>2, PacketSizes
  <2>5. /\ front_ \in Cells /\ rear_ = Advance(front_, Held) /\ Held \in Cells
        /\ Held \in Nat /\ Held < size_ /\ Position \in Nat /\ src = Position + Held
        /\ Held >= n
    BY <2>2, <2>3, TypeFacts, Where DEF InStep, StreamTypes, RingHoldsStream
  <2>6. Position = First[header] /\ Position' = First[header + 1]
    <3>1. Taken + 1 = header
      BY <2>1, <2>2, <2>4 DEF Taken
    <3>2. Taken' + 1 = header + 1
      BY <2>1, <2>2 DEF Taken
    <3> QED BY <3>1, <3>2 DEF Position
  <2>7. Held' = Held - n /\ Position' = Position + n
    <3>1. Held' = src - Position'
      BY <1>1 DEF Held
    <3> QED BY <2>3, <2>4, <2>5, <2>6, <3>1, SMTT(30)
  <2>8. ASSUME NEW i \in 0 .. Held - n
        PROVE  Advance(front_', i) = Advance(front_, n + i)
    <3>1. i \in 0 .. size_ /\ n + i <= size_
      BY <2>3, <2>4, <2>5, SMTT(30)
    <3> QED BY <2>1, <2>3, <2>5, <3>1, Onward
  <2>9. Held - n \in Cells /\ Held - n \in 0 .. Held - n /\ n + (Held - n) = Held
    BY <2>3, <2>4, <2>5 DEF Cells
  <2>10. rear_' = Advance(front_', Held - n)
    BY <1>1, <2>5, <2>8, <2>9
  <2>11. ASSUME NEW i \in 0 .. (Held - n) - 1
         PROVE  p_buf_[Advance(front_', i)] = (Position + n) + i
    <3>1. i \in 0 .. Held - n /\ n + i \in 0 .. Held - 1
          /\ Position + (n + i) = (Position + n) + i
      BY <2>3, <2>5
    <3>2. p_buf_[Advance(front_, n + i)] = Position + (n + i)
      BY <3>1 DEF InStep, RingHoldsStream
    <3> QED BY <2>8, <3>1, <3>2
  <2>12. wpc = "move_rear" => at = rear_ /\ p_buf_[rear_] = src /\ Held - n < size_ - 1
    <3>1. wpc = "move_rear" => at = rear_ /\ p_buf_[rear_] = src /\ Held < size_ - 1
      BY DEF InStep, RingHoldsStream
    <3>2. Held < size_ - 1 => Held - n < size_ - 1
      BY <2>3, <2>4, <2>5
    <3> QED BY <3>1, <3>2
  <2>13. RingHoldsStream'
    BY <1>1, <2>7, <2>9, <2>10, <2>11, <2>12 DEF RingHoldsStream, Advance
  <2>14. PacketAtFront'
    BY <2>1 DEF InStep, PacketAtFront
  <2> QED BY <2>13, <2>14
<1>11. CASE CompleteProcess
  BY <1>3, <1>11 DEF CompleteProcess, Step, ring
<1> QED BY <1>4, <1>5, <1>6, <1>7, <1>8, <1>9, <1>10, <1>11 DEF PacketThread

\* Nothing has come and nothing is cleared away.
LEMMA ClearInStep ==
  ASSUME InStep, ClearedEarly, ~early, ClearBuffer
  PROVE  RingHoldsStream' /\ PacketAtFront'
<1>1. /\ src = 1 /\ wpc = "idle" /\ served = <<>> /\ front_ = 0 /\ rear_ = 0
      /\ ppc \in {"idle", "clear_rear"}
  BY DEF ClearBuffer, Step, ClearedEarly
<1>2. UNCHANGED <<p_buf_, worker, served, front_, rear_>> /\ ppc' \in {"idle", "clear_rear"}
  BY <1>1 DEF ClearBuffer, Step
<1>3. Taken' = Taken /\ UNCHANGED ring /\ src' = src /\ wpc' # "move_rear"
  BY <1>1, <1>2 DEF Taken, ring, worker
<1>4. RingHoldsStream'
  BY <1>3, RingSame
<1>5. PacketAtFront'
  BY <1>2 DEF InStep, PacketAtFront
<1> QED BY <1>4, <1>5

-----------------------------------------------------------------------------
(* The invariants hold from the first state on.                              *)

LEMMA StreamBegins == Init => StreamInv
<1> SUFFICES ASSUME Init PROVE StreamInv
  OBVIOUS
<1>1. /\ 0 \in Cells /\ Total \in Nat /\ Len(First) \in Nat /\ Len(First) >= 1
      /\ First[1] = 1 /\ size_ \in Nat /\ size_ > 0
  BY PacketSizes DEF Cells
<1>2. <<>> \in Seq(DOMAIN Packets) /\ Len(<<>>) = 0
  BY EmptySeq
<1>3. TypeOK
  BY <1>1, <1>2 DEF Init, TypeOK
<1>4. StreamTypes
  BY <1>3 DEF Init, StreamTypes, CopiesWhatCame, HeaderRead
<1>5. ClearedEarly
  BY DEF Init, ClearedEarly
<1>6. Held = 0
  <2>1. Taken = 0
    BY <1>2 DEF Init, Taken
  <2>2. Position = 1
    BY <1>1, <2>1 DEF Position
  <2> QED BY <2>2 DEF Held, Init
<1>7. Advance(0, 0) = 0
  BY <1>1, Advancing
<1>8. RingHoldsStream
  <2>1. wpc # "move_rear" /\ front_ = 0 /\ rear_ = 0
    BY DEF Init
  <2>2. \A i \in 0 .. Held - 1 : FALSE
    BY <1>6
  <2> QED BY <1>1, <1>6, <1>7, <2>1, <2>2 DEF RingHoldsStream
<1>9. PacketAtFront
  BY <1>2 DEF Init, PacketAtFront
<1> QED BY <1>4, <1>5, <1>8, <1>9 DEF StreamInv

LEMMA TypesStep == StreamTypes /\ [Next]_vars => StreamTypes'
<1> SUFFICES ASSUME StreamTypes, [Next]_vars PROVE StreamTypes'
  OBVIOUS
<1>1. CASE UNCHANGED vars
  BY <1>1 DEF vars, ring, worker, packet, StreamTypes, TypeOK, CopiesWhatCame, HeaderRead
<1> QED BY <1>1, WorkerTypes, PacketTypes DEF Next

LEMMA StreamStep == StreamInv /\ [Next]_vars => StreamInv'
<1> SUFFICES ASSUME StreamInv, [Next]_vars PROVE StreamInv'
  OBVIOUS
<1>1. StreamTypes'
  BY TypesStep DEF StreamInv
<1>2. CASE UNCHANGED vars
  <2>1. ClearedEarly'
    BY <1>2 DEF StreamInv, ClearedEarly, vars, ring, worker, packet
  <2>2. ~cut' /\ ~early' => RingHoldsStream' /\ PacketAtFront'
    BY <1>2 DEF StreamInv, RingHoldsStream, PacketAtFront, Held, Position, Taken, Advance,
                vars, ring, worker, packet
  <2> QED BY <1>1, <2>1, <2>2 DEF StreamInv
<1>3. CASE Next
  <2>1. ClearedEarly'
    BY <1>3, ClearedStep DEF StreamInv
  <2>2. ASSUME ~cut', ~early'
        PROVE  RingHoldsStream' /\ PacketAtFront'
    <3>1. ~cut /\ ~early
      <4>1. CASE ~OnRecv
        <5>1. ~early
          BY <1>3, <2>2, <4>1 DEF Next, Worker, FreeSize, CopyByte, Enqueued, PushUserIndex,
             PacketThread, PopUserIndex, PeekHeader, Compare, GetPacketData, MoveFront,
             CompleteProcess, ClearBuffer
        <5>2. ~cut
          BY <1>3, <2>2, <4>1 DEF Next, Worker, FreeSize, Drop, CopyByte, Enqueued,
             PushUserIndex, PacketThread, PopUserIndex, PeekHeader, Compare, GetPacketData,
             MoveFront, CompleteProcess, ClearBuffer, worker
        <5> QED BY <5>1, <5>2
      <4>2. CASE OnRecv
        BY <2>2, <4>2 DEF OnRecv
      <4> QED BY <4>1, <4>2
    <3>2. InStep
      BY <3>1 DEF StreamInv, InStep
    <3>3. CASE Worker
      BY <2>2, <3>1, <3>2, <3>3, WorkerInStep
    <3>4. CASE PacketThread /\ ~ClearBuffer
      BY <3>2, <3>4, PacketInStep
    <3>5. CASE ClearBuffer
      BY <3>1, <3>2, <3>5, ClearInStep DEF StreamInv
    <3> QED BY <1>3, <3>3, <3>4, <3>5 DEF Next
  <2> QED BY <1>1, <2>1, <2>2 DEF StreamInv
<1> QED BY <1>2, <1>3

LEMMA StreamAlways == Spec => []StreamInv
<1>1. StreamInv /\ [Next]_vars => StreamInv'
  BY StreamStep
<1> QED BY <1>1, StreamBegins, PTL DEF Spec

-----------------------------------------------------------------------------

\* Type correctness: the indices stay inside the buffer for any packets and
\* wherever the threads are, also when bytes come before CONNECT clears the buffer.
THEOREM StreamTyped == Spec => []TypeOK
<1>1. Init => StreamTypes
  BY StreamBegins DEF StreamInv
<1>2. StreamTypes => TypeOK
  BY DEF StreamTypes
<1> QED BY <1>1, <1>2, TypesStep, PTL DEF Spec

\* A worker that copies and a packet thread that peeks, without a lock: as
\* long as nothing was cut off by a full ring and no byte came before CONNECT
\* was served, the handlers get the client's packets, each once and in order.
\* Nothing makes a client wait for that: the excluded case is in MCUserStreamClear.
THEOREM HandedOverInOrder == Spec => []PacketsInOrder
<1>1. StreamInv => PacketsInOrder
  <2> SUFFICES ASSUME StreamInv, ~cut, ~early
               PROVE  ppc # "astray" /\ served = [i \in 1 .. Len(served) |-> i]
    BY DEF PacketsInOrder
  <2>1. ppc # "astray" /\ \A i \in 1 .. Len(served) : served[i] = i
    BY DEF StreamInv, PacketAtFront
  <2>2. served \in [1 .. Len(served) -> DOMAIN Packets]
    BY TypeFacts, LenProperties DEF StreamInv, StreamTypes
  <2> QED BY <2>1, <2>2
<1> QED BY <1>1, StreamAlways, PTL

\* GetPacketData hands the handler a pointer into the ring: no byte of the
\* packet is overwritten before the handler has returned, again as long as
\* nothing was cut off and no byte came before CONNECT was served.
THEOREM PacketStaysInPlace == Spec => []PacketKeptWhileHandled
<1>1. StreamInv => PacketKeptWhileHandled
  <2> SUFFICES ASSUME StreamInv, ~cut, ~early, ppc = "handle"
               PROVE  Holds(Packets[header], header)
    BY DEF PacketKeptWhileHandled
  <2>1. InStep
    BY DEF StreamInv, InStep
  <2>2. /\ header = Len(served) /\ header \in DOMAIN Packets /\ Held >= Packets[header]
    BY <2>1 DEF InStep, PacketAtFront, StreamTypes, HeaderRead
  <2>3. Packets[header] \in Nat /\ Held \in Nat /\ Len(served) \in Nat
    BY <2>1, <2>2, Where, PacketSizes
  <2>4. Position = First[header]
    BY <2>2, <2>3 DEF Position, Taken
  <2>5. \A i \in 0 .. Packets[header] - 1 : i \in 0 .. Held - 1
    BY <2>2, <2>3
  <2> QED BY <2>1, <2>4, <2>5 DEF Holds, InStep, RingHoldsStream
<1> QED BY <1>1, StreamAlways, PTL
=============================================================================
