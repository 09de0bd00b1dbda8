--------------------------- MODULE RingBuffer_proofs ---------------------------
(* What holds of the byte ring for any size and any contents: it is the      *)
(* bounded FIFO its two users take it for.                                   *)
EXTENDS RingBuffer, SequenceTheorems, TLAPS

-----------------------------------------------------------------------------
(* The ring's arithmetic.                                                    *)

LEMMA RingSize ==
  /\ size_ \in Nat /\ size_ > 0
  /\ \A x \in Cells : x \in Nat /\ x < size_ /\ x \in 0 .. size_
  /\ \A x \in Nat : x < size_ => x \in Cells
BY SizeAssumption DEF Cells

LEMMA Advancing ==
  ASSUME NEW x \in Cells, NEW n \in 0 .. size_
  PROVE  /\ Advance(x, n) \in Cells
         /\ Advance(x, n) = IF x + n < size_ THEN x + n ELSE x + n - size_
<1>1. size_ \in Nat /\ size_ > 0 /\ x \in 0 .. size_ - 1
  BY SizeAssumption DEF Cells
<1>2. CASE x + n < size_
  <2>1. (x + n) % size_ = x + n
    BY <1>1, <1>2
  <2> QED BY <1>1, <1>2, <2>1 DEF Advance, Cells
<1>3. CASE x + n >= size_
  <2>1. (x + n) % size_ = x + n - size_
    BY <1>1, <1>3
  <2> QED BY <1>1, <1>3, <2>1 DEF Advance, Cells
<1> QED BY <1>1, <1>2, <1>3

LEMMA Onward ==
  ASSUME NEW x \in Cells, NEW m \in Cells, NEW n \in 0 .. size_, m + n <= size_
  PROVE  Advance(Advance(x, m), n) = Advance(x, m + n)
<1>1. /\ size_ \in Nat /\ x \in 0 .. size_ - 1 /\ m \in 0 .. size_ - 1
      /\ m \in 0 .. size_ /\ m + n \in 0 .. size_
  BY SizeAssumption DEF Cells
<1>2. PICK y \in Cells : /\ y = Advance(x, m)
                         /\ y = IF x + m < size_ THEN x + m ELSE x + m - size_
  BY <1>1, Advancing
<1>3. Advance(y, n) = IF y + n < size_ THEN y + n ELSE y + n - size_
  BY Advancing
<1>4. Advance(x, m + n) = IF x + (m + n) < size_ THEN x + (m + n) ELSE x + (m + n) - size_
  BY <1>1, Advancing
<1>5. y \in 0 .. size_ - 1
  BY DEF Cells
<1>6. Advance(y, n) = Advance(x, m + n)
  BY <1>1, <1>2, <1>3, <1>4, <1>5
<1> QED BY <1>2, <1>6

\* How far one cell is behind another, counted round the ring.
LEMMA Behind ==
  ASSUME NEW x \in Cells, NEW m \in Cells, NEW n \in Cells
  PROVE  (Advance(x, m) - Advance(x, n)) % size_ = IF m >= n THEN m - n ELSE m - n + size_
<1>1. /\ size_ \in Nat /\ size_ > 0 /\ x \in 0 .. size_ - 1
      /\ m \in 0 .. size_ - 1 /\ n \in 0 .. size_ - 1
      /\ m \in 0 .. size_ /\ n \in 0 .. size_
  BY SizeAssumption DEF Cells
<1>2. /\ Advance(x, m) = IF x + m < size_ THEN x + m ELSE x + m - size_
      /\ Advance(x, n) = IF x + n < size_ THEN x + n ELSE x + n - size_
  BY <1>1, Advancing
<1>0. Advance(x, m) \in Int /\ Advance(x, n) \in Int
  BY <1>1, Advancing, RingSize
<1>3. PICK d \in Int : d = Advance(x, m) - Advance(x, n)
  BY <1>0
<1>4. d \in {m - n, m - n + size_, m - n - size_} /\ d > -size_ /\ d < size_
  BY <1>1, <1>2, <1>3
<1>5. CASE d >= 0
  <2>1. d % size_ = d
    BY <1>1, <1>4, <1>5
  <2> QED BY <1>1, <1>3, <1>4, <1>5, <2>1
<1>6. CASE d < 0
  <2>1. d % size_ = d + size_
    BY <1>1, <1>4, <1>6
  <2> QED BY <1>1, <1>3, <1>4, <1>6, <2>1
<1> QED BY <1>5, <1>6

-----------------------------------------------------------------------------
(* What is in the ring, as a function of the cells and the indices.          *)

Used(f, r) == IF f > r THEN size_ - (f - r) ELSE r - f
Bytes(buf, f, n) == [i \in 1 .. n |-> buf[Advance(f, i - 1)]]

LEMMA ContentsAre ==
  /\ GetSizeInUse = Used(front_, rear_)
  /\ Contents = Bytes(p_buf_, front_, Used(front_, rear_))
  /\ GetSizeInUse' = Used(front_', rear_')
  /\ Contents' = Bytes(p_buf_', front_', Used(front_', rear_'))
BY DEF GetSizeInUse, Contents, Used, Bytes, Advance

LEMMA UsedIs ==
  ASSUME NEW f \in Cells, NEW n \in Cells
  PROVE  Used(f, Advance(f, n)) = n
<1>1. /\ size_ \in Nat /\ f \in 0 .. size_ - 1 /\ n \in 0 .. size_ - 1 /\ n \in 0 .. size_
  BY SizeAssumption DEF Cells
<1>2. Advance(f, n) = IF f + n < size_ THEN f + n ELSE f + n - size_
  BY <1>1, Advancing
<1> QED BY <1>1, <1>2 DEF Used

LEMMA RearIs ==
  ASSUME NEW f \in Cells, NEW r \in Cells
  PROVE  Used(f, r) \in Cells /\ r = Advance(f, Used(f, r))
<1>1. size_ \in Nat /\ f \in 0 .. size_ - 1 /\ r \in 0 .. size_ - 1
  BY SizeAssumption DEF Cells
<1>2. Used(f, r) \in 0 .. size_ - 1 /\ Used(f, r) \in 0 .. size_
  BY <1>1 DEF Used
<1>3. Advance(f, Used(f, r)) = IF f + Used(f, r) < size_ THEN f + Used(f, r)
                                                         ELSE f + Used(f, r) - size_
  BY <1>2, Advancing
<1>4. CASE f > r
  BY <1>1, <1>2, <1>3, <1>4 DEF Used, Cells
<1>5. CASE ~(f > r)
  BY <1>1, <1>2, <1>3, <1>5 DEF Used, Cells
<1> QED BY <1>4, <1>5

LEMMA BytesAre ==
  ASSUME NEW buf \in [Cells -> Values], NEW f \in Cells, NEW n \in 0 .. size_
  PROVE  /\ Bytes(buf, f, n) \in Seq(Values)
         /\ Len(Bytes(buf, f, n)) = n
         /\ \A i \in 1 .. n : Bytes(buf, f, n)[i] = buf[Advance(f, i - 1)]
<1>1. n \in Nat
  BY RingSize
<1>2. \A i \in 1 .. n : buf[Advance(f, i - 1)] \in Values
  <2>1. \A i \in 1 .. n : i - 1 \in 0 .. size_
    BY RingSize
  <2> QED BY <2>1, Advancing
<1> QED BY <1>1, <1>2 DEF Bytes

-----------------------------------------------------------------------------
(* Enqueue.                                                                  *)

LEMMA LeastIs ==
  ASSUME NEW m \in Nat, NEW n \in Nat
  PROVE  Least(m, n) \in Nat /\ Least(m, n) <= m /\ Least(m, n) <= n
BY DEF Least

\* How many bytes Enqueue copies.
LEMMA Fits ==
  ASSUME TypeOK, NEW data \in Seq(Values)
  PROVE  LET k == Least(Len(data), GetFreeSize)
         IN  /\ k \in Nat /\ k <= Len(data) /\ Used(front_, rear_) + k < size_
             /\ GetFreeSize = size_ - 1 - Used(front_, rear_)
             /\ Used(front_, rear_) \in Cells /\ rear_ = Advance(front_, Used(front_, rear_))
<1>1. Used(front_, rear_) \in Cells /\ rear_ = Advance(front_, Used(front_, rear_))
  BY RearIs DEF TypeOK
<1>2. Used(front_, rear_) \in Nat /\ Used(front_, rear_) < size_ /\ size_ \in Nat
  BY <1>1, RingSize
<1>3. GetFreeSize = size_ - 1 - Used(front_, rear_) /\ GetFreeSize \in Nat
  BY <1>2, ContentsAre DEF GetFreeSize
<1>4. Len(data) \in Nat
  BY LenProperties
<1>5. /\ Least(Len(data), GetFreeSize) \in Nat /\ Least(Len(data), GetFreeSize) <= Len(data)
      /\ Least(Len(data), GetFreeSize) <= GetFreeSize
  BY <1>3, <1>4, LeastIs
<1>6. Used(front_, rear_) + Least(Len(data), GetFreeSize) < size_
  BY <1>2, <1>3, <1>5
<1> QED BY <1>1, <1>3, <1>5, <1>6

LEMMA EnqueueTypes ==
  ASSUME TypeOK, NEW data \in Seq(Values), Enqueue(data)
  PROVE  TypeOK'
<1>1. PICK k \in Nat : /\ k = Least(Len(data), GetFreeSize)
                       /\ k <= Len(data) /\ k < size_ /\ k \in 0 .. size_
  <2>1. /\ Least(Len(data), GetFreeSize) \in Nat
        /\ Used(front_, rear_) \in Nat /\ size_ \in Nat
        /\ Least(Len(data), GetFreeSize) <= Len(data)
        /\ Used(front_, rear_) + Least(Len(data), GetFreeSize) < size_
    BY Fits, RingSize
  <2>2. Least(Len(data), GetFreeSize) < size_
    BY <2>1
  <2> QED BY <2>1, <2>2
<1>2. /\ p_buf_' = [c \in Cells |-> LET i == (c - rear_) % size_
                                    IN  IF i < k THEN data[i + 1] ELSE p_buf_[c]]
      /\ rear_' = Advance(rear_, k) /\ front_' = front_
      /\ returned' = rear_' - rear_ /\ called' = "put"
  BY <1>1 DEF Enqueue
<1>3. rear_ \in Cells /\ rear_' \in Cells
  BY <1>1, <1>2, Advancing DEF TypeOK
<1>4. returned' \in -size_ .. size_
  <2>1. rear_ \in 0 .. size_ - 1 /\ rear_' \in 0 .. size_ - 1 /\ size_ \in Nat
    BY <1>3, RingSize DEF Cells
  <2> QED BY <1>2, <2>1
<1>5. ASSUME NEW c \in Cells
      PROVE  p_buf_'[c] \in Values
  <2>1. PICK i \in Nat : i = (c - rear_) % size_
    <3>1. c - rear_ \in Int /\ size_ \in Nat /\ size_ > 0
      BY <1>3, RingSize
    <3>2. (c - rear_) % size_ \in 0 .. size_ - 1
      BY <3>1
    <3> QED BY <3>1, <3>2
  <2>2. p_buf_'[c] = IF i < k THEN data[i + 1] ELSE p_buf_[c]
    BY <1>2, <2>1
  <2>3. i < k => i + 1 \in 1 .. Len(data)
    BY <1>1, LenProperties
  <2>4. i < k => data[i + 1] \in Values
    BY <2>3, ElementOfSeq
  <2> QED BY <2>2, <2>4 DEF TypeOK
<1>6. p_buf_' \in [Cells -> Values]
  BY <1>2, <1>5
<1> QED BY <1>2, <1>3, <1>4, <1>6 DEF TypeOK

LEMMA EnqueueIsPut ==
  ASSUME TypeOK, TypeOK', NEW data \in Seq(Values), Enqueue(data)
  PROVE  Fifo!Put(data)
<1>1. PICK k \in Nat, n \in Nat :
        /\ k = Least(Len(data), GetFreeSize) /\ n = Used(front_, rear_)
        /\ k <= Len(data) /\ n + k < size_ /\ GetFreeSize = size_ - 1 - n
        /\ rear_ = Advance(front_, n)
  BY Fits, RingSize
<1>2. /\ size_ \in Nat /\ Len(data) \in Nat /\ front_ \in Cells /\ rear_ \in Cells
      /\ p_buf_ \in [Cells -> Values] /\ p_buf_' \in [Cells -> Values]
  BY RingSize, LenProperties DEF TypeOK
<1>3. n \in Cells /\ k \in 0 .. size_ /\ n + k <= size_ /\ n + k \in Cells
      /\ n \in 0 .. size_ /\ n + k \in 0 .. size_
  <2>1. n < size_ /\ k < size_ /\ n + k \in Nat
    BY <1>1, <1>2
  <2> QED BY <1>1, <1>2, <2>1, RingSize, SMTT(30)
<1>4. /\ p_buf_' = [c \in Cells |-> LET i == (c - rear_) % size_
                                    IN  IF i < k THEN data[i + 1] ELSE p_buf_[c]]
      /\ rear_' = Advance(front_, n + k) /\ front_' = front_ /\ called' = "put"
  BY <1>1, <1>2, <1>3, Onward, SMTT(30) DEF Enqueue
<1>5. Contents = Bytes(p_buf_, front_, n) /\ Contents' = Bytes(p_buf_', front_, n + k)
  BY <1>1, <1>2, <1>3, <1>4, ContentsAre, UsedIs
<1>6. /\ Contents \in Seq(Values) /\ Len(Contents) = n
      /\ \A i \in 1 .. n : Contents[i] = p_buf_[Advance(front_, i - 1)]
  BY <1>2, <1>3, <1>5, BytesAre
<1>7. /\ Contents' \in Seq(Values) /\ Len(Contents') = n + k
      /\ \A i \in 1 .. n + k : Contents'[i] = p_buf_'[Advance(front_, i - 1)]
  BY <1>2, <1>3, <1>5, BytesAre
<1>8. PICK put \in Seq(Values) : /\ put = SubSeq(data, 1, k) /\ Len(put) = k
                                 /\ \A i \in 1 .. k : put[i] = data[i]
  <2>1. \A i \in 1 .. k : data[i] \in Values
    BY <1>1, <1>2, ElementOfSeq
  <2>2. /\ SubSeq(data, 1, k) \in Seq(Values)
        /\ Len(SubSeq(data, 1, k)) = IF 1 <= k THEN k - 1 + 1 ELSE 0
        /\ \A i \in 1 .. k - 1 + 1 : SubSeq(data, 1, k)[i] = data[1 + i - 1]
    <3>1. 1 \in Int /\ k \in Int
      OBVIOUS
    <3> QED BY <2>1, <3>1, SubSeqProperties
  <2>3. (IF 1 <= k THEN k - 1 + 1 ELSE 0) = k /\ k - 1 + 1 = k
        /\ \A i \in 1 .. k : 1 + i - 1 = i
    OBVIOUS
  <2> QED BY <2>2, <2>3
<1>9. /\ Contents \o put \in Seq(Values) /\ Len(Contents \o put) = n + k
      /\ \A i \in 1 .. n + k :
           (Contents \o put)[i] = IF i <= n THEN Contents[i] ELSE put[i - n]
  <2>1. /\ Contents \o put \in Seq(Values)
        /\ Len(Contents \o put) = Len(Contents) + Len(put)
        /\ \A i \in 1 .. Len(Contents) + Len(put) :
             (Contents \o put)[i] = IF i <= Len(Contents) THEN Contents[i]
                                                          ELSE put[i - Len(Contents)]
    BY <1>6, <1>8, ConcatProperties
  <2> QED BY <1>6, <1>8, <2>1
<1>10. ASSUME NEW i \in 1 .. n + k
       PROVE  Contents'[i] = (Contents \o put)[i]
  <2>1. i - 1 \in Cells /\ i - 1 \in 0 .. size_ /\ i \in Nat
    <3>1. i - 1 \in Nat /\ i - 1 < size_
      BY <1>1, <1>2
    <3> QED BY <3>1, RingSize
  <2>2. PICK c \in Cells : c = Advance(front_, i - 1)
    BY <1>2, <2>1, Advancing
  <2>3. (c - rear_) % size_ = IF i - 1 >= n THEN (i - 1) - n ELSE (i - 1) - n + size_
    <3>1. (Advance(front_, i - 1) - Advance(front_, n)) % size_
            = IF i - 1 >= n THEN (i - 1) - n ELSE (i - 1) - n + size_
      BY <1>2, <1>3, <2>1, Behind
    <3> QED BY <1>1, <2>2, <3>1
  <2>4. CASE i <= n
    <3>1. ~((c - rear_) % size_ < k)
      BY <1>1, <1>2, <2>1, <2>3, <2>4, SMTT(30)
    <3>2. p_buf_'[c] = p_buf_[c]
      BY <1>4, <3>1
    <3> QED BY <1>6, <1>7, <1>9, <2>1, <2>2, <2>4, <3>2
  <2>5. CASE i > n
    <3>1. (c - rear_) % size_ = i - n - 1 /\ i - n - 1 < k /\ i - n \in 1 .. k
          /\ (i - n - 1) + 1 = i - n /\ ~(i <= n)
      BY <1>1, <1>2, <2>1, <2>3, <2>5, SMTT(30)
    <3>2. p_buf_'[c] = data[i - n]
      BY <1>4, <3>1
    <3>3. Contents'[i] = data[i - n]
      BY <1>7, <2>2, <3>2
    <3>4. (Contents \o put)[i] = put[i - n]
      BY <1>9, <3>1
    <3>5. put[i - n] = data[i - n]
      BY <1>8, <3>1
    <3> QED BY <3>3, <3>4, <3>5
  <2>6. i <= n \/ i > n
    BY <1>1, <2>1
  <2> QED BY <2>4, <2>5, <2>6
<1>11. Contents' = Contents \o put
  BY <1>7, <1>9, <1>10, SeqEqual
<1>12. k = IF Len(data) < (size_ - 1) - Len(Contents)
             THEN Len(data) ELSE (size_ - 1) - Len(Contents)
  BY <1>1, <1>6 DEF Least
<1> QED BY <1>4, <1>8, <1>11, <1>12 DEF Fifo!Put

-----------------------------------------------------------------------------
(* What moves front_.                                                        *)

LEMMA FrontMoves ==
  ASSUME TypeOK, NEW k \in Nat, k <= GetSizeInUse, front_' = Advance(front_, k),
         called' = "take", UNCHANGED <<p_buf_, rear_>>, returned' \in -size_ .. size_
  PROVE  TypeOK' /\ \E n \in 0 .. size_ - 1 : Fifo!Take(n)
<1>1. PICK n \in Cells : n = Used(front_, rear_) /\ rear_ = Advance(front_, n)
  BY RearIs DEF TypeOK
<1>2. /\ size_ \in Nat /\ front_ \in Cells /\ p_buf_ \in [Cells -> Values]
      /\ n \in Nat /\ n < size_ /\ k <= n
  BY <1>1, RingSize, ContentsAre DEF TypeOK
<1>3. k \in Cells /\ k \in 0 .. size_ /\ k \in 0 .. n /\ k \in 0 .. size_ - 1
      /\ n - k \in Cells /\ n - k \in 0 .. size_ /\ n \in 0 .. size_ /\ k + (n - k) = n
  <2>1. k < size_ /\ n - k \in Nat /\ n - k < size_
    BY <1>2
  <2> QED BY <1>2, <2>1, RingSize
<1>4. front_' \in Cells
  BY <1>2, <1>3, Advancing
<1>5. TypeOK'
  BY <1>4 DEF TypeOK
<1>6. rear_' = Advance(front_', n - k)
  <2>1. Advance(Advance(front_, k), n - k) = Advance(front_, k + (n - k))
    BY <1>2, <1>3, Onward
  <2> QED BY <1>1, <1>3, <2>1
<1>7. Contents = Bytes(p_buf_, front_, n) /\ Contents' = Bytes(p_buf_, front_', n - k)
  <2>1. Used(front_', rear_') = n - k /\ p_buf_' = p_buf_
    BY <1>3, <1>4, <1>6, UsedIs
  <2> QED BY <1>1, <2>1, ContentsAre
<1>8. /\ Contents \in Seq(Values) /\ Len(Contents) = n
      /\ \A i \in 1 .. n : Contents[i] = p_buf_[Advance(front_, i - 1)]
  BY <1>2, <1>3, <1>7, BytesAre
<1>9. /\ Contents' \in Seq(Values) /\ Len(Contents') = n - k
      /\ \A i \in 1 .. n - k : Contents'[i] = p_buf_[Advance(front_', i - 1)]
  BY <1>2, <1>3, <1>4, <1>7, BytesAre
<1>10. PICK rest \in Seq(Values) :
         /\ rest = SubSeq(Contents, k + 1, n) /\ Len(rest) = n - k
         /\ \A i \in 1 .. n - k : rest[i] = Contents[k + i]
  <2>1. \A i \in k + 1 .. n : Contents[i] \in Values
    <3>1. \A i \in k + 1 .. n : i \in 1 .. n
      BY <1>2
    <3> QED BY <1>8, <3>1, ElementOfSeq
  <2>2. PICK l \in Int : l = k + 1
    OBVIOUS
  <2>3. /\ SubSeq(Contents, l, n) \in Seq(Values)
        /\ Len(SubSeq(Contents, l, n)) = IF l <= n THEN n - l + 1 ELSE 0
        /\ \A i \in 1 .. n - l + 1 : SubSeq(Contents, l, n)[i] = Contents[l + i - 1]
    <3>1. n \in Int
      BY <1>2
    <3> QED BY <2>1, <2>2, <3>1, SubSeqProperties
  <2>4. /\ n - l + 1 = n - k /\ (IF l <= n THEN n - l + 1 ELSE 0) = n - k
        /\ \A i \in 1 .. n - k : l + i - 1 = k + i
    BY <1>2, <2>2
  <2>5. \A i \in 1 .. n - k : SubSeq(Contents, l, n)[i] = Contents[k + i]
    <3> SUFFICES ASSUME NEW i \in 1 .. n - k
                 PROVE  SubSeq(Contents, l, n)[i] = Contents[k + i]
      OBVIOUS
    <3>1. SubSeq(Contents, l, n)[i] = Contents[l + i - 1]
      BY <2>3, <2>4
    <3> QED BY <2>4, <3>1
  <2>6. Len(SubSeq(Contents, l, n)) = n - k
    BY <2>3, <2>4
  <2> QED BY <2>2, <2>3, <2>5, <2>6
<1>11. ASSUME NEW i \in 1 .. n - k
       PROVE  Contents'[i] = rest[i]
  <2>1. i - 1 \in 0 .. size_ /\ k + (i - 1) <= size_ /\ k + i \in 1 .. n
        /\ (k + i) - 1 = k + (i - 1)
    BY <1>2
  <2>2. Advance(front_', i - 1) = Advance(front_, (k + i) - 1)
    BY <1>2, <1>3, <2>1, Onward
  <2> QED BY <1>8, <1>9, <1>10, <2>1, <2>2
<1>12. Contents' = rest
  BY <1>9, <1>10, <1>11, SeqEqual
<1>13. Fifo!Take(k)
  BY <1>3, <1>8, <1>10, <1>12 DEF Fifo!Take
<1> QED BY <1>3, <1>5, <1>13

LEMMA TakersTake ==
  ASSUME TypeOK,
         \/ \E len \in Cells : Dequeue(len) \/ Peek(len)
         \/ \E size \in Cells : MoveFront(size)
  PROVE  TypeOK' /\ \E n \in 0 .. size_ - 1 : Fifo!Take(n)
<1>1. /\ size_ \in Nat /\ GetSizeInUse \in Cells /\ GetSizeInUse \in Nat
      /\ GetSizeInUse < size_ /\ front_ \in Cells
  BY RearIs, ContentsAre, RingSize DEF TypeOK
<1>2. ASSUME NEW len \in Cells
      PROVE  /\ Least(len, GetSizeInUse) \in Nat /\ Least(len, GetSizeInUse) <= GetSizeInUse
             /\ Least(len, GetSizeInUse) \in 0 .. size_
             /\ Least(len, GetSizeInUse) \in -size_ .. size_
  <2>1. /\ Least(len, GetSizeInUse) \in Nat /\ Least(len, GetSizeInUse) <= GetSizeInUse
    BY <1>1, RingSize, LeastIs
  <2> QED BY <1>1, <2>1
<1>3. ASSUME NEW len \in Cells, Dequeue(len)
      PROVE  TypeOK' /\ \E n \in 0 .. size_ - 1 : Fifo!Take(n)
  <2>1. /\ front_' = Advance(front_, Least(len, GetSizeInUse)) /\ called' = "take"
        /\ UNCHANGED <<p_buf_, rear_>> /\ returned' = front_' - front_
    BY <1>3 DEF Dequeue
  <2>2. front_' \in Cells
    BY <1>1, <1>2, <2>1, Advancing
  <2>3. returned' \in -size_ .. size_
    <3>1. front_ \in Nat /\ front_ < size_ /\ front_' \in Nat /\ front_' < size_
      BY <1>1, <2>2, RingSize
    <3> QED BY <1>1, <2>1, <3>1
  <2> QED BY <1>2, <2>1, <2>3, FrontMoves
<1>4. ASSUME NEW len \in Cells, Peek(len)
      PROVE  TypeOK' /\ \E n \in 0 .. size_ - 1 : Fifo!Take(n)
  <2>1. /\ front_' = front_ /\ called' = "take" /\ UNCHANGED <<p_buf_, rear_>>
        /\ returned' = Least(len, GetSizeInUse)
    BY <1>4 DEF Peek
  <2>2. front_' = Advance(front_, 0)
    <3>1. 0 \in 0 .. size_ /\ front_ \in Nat /\ front_ < size_
      BY <1>1, RingSize
    <3>2. Advance(front_, 0) = IF front_ + 0 < size_ THEN front_ + 0 ELSE front_ + 0 - size_
      BY <1>1, <3>1, Advancing
    <3> QED BY <1>1, <2>1, <3>1, <3>2
  <2>3. 0 \in Nat /\ 0 <= GetSizeInUse
    BY <1>1
  <2> QED BY <1>2, <2>1, <2>2, <2>3, FrontMoves
<1>5. ASSUME NEW size \in Cells, MoveFront(size)
      PROVE  TypeOK' /\ \E n \in 0 .. size_ - 1 : Fifo!Take(n)
  <2>1. /\ front_' = Advance(front_, size) /\ called' = "take" /\ size <= GetSizeInUse
        /\ UNCHANGED <<p_buf_, rear_, returned>> /\ size \in Nat
    BY <1>5, RingSize DEF MoveFront
  <2> QED BY <2>1, FrontMoves DEF TypeOK
<1> QED BY <1>3, <1>4, <1>5

LEMMA NothingUsed ==
  ASSUME NEW buf, NEW f \in Cells
  PROVE  Used(f, f) = 0 /\ Bytes(buf, f, 0) = <<>>
<1>1. f \in Nat
  BY RingSize
<1> QED BY <1>1 DEF Used, Bytes

LEMMA ClearClears ==
  ASSUME TypeOK, ClearBuffer
  PROVE  TypeOK' /\ Fifo!Clear
<1>1. /\ front_' = 0 /\ rear_' = 0 /\ called' = "clear" /\ UNCHANGED <<p_buf_, returned>>
  BY DEF ClearBuffer
<1>2. 0 \in Cells
  BY RingSize
<1>3. Contents' = <<>>
  BY <1>1, <1>2, ContentsAre, NothingUsed
<1> QED BY <1>1, <1>2, <1>3 DEF TypeOK, Fifo!Clear

-----------------------------------------------------------------------------
(* From the first state on.                                                  *)

LEMMA RingBegins == Init => TypeOK /\ Fifo!FifoInit
<1> SUFFICES ASSUME Init PROVE TypeOK /\ Fifo!FifoInit
  OBVIOUS
<1>1. 0 \in Cells /\ 0 \in -size_ .. size_
  BY RingSize
<1>2. Contents = <<>>
  BY <1>1, ContentsAre, NothingUsed DEF Init
<1> QED BY <1>1, <1>2 DEF Init, TypeOK, Fifo!FifoInit

LEMMA RingStep ==
  TypeOK /\ [Next]_vars => TypeOK' /\ [Fifo!FifoNext]_<<Contents, called>>
<1> SUFFICES ASSUME TypeOK, [Next]_vars
             PROVE  TypeOK' /\ [Fifo!FifoNext]_<<Contents, called>>
  OBVIOUS
<1>1. CASE UNCHANGED vars
  <2>1. UNCHANGED <<p_buf_, front_, rear_, returned, called>>
    BY <1>1 DEF vars
  <2>2. Contents' = Contents
    BY <2>1, ContentsAre
  <2> QED BY <2>1, <2>2 DEF TypeOK
<1>2. ASSUME NEW data \in Chunks, Enqueue(data)
      PROVE  TypeOK' /\ Fifo!FifoNext
  <2>1. data \in Seq(Values)
    BY ChunksAssumption
  <2> QED BY <1>2, <2>1, EnqueueTypes, EnqueueIsPut DEF Fifo!FifoNext
<1>3. CASE \/ \E len \in Cells : Dequeue(len) \/ Peek(len)
           \/ \E size \in Cells : MoveFront(size)
  BY <1>3, TakersTake DEF Fifo!FifoNext
<1>4. CASE ClearBuffer
  BY <1>4, ClearClears DEF Fifo!FifoNext
<1> QED BY <1>1, <1>2, <1>3, <1>4 DEF Next

\* Type correctness: no call moves an index out of the buffer of any size.
THEOREM RingTypes == Spec => []TypeOK
BY RingBegins, RingStep, PTL DEF Spec

\* Session::SetWsaBuf gives WSASend every byte of the ring once and in order,
\* whether the contents wrap around the end or not.
THEOREM SendBuffersComplete == Spec => []SendBuffersAreContents
<1>1. ASSUME TypeOK
      PROVE  WsaBufs = Contents
  <2>1. PICK n \in Cells : n = Used(front_, rear_) /\ rear_ = Advance(front_, n)
    BY <1>1, RearIs DEF TypeOK
  <2>2. /\ size_ \in Nat /\ front_ \in Cells /\ p_buf_ \in [Cells -> Values]
        /\ n \in Nat /\ n < size_ /\ n \in 0 .. size_ /\ front_ \in Nat /\ front_ < size_
        /\ rear_ \in Nat /\ rear_ < size_
    BY <1>1, <2>1, RingSize DEF TypeOK
  <2>3. PICK m \in Nat : /\ m = GetContinuousDequeueSize
                         /\ m = IF front_ > rear_ THEN size_ - front_ ELSE rear_ - front_
    <3>1. (IF front_ > rear_ THEN size_ - front_ ELSE rear_ - front_) \in Nat
      BY <2>2
    <3> QED BY <3>1 DEF GetContinuousDequeueSize
  <2>4. n = IF front_ > rear_ THEN size_ - (front_ - rear_) ELSE rear_ - front_
    BY <2>1 DEF Used
  <2>5. n - m \in Nat /\ m <= n /\ front_ + m <= size_
        /\ (front_ > rear_ => front_ + m = size_)
        /\ (~(front_ > rear_) => n = m)
    BY <2>2, <2>3, <2>4
  <2>6. PICK a : a = [i \in 1 .. m |-> p_buf_[front_ + i - 1]]
    OBVIOUS
  <2>7. PICK b : b = [i \in 1 .. n - m |-> p_buf_[i - 1]]
    OBVIOUS
  <2>8. a \in Seq(Values) /\ Len(a) = m
    <3>1. \A i \in 1 .. m : front_ + i - 1 \in Nat /\ front_ + i - 1 < size_
      BY <2>2, <2>5
    <3>2. \A i \in 1 .. m : p_buf_[front_ + i - 1] \in Values
      BY <2>2, <3>1, RingSize
    <3> QED BY <2>6, <3>2
  <2>9. b \in Seq(Values) /\ Len(b) = n - m
    <3>1. \A i \in 1 .. n - m : i - 1 \in Nat /\ i - 1 < size_
      BY <2>2, <2>5
    <3>2. \A i \in 1 .. n - m : p_buf_[i - 1] \in Values
      BY <2>2, <3>1, RingSize
    <3> QED BY <2>5, <2>7, <3>2
  <2>10. WsaBufs = a \o b
    BY <2>1, <2>3, <2>6, <2>7, ContentsAre DEF WsaBufs
  <2>11. /\ a \o b \in Seq(Values) /\ Len(a \o b) = n
         /\ \A i \in 1 .. n : (a \o b)[i] = IF i <= m THEN a[i] ELSE b[i - m]
    <3>1. /\ a \o b \in Seq(Values) /\ Len(a \o b) = Len(a) + Len(b)
          /\ \A i \in 1 .. Len(a) + Len(b) :
               (a \o b)[i] = IF i <= Len(a) THEN a[i] ELSE b[i - Len(a)]
      BY <2>8, <2>9, ConcatProperties
    <3>2. m + (n - m) = n
      BY <2>2
    <3> QED BY <2>8, <2>9, <3>1, <3>2
  <2>12. /\ Contents \in Seq(Values) /\ Len(Contents) = n
         /\ \A i \in 1 .. n : Contents[i] = p_buf_[Advance(front_, i - 1)]
    BY <2>1, <2>2, ContentsAre, BytesAre
  <2>13. ASSUME NEW i \in 1 .. n
         PROVE  (a \o b)[i] = Contents[i]
    <3>1. Advance(front_, i - 1) = IF front_ + (i - 1) < size_ THEN front_ + (i - 1)
                                                            ELSE front_ + (i - 1) - size_
      <4>1. i - 1 \in 0 .. size_
        BY <2>2
      <4> QED BY <2>2, <4>1, Advancing
    <3>2. CASE i <= m
      <4>1. i \in 1 .. m /\ front_ + (i - 1) < size_ /\ front_ + i - 1 = front_ + (i - 1)
        BY <2>2, <2>5, <3>2
      <4> QED BY <2>6, <2>11, <2>12, <3>1, <3>2, <4>1
    <3>3. CASE ~(i <= m)
      <4>1. front_ > rear_ /\ i - m \in 1 .. n - m
        BY <2>2, <2>5, <3>3
      <4>2. ~(front_ + (i - 1) < size_) /\ front_ + (i - 1) - size_ = (i - m) - 1
        BY <2>2, <2>5, <3>3, <4>1
      <4>3. Contents[i] = p_buf_[(i - m) - 1]
        BY <2>12, <3>1, <4>2
      <4>4. (a \o b)[i] = b[i - m]
        BY <2>11, <3>3
      <4>5. b[i - m] = p_buf_[(i - m) - 1]
        BY <2>7, <4>1
      <4> QED BY <4>3, <4>4, <4>5
    <3> QED BY <3>2, <3>3
  <2> QED BY <2>10, <2>11, <2>12, <2>13, SeqEqual
<1>2. TypeOK => SendBuffersAreContents
  BY <1>1 DEF SendBuffersAreContents
<1> QED BY <1>2, RingTypes, PTL

\* The ring of any size is a FIFO of size_ - 1 bytes: no sequence of calls
\* loses, duplicates or reorders a byte that was accepted, and what does not
\* fit is cut off the end of the call that brings it.
THEOREM RingImplementsFifo == Spec => RingIsFifo
BY RingBegins, RingStep, PTL DEF Spec, RingIsFifo, Fifo!FifoSpec
=============================================================================
