---------------------------- MODULE UserStream ----------------------------
(* One user's packet_buf_ (user.cpp): a worker copies what it has received   *)
(* into the ring byte by byte while the packet thread peeks at headers, hands*)
(* packets on and moves front_. There is no lock: the worker alone moves     *)
(* rear_, the packet thread alone moves front_, but for ClearBuffer, which   *)
(* sets both. Network's OneReceive is why one worker is enough, unless the   *)
(* accepter reuses the slot without waiting.                                 *)
(*                                                                           *)
(* A byte is its position in the stream the client sends, and a cell that    *)
(* was never written holds 0. The threads' loads and stores take effect in   *)
(* program order: a store through char* may alias the indices, so the        *)
(* compiler keeps them in order, and so does the machine (x86).              *)
(*                                                                           *)
(* An operator whose comment starts with "Slip:" is no part of the code: it  *)
(* is a plausible mistake in the definition that follows, kept to show that  *)
(* the properties notice it.                                                 *)
EXTENDS Integers, Sequences

CONSTANTS
  size_,        \* cells of the ring
  HeaderLen,    \* sizeof(PACKET_HEADER), in cells
  First         \* where in the stream each packet begins, and where it ends

\* The last conjunct follows from the one before it.
ASSUME StreamAssumption ==
  /\ size_ \in Nat \ {0}
  /\ HeaderLen \in Nat \ {0}
  /\ First \in Seq(Nat) /\ First # <<>> /\ First[1] = 1
  /\ \A k \in 1 .. Len(First) - 1 : First[k + 1] - First[k] \in HeaderLen .. size_ - 1
  /\ \A j, k \in 1 .. Len(First) : j < k => First[j] < First[k]

VARIABLES
  p_buf_, front_, rear_,
  wpc,        \* where the worker is
  received,   \* bytes of the stream it was given
  src,        \* the next byte it copies, up to received
  at,         \* the rear_ it has loaded
  cut,        \* bytes did not fit and were dropped
  indices,    \* how often the user's index is in incoming_packet_user_index_queue_
  ppc,        \* where the packet thread is
  header,     \* the packet whose header it has peeked
  less,       \* GetSizeInUse: front_ > rear_ when it was compared
  served,     \* the packets handed to a handler
  connected,  \* CONNECT was served
  early       \* bytes came before that, to be cleared away

ring   == <<p_buf_, front_, rear_>>
worker == <<wpc, received, src, at, cut>>
packet == <<ppc, header, less, served>>
vars   == <<ring, worker, indices, packet, connected, early>>

Cells == 0 .. size_ - 1

\* Slip: the index runs off the end.
AdvanceWithoutWrap(index, n) == index + n

Advance(index, n) == (index + n) % size_

\* Packet k is the bytes First[k] .. First[k + 1] - 1 of the stream, as many
\* as its size_ field says.
Packets == [k \in 1 .. Len(First) - 1 |-> First[k + 1] - First[k]]
Total == First[Len(First)] - 1

\* What n cells from front_ on hold; the packet whose bytes they begin, if any.
Holds(n, k) == \A i \in 0 .. n - 1 : p_buf_[Advance(front_, i)] = First[k] + i

Init ==
  /\ p_buf_ = [c \in Cells |-> 0]
  /\ front_ = 0 /\ rear_ = 0
  /\ wpc = "idle" /\ received = 0 /\ src = 1 /\ at = 0 /\ cut = FALSE
  /\ indices = 0
  /\ ppc = "idle" /\ header = 0 /\ less = FALSE /\ served = <<>>
  /\ connected = FALSE /\ early = FALSE

-----------------------------------------------------------------------------
(* The worker: PacketManager::EnqueuePacket. *)

\* A receive brings any piece of the stream, and no order between it and the
\* CONNECT of the packet thread is kept (packet_manager.cpp:80-85).
OnRecv ==
  /\ wpc = "idle"
  /\ received < Total
  /\ \E n \in received + 1 .. Total : received' = n
  /\ wpc' = "free_size"
  /\ early' = (early \/ ~connected \/ ppc = "clear_rear")
  /\ UNCHANGED <<ring, src, at, cut, indices, packet, connected>>

\* The rest of what was received is dropped; the result is not looked at.
Drop ==
  /\ cut' = (cut \/ src <= received)
  /\ src' = received + 1
  /\ wpc' = "push"

\* GetFreeSize() == 0 returns at once. front_ is read twice, but only in an
\* expression that is zero for a full ring alone.
FreeSize ==
  /\ wpc = "free_size"
  /\ IF Advance(rear_, 1) = front_ THEN Drop
                                   ELSE wpc' = "copy" /\ UNCHANGED <<src, cut>>
  /\ UNCHANGED <<ring, received, at, indices, packet, connected, early>>

\* Slip: the index is moved before the cell is written.
MoveRearThenCopy ==
  \/ /\ wpc = "copy"
     /\ rear_' = Advance(rear_, 1)
     /\ at' = rear_
     /\ wpc' = "move_rear"
     /\ UNCHANGED <<p_buf_, src>>
  \/ /\ wpc = "move_rear"
     /\ p_buf_' = [p_buf_ EXCEPT ![at] = src]
     /\ src' = src + 1
     /\ wpc' = "copy"
     /\ UNCHANGED <<rear_, at>>

\* p_buf_[rear_] = *src, then rear_ = (rear_ + 1) % size_: a load and a store.
CopyThenMoveRear ==
  \/ /\ wpc = "copy"
     /\ p_buf_' = [p_buf_ EXCEPT ![rear_] = src]
     /\ at' = rear_
     /\ wpc' = "move_rear"
     /\ UNCHANGED <<rear_, src>>
  \/ /\ wpc = "move_rear"
     /\ rear_' = Advance(at, 1)
     /\ src' = src + 1
     /\ wpc' = "copy"
     /\ UNCHANGED <<p_buf_, at>>

\* Slip: the last free cell is given away, and a full ring looks empty.
NeverFull == FALSE

Full == Advance(rear_, 1) = front_

CopyByte ==
  /\ wpc = "copy" => src <= received /\ ~Full
  /\ CopyThenMoveRear
  /\ UNCHANGED <<front_, received, cut, indices, packet, connected, early>>

Enqueued ==
  /\ wpc = "copy"
  /\ src > received \/ Full
  /\ Drop
  /\ UNCHANGED <<ring, received, at, indices, packet, connected, early>>

PushUserIndex ==
  /\ wpc = "push"
  /\ indices' = indices + 1
  /\ wpc' = "idle"
  /\ UNCHANGED <<ring, received, src, at, cut, packet, connected, early>>

Worker == OnRecv \/ FreeSize \/ CopyByte \/ Enqueued \/ PushUserIndex

-----------------------------------------------------------------------------
(* The packet thread: DequeuePacket, GetPacketData, CompleteProcess. *)

Step(from, to) == ppc = from /\ ppc' = to

PopUserIndex ==
  /\ indices > 0
  /\ Step("idle", "peek")
  /\ indices' = indices - 1
  /\ UNCHANGED <<ring, worker, header, less, served, connected, early>>

InUse == (rear_ - front_) % size_

\* Peek of the header. It looks at rear_ before every byte, and the last look
\* counts. A header that is not the header of a packet has any size: from then
\* on the stream is read out of step, which is not followed any further.
PeekHeader ==
  /\ ppc = "peek"
  /\ IF InUse < HeaderLen
       THEN ppc' = "idle" /\ UNCHANGED header
       ELSE \/ \E k \in DOMAIN Packets :
                 Holds(HeaderLen, k) /\ header' = k /\ ppc' = "compare"
            \/ /\ \A k \in DOMAIN Packets : ~Holds(HeaderLen, k)
               /\ ppc' = "astray"
               /\ UNCHANGED header
  /\ UNCHANGED <<ring, worker, indices, less, served, connected, early>>

\* GetSizeInUse reads rear_ to compare it and again to subtract: a worker that
\* wraps in between makes the size negative.
Compare(from, to) ==
  /\ Step(from, to)
  /\ less' = (front_ > rear_)
  /\ UNCHANGED <<ring, worker, indices, header, served, connected, early>>

SizeInUse == IF less THEN size_ - (front_ - rear_) ELSE rear_ - front_

\* Slip: a packet is handed on as soon as its header is there.
HeaderIsEnough == TRUE

WholePacket == SizeInUse >= Packets[header]

GetPacketData ==
  /\ ppc = "size"
  /\ IF WholePacket THEN ppc' = "handle" /\ served' = Append(served, header)
                    ELSE ppc' = "idle" /\ UNCHANGED served
  /\ UNCHANGED <<ring, worker, indices, header, less, connected, early>>

\* The handler has returned.
MoveFront ==
  /\ Step("handle", "compare_rest")
  /\ front_' = Advance(front_, Packets[header])
  /\ UNCHANGED <<p_buf_, rear_, worker, indices, header, less, served, connected, early>>

\* Slip: the index is not queued again for what is left.
NothingListed == indices

\* CompleteProcess is false if bytes are left: the index is queued again.
ListedAgain == IF SizeInUse > 0 THEN indices + 1 ELSE indices

CompleteProcess ==
  /\ Step("rest", "idle")
  /\ indices' = ListedAgain
  /\ UNCHANGED <<ring, worker, header, less, served, connected, early>>

\* ConnectHandler, User::Clear: front_ = 0, rear_ = 0.
ClearBuffer ==
  /\ \/ /\ ~connected
        /\ Step("idle", "clear_rear")
        /\ connected' = TRUE
        /\ front_' = 0
        /\ UNCHANGED rear_
     \/ /\ Step("clear_rear", "idle")
        /\ rear_' = 0
        /\ UNCHANGED <<front_, connected>>
  /\ UNCHANGED <<p_buf_, worker, indices, header, less, served, early>>

PacketThread ==
  \/ PopUserIndex
  \/ PeekHeader
  \/ Compare("compare", "size")
  \/ GetPacketData
  \/ MoveFront
  \/ Compare("compare_rest", "rest")
  \/ CompleteProcess
  \/ ClearBuffer

Next == Worker \/ PacketThread

Spec == Init /\ [][Next]_vars

\* Both threads run; the client may stop sending.
FairSpec ==
  /\ Spec
  /\ WF_vars(Worker /\ wpc # "idle")
  /\ WF_vars(PacketThread /\ (ppc = "idle" => indices > 0))

-----------------------------------------------------------------------------
TypeOK ==
  /\ p_buf_ \in [Cells -> 0 .. Total]
  /\ front_ \in Cells /\ rear_ \in Cells /\ at \in Cells
  /\ wpc \in {"idle", "free_size", "copy", "move_rear", "push"}
  /\ received \in 0 .. Total /\ src \in 1 .. Total + 1
  /\ cut \in BOOLEAN /\ less \in BOOLEAN
  /\ connected \in BOOLEAN /\ early \in BOOLEAN
  /\ indices \in Nat
  /\ ppc \in {"idle", "peek", "compare", "size", "handle", "compare_rest", "rest",
              "clear_rear", "astray"}
  /\ header \in 0 .. Len(First) - 1
  /\ served \in Seq(DOMAIN Packets)

\* As long as nothing was cut off and no byte came before CONNECT was served, the
\* handlers get the client's packets, each once and in order, though the two
\* threads share no lock.
PacketsInOrder ==
  ~cut /\ ~early => ppc # "astray" /\ served = [i \in 1 .. Len(served) |-> i]

\* Until its handler returns, every byte of a packet stays in its place, also
\* while the worker adds bytes behind it (user.cpp:51-57). The handler reads
\* them through a pointer to the first, so it has them all unless they wrap.
\* So as long as nothing was cut off and no byte came before CONNECT was served.
PacketKeptWhileHandled ==
  ~cut /\ ~early /\ ppc = "handle" => Holds(Packets[header], header)

\* A packet that has come whole is served: the size GetSizeInUse makes of two
\* reads of rear_ may be wrong, and still the index is queued once more. Unless
\* bytes were cut off or came before CONNECT was served.
WholePacketsServed ==
  \A k \in DOMAIN Packets :
    src >= First[k + 1] /\ wpc = "idle" ~> cut \/ early \/ Len(served) >= k

\* CONNECT initialises the user's data (README.md:43-46): it does not bring
\* back a packet that was served before.
NoPacketServedAgain ==
  \A i, j \in DOMAIN served : i # j => served[i] # served[j]
=============================================================================
