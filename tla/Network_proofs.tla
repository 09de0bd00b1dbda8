--------------------------- MODULE Network_proofs ---------------------------
(* What holds of Network for every number of slots, workers, connections and *)
(* packets.                                                                  *)
EXTENDS Network, FiniteSetTheorems, TLAPS

-----------------------------------------------------------------------------
(* Who holds a slot. From BindAccept until it is back in the pool a slot is  *)
(* held by its accept, then by the worker that sets it up, then by nobody    *)
(* but is_activated_, then by the thread that won the exchange of            *)
(* CloseSocket. The receive is passed on like a token beside that, until the *)
(* slot is reused without waiting.                                           *)

Setup     == {"bind_iocp", "on_connect", "activate"}
Receiving == {"on_connect", "activate", "activate_clear", "bind_recv", "on_recv"}
Clearing  == {"close_socket", "close_clear", "close_sending", "close_time"}

AcceptHolds(s) ==
  accept_io[s] # "none" =>
    /\ latest_conn_closed_[s] = "max" /\ ~is_activated_[s]
    /\ socket_[s] = (IF accept_io[s] = "pending" THEN "accepting" ELSE "connected")
    /\ \A t \in Threads : on[t] = s => pc[t] \notin Setup \cup Clearing
    /\ ~rushed[s] => /\ recv_io[s] = "none"
                     /\ \A t \in Threads : on[t] = s => pc[t] \notin Receiving

SetupHolds(s) ==
  \A t \in Threads : on[t] = s /\ pc[t] \in Setup =>
    /\ latest_conn_closed_[s] = "max" /\ ~is_activated_[s]
    /\ socket_[s] = "connected"
    /\ \A u \in Threads : u # t /\ on[u] = s => pc[u] \notin Setup \cup Clearing
    /\ ~rushed[s] => /\ recv_io[s] = "none"
                     /\ \A u \in Threads : u # t /\ on[u] = s => pc[u] \notin Receiving

ActiveHolds(s) ==
  is_activated_[s] =>
    /\ latest_conn_closed_[s] = "max"
    /\ socket_[s] = "connected"
    /\ \A t \in Threads : on[t] = s => pc[t] \notin Clearing

ClearingHolds(s) ==
  \A t \in Threads : on[t] = s /\ pc[t] \in Clearing =>
    /\ latest_conn_closed_[s] = "max"
    /\ socket_[s] = (IF pc[t] = "close_socket" THEN "connected" ELSE "invalid")
    /\ \A u \in Threads : u # t /\ on[u] = s => pc[u] \notin Clearing

\* The time for the slot's reuse has come. The sender may yet store UINT64_MAX
\* when the accepter has already seen it.
Due(s) ==
  \/ latest_conn_closed_[s] = "old"
  \/ scan = "bind" /\ slot = s /\ ~rushed[s]

\* A slot in the pool, "now" or "old": once it is due only the sender can still
\* be at it.
PoolHolds(s) ==
  /\ latest_conn_closed_[s] # "max" => socket_[s] = "invalid"
  /\ Due(s) /\ ~rushed[s] =>
       /\ recv_io[s] = "none" /\ send_io[s] = "none"
       /\ \A w \in Workers : on[w] # s

\* What the accepter has taken for closed stays closed until it accepts it.
AccepterHolds(s) ==
  slot = s /\ scan \in {"subtract", "bind"} =>
    /\ ~is_activated_[s] /\ accept_io[s] = "none" /\ socket_[s] = "invalid"
    /\ \A t \in Threads : on[t] = s => pc[t] \notin Setup \cup Clearing

OneReceiver(s) ==
  ~rushed[s] =>
    \A t \in Threads : on[t] = s /\ pc[t] \in Receiving =>
      /\ recv_io[s] = "none"
      /\ \A u \in Threads : u # t /\ on[u] = s => pc[u] \notin Receiving

\* A thread that is not idle, and no other, is at work on a slot.
Busy == \A t \in Threads : pc[t] # "idle" <=> on[t] \in Sessions

Held(s) ==
  /\ AcceptHolds(s)
  /\ SetupHolds(s)
  /\ ActiveHolds(s)
  /\ ClearingHolds(s)
  /\ PoolHolds(s)
  /\ AccepterHolds(s)
  /\ OneReceiver(s)

\* The workers accept and receive, the sender does not.
SenderOnlySends == pc[Sender] \notin Setup \cup Receiving

HeldInv == TypeOK /\ Busy /\ SenderOnlySends /\ \A s \in Sessions : Held(s)

-----------------------------------------------------------------------------
(* Who may send, in a slot that was never reused without waiting.            *)

\* is_sending_ is set as long as a send of a socket that is not closed is
\* outstanding; a socket that was closed no longer matters.
Outstanding(s) ==
  send_io[s] # "none" \/ \E w \in Workers : on[w] = s /\ pc[w] = "send_done"

SendingSet(s) == socket_[s] # "invalid" /\ Outstanding(s) => is_sending_[s]

OneSendDone(s) ==
  \A w \in Workers : on[w] = s /\ pc[w] = "send_done" =>
    /\ send_io[s] = "none"
    /\ \A u \in Workers : u # w /\ on[u] = s => pc[u] # "send_done"

\* The sender may have come to the slot while it was in the pool.
SenderAlone(s) ==
  /\ on[Sender] = s /\ pc[Sender] = "wsa_send"
  /\ socket_[s] # "invalid" \/ Due(s)
  => is_sending_[s] /\ ~Outstanding(s)

SendOK(s) == SendingSet(s) /\ OneSendDone(s) /\ SenderAlone(s)

SendInv == \A s \in Sessions : ~rushed[s] => SendOK(s)

-----------------------------------------------------------------------------
(* What is reported.                                                         *)

\* A connection that was reported open and can be read still has its receive,
\* or a worker that is about to report its end.
ReceiveOrReport(s) ==
  told[s] = "open" /\ ~deaf[s] =>
    \/ recv_io[s] # "none"
    \/ \E w \in Workers : on[w] = s /\ pc[w] \in Receiving \cup {"on_disconnect"}

ReportInv == \A s \in Sessions : ReceiveOrReport(s)

\* The receive may still fail and be reported.
RecvLive(s) ==
  \/ recv_io[s] # "none"
  \/ \E w \in Workers : /\ on[w] = s
                        /\ pc[w] \in {"activate", "activate_clear", "bind_recv", "on_recv"}

\* A send may still fail and be reported: one that fails leaves is_sending_
\* set, and there is no other until the slot has been closed.
SendLive(s) ==
  \/ send_io[s] # "none"
  \/ /\ socket_[s] # "invalid"
     /\ \/ ~is_sending_[s]
        \/ on[Sender] = s /\ pc[Sender] = "wsa_send"
        \/ \E w \in Workers : on[w] = s /\ pc[w] = "send_done"

Reporting(w, s) == w \in Workers /\ on[w] = s /\ pc[w] = "on_disconnect"

NoReport(s)    == \A w \in Workers : ~Reporting(w, s)
OneReport(s)   == \A v, w \in Workers : Reporting(v, s) /\ Reporting(w, s) => v = w
TwoReports(s)  ==
  \A u, v, w \in Workers :
    Reporting(u, s) /\ Reporting(v, s) /\ Reporting(w, s) => u = v \/ v = w \/ u = w

\* At most n reports are under way or to be expected.
AtMostTwo(s) ==
  /\ TwoReports(s)
  /\ RecvLive(s) \/ SendLive(s) => OneReport(s)
  /\ RecvLive(s) /\ SendLive(s) => NoReport(s)

AtMostOne(s) ==
  /\ OneReport(s)
  /\ RecvLive(s) \/ SendLive(s) => NoReport(s)
  /\ ~(RecvLive(s) /\ SendLive(s))

None(s) == NoReport(s) /\ ~RecvLive(s) /\ ~SendLive(s)

\* The slot has a socket that was not reported yet, or never will be.
Unannounced(s) ==
  /\ socket_[s] # "invalid" /\ ~is_activated_[s]
  /\ \A t \in Threads : on[t] = s => pc[t] \notin {"activate", "close_socket"}

\* The sender is about to send, or will be.
Sendable(s) ==
  \/ on[Sender] = s /\ pc[Sender] = "wsa_send"
  \/ ~is_sending_[s] /\ \/ on[Sender] = s /\ pc[Sender] = "bind_send"
                        \/ known[s]
                        \/ send_buf_[s] > 0

\* A connection is reported twice at most. What is sent to a slot that has
\* not been reported goes back to a connection of which no end was reported.
Budget(s) ==
  /\ told[s] # "stray"
  /\ Unannounced(s) =>
       /\ OneReport(s)
       /\ ~RecvLive(s)
       /\ SendLive(s) => NoReport(s)
       /\ told[s] # "open" => NoReport(s) /\ ~Sendable(s) /\ ~Outstanding(s)
  /\ ~Unannounced(s) =>
       /\ told[s] = "free" => None(s)
       /\ told[s] = "closed" => AtMostOne(s)
       /\ told[s] = "open" => AtMostTwo(s)
  /\ Due(s) /\ Sendable(s) => told[s] = "open"

BudgetInv == \A s \in Sessions : ~rushed[s] => Budget(s)

-----------------------------------------------------------------------------
(* Type correctness.                                                         *)

\* What the environment does to a slot.
SlotStep(s) ==
  \/ AcceptCompletes(s)
  \/ RecvCompletes(s)
  \/ SendCompletes(s)
  \/ SendPacket(s)
  \/ ContentServesDisconnect(s)
  \/ Elapse(s)

ThreadsOK ==
  /\ pc \in [Threads -> Steps]
  /\ on \in [Threads -> Sessions \cup {NoSession}]
  /\ accepting \in [Threads -> BOOLEAN]
  /\ Busy

LEMMA SenderIsThread == Sender \in Threads
BY DEF Threads

LEMMA WorkerIsThread == ASSUME NEW w \in Workers PROVE w \in Threads
BY DEF Threads

\* The two ways in which most steps leave a thread.
LEMMA ThreadDone ==
  ASSUME ThreadsOK, NEW t \in Threads, Done(t)
  PROVE  ThreadsOK'
BY NamesAssumption DEF ThreadsOK, Busy, Done, Goto, Steps

LEMMA ThreadGoes ==
  ASSUME ThreadsOK, NEW t \in Threads, pc[t] # "idle",
         UNCHANGED <<on, accepting>>, NEW step \in Steps \ {"idle"}, Goto(t, step)
  PROVE  ThreadsOK'
BY DEF ThreadsOK, Busy, Goto, Steps

LEMMA SlotStepType ==
  ASSUME TypeOK, Busy, UNCHANGED accepter, NEW s \in Sessions, SlotStep(s)
  PROVE  TypeOK' /\ Busy'
<1> USE BoundsAssumption, NamesAssumption
    DEF TypeOK, Busy, session, io, threads, history, accepter
<1>2. CASE AcceptCompletes(s)
  BY <1>2 DEF AcceptCompletes
<1>3. CASE RecvCompletes(s)
  BY <1>3 DEF RecvCompletes
<1>4. CASE SendCompletes(s)
  BY <1>4 DEF SendCompletes
<1>5. CASE SendPacket(s)
  BY <1>5 DEF SendPacket
<1>6. CASE ContentServesDisconnect(s)
  BY <1>6 DEF ContentServesDisconnect
<1>7. CASE Elapse(s)
  BY <1>7 DEF Elapse
<1> QED BY <1>2, <1>3, <1>4, <1>5, <1>6, <1>7 DEF SlotStep

LEMMA AccepterStepType ==
  ASSUME TypeOK, Busy, AccepterThread
  PROVE  TypeOK' /\ Busy'
<1> USE BoundsAssumption, NamesAssumption
    DEF TypeOK, Busy, session, io, threads, history, NextSlot
<1>1. ASSUME NEW s \in Sessions, LookAt(s) PROVE TypeOK' /\ Busy'
  BY <1>1 DEF LookAt
<1>2. CASE CompareTime
  BY <1>2 DEF CompareTime
<1>3. CASE Subtract
  BY <1>3 DEF Subtract
<1>4. CASE BindAccept
  BY <1>4 DEF BindAccept
<1> QED BY <1>1, <1>2, <1>3, <1>4 DEF AccepterThread

LEMMA WorkerStepType ==
  ASSUME TypeOK, Busy, UNCHANGED accepter, NEW w \in Workers, WorkerThread(w)
  PROVE  TypeOK' /\ Busy'
<1>0. w \in Threads
  BY WorkerIsThread
<1> USE BoundsAssumption, NamesAssumption, <1>0
    DEF TypeOK, Busy, session, io, threads, history, accepter, Take, Done, Goto, Steps
<1>1. ASSUME NEW s \in Sessions, TakeAccept(w, s) PROVE TypeOK' /\ Busy'
  BY <1>1 DEF TakeAccept
<1>2. ASSUME NEW s \in Sessions, TakeRecv(w, s) PROVE TypeOK' /\ Busy'
  BY <1>2 DEF TakeRecv, ServeRecv
<1>3. ASSUME NEW s \in Sessions, TakeSend(w, s) PROVE TypeOK' /\ Busy'
  BY <1>3 DEF TakeSend
<1>o. ASSUME NEW s \in Sessions, TakeOvertaken(w, s) PROVE TypeOK' /\ Busy'
  BY <1>o DEF TakeOvertaken
<1>4. CASE BindIOCompletionPort(w)
  <2>1. CASE Goto(w, "on_connect") /\ UNCHANGED accepting
    BY <1>4, <2>1 DEF BindIOCompletionPort
  <2>2. CASE Goto(w, "close_max") /\ accepting' = [accepting EXCEPT ![w] = FALSE]
    BY <1>4, <2>2 DEF BindIOCompletionPort
  <2> QED BY <1>4, <2>1, <2>2 DEF BindIOCompletionPort
<1>5. CASE OnConnect(w)
  BY <1>5 DEF OnConnect
<1>6. CASE Activate(w)
  BY <1>6 DEF Activate
<1>7. CASE ActivateClear(w)
  BY <1>7 DEF ActivateClear
<1>8. CASE BindRecv(w)
  <2>1. CASE /\ recv_io' = [recv_io EXCEPT ![on[w]] = "pending"]
             /\ UNCHANGED deaf
    <3>1. CASE Goto(w, "count") /\ UNCHANGED <<on, accepting>>
      BY <1>8, <2>1, <3>1 DEF BindRecv
    <3>2. CASE Done(w)
      BY <1>8, <2>1, <3>2 DEF BindRecv
    <3> QED BY <1>8, <2>1, <3>1, <3>2 DEF BindRecv
  <2>2. CASE /\ deaf' = [deaf EXCEPT ![on[w]] = TRUE]
             /\ Goto(w, "close_max")
             /\ UNCHANGED <<recv_io, on, accepting>>
    BY <1>8, <2>2 DEF BindRecv
  <2> QED BY <1>8, <2>1, <2>2 DEF BindRecv
<1>9. CASE Count(w)
  BY <1>9 DEF Count
<1>10. CASE OnRecv(w)
  BY <1>10 DEF OnRecv
<1>11. CASE SendDone(w)
  BY <1>11 DEF SendDone
<1>12. CASE OnDisconnect(w)
  BY <1>12 DEF OnDisconnect
<1> QED BY <1>1, <1>2, <1>3, <1>o, <1>4, <1>5, <1>6, <1>7, <1>8, <1>9, <1>10, <1>11, <1>12
        DEF WorkerThread

LEMMA SenderStepType ==
  ASSUME TypeOK, Busy, UNCHANGED accepter, SenderThread
  PROVE  TypeOK' /\ Busy'
<1>0. Sender \in Threads /\ ThreadsOK
  BY SenderIsThread DEF TypeOK, ThreadsOK
<1>1. ASSUME NEW s \in Sessions, HasSendData(s) PROVE TypeOK' /\ Busy'
  BY <1>0, <1>1 DEF HasSendData, TypeOK, Busy, Goto, Steps, session, io, history, accepter
<1>2. CASE BindSend
  <2>1. ThreadsOK'
    BY <1>0, <1>2, ThreadDone, ThreadGoes DEF BindSend, Steps
  <2>2. is_sending_' \in [Sessions -> BOOLEAN]
    BY <1>2 DEF BindSend, TypeOK
  <2> QED BY <1>2, <2>1, <2>2 DEF BindSend, TypeOK, ThreadsOK, io, history, accepter
<1>3. CASE WSASend
  <2>1. ThreadsOK'
    BY <1>0, <1>3, ThreadDone, ThreadGoes DEF WSASend, Steps
  <2>2. on[Sender] \in Sessions
    BY <1>0, <1>3 DEF WSASend, Busy, ThreadsOK
  <2>3. send_io' \in [Sessions -> {"none", "pending", "done", "failed"}]
    BY <1>3, <2>2 DEF WSASend, TypeOK
  <2>4. send_buf_' \in [Sessions -> Nat] /\ given' \in [Sessions -> Nat]
    BY <1>3, <2>2 DEF WSASend, TypeOK
  <2> QED BY <1>3, <2>1, <2>3, <2>4 DEF WSASend, TypeOK, ThreadsOK, accepter
<1> QED BY <1>1, <1>2, <1>3 DEF SenderThread

LEMMA CloseStepType ==
  ASSUME TypeOK, Busy, UNCHANGED accepter, NEW t \in Threads, CloseSocket(t)
  PROVE  TypeOK' /\ Busy'
<1>1. ThreadsOK'
  <2>1. ThreadsOK
    BY DEF TypeOK, ThreadsOK
  <2> QED BY <2>1, ThreadDone, ThreadGoes
          DEF CloseSocket, CloseMax, CloseCas, CloseOnce, ClosesocketStep, ClearSendBuffer,
              ClearSending, ClearClosedTime, CloseCount, CloseReturns, Steps
<1>2. CASE CloseMax(t) \/ ClearClosedTime(t)
  BY <1>1, <1>2 DEF CloseMax, ClearClosedTime, TypeOK, ThreadsOK, accepter, io, history
<1>3. CASE CloseCas(t)
  BY <1>1, <1>3, ZenonT(60) DEF CloseCas, CloseOnce, TypeOK, ThreadsOK, accepter, io, history
<1>4. CASE ClosesocketStep(t)
  BY <1>1, <1>4 DEF ClosesocketStep, Aborted, TypeOK, ThreadsOK, accepter, history
<1>5. CASE ClearSendBuffer(t)
  BY <1>1, <1>5 DEF ClearSendBuffer, TypeOK, ThreadsOK, accepter, io
<1>6. CASE ClearSending(t)
  BY <1>1, <1>6 DEF ClearSending, TypeOK, ThreadsOK, accepter, io, history
<1>7. CASE CloseCount(t)
  <2>1. current_session_cnt_' \in 0 .. CntRange - 1
    BY <1>7, BoundsAssumption DEF CloseCount, CountDown, TypeOK
  <2> QED BY <1>1, <1>7, <2>1 DEF CloseCount, TypeOK, ThreadsOK, accepter, session, io, history
<1> QED BY <1>2, <1>3, <1>4, <1>5, <1>6, <1>7 DEF CloseSocket
-----------------------------------------------------------------------------
(* A slot stays held.                                                        *)

LEMMA SlotStepHeld ==
  ASSUME HeldInv, UNCHANGED accepter, NEW s \in Sessions, SlotStep(s), NEW x \in Sessions
  PROVE  Held(x)'
<1> USE DEF HeldInv, Held, AcceptHolds, SetupHolds, ActiveHolds, ClearingHolds, PoolHolds,
            Due, AccepterHolds, OneReceiver, TypeOK, Setup, Receiving, Clearing,
            session, io, threads, history, accepter
<1>2. CASE AcceptCompletes(s)
  BY <1>2 DEF AcceptCompletes
<1>3. CASE RecvCompletes(s)
  BY <1>3 DEF RecvCompletes
<1>4. CASE SendCompletes(s)
  BY <1>4 DEF SendCompletes
<1>5. CASE SendPacket(s)
  BY <1>5 DEF SendPacket
<1>6. CASE ContentServesDisconnect(s)
  BY <1>6 DEF ContentServesDisconnect
<1>7. CASE Elapse(s)
  BY <1>7, WorkerIsThread DEF Elapse, Still
<1> QED BY <1>2, <1>3, <1>4, <1>5, <1>6, <1>7 DEF SlotStep

LEMMA AccepterStepHeld ==
  ASSUME HeldInv, AccepterThread, NEW x \in Sessions
  PROVE  Held(x)'
<1> USE NamesAssumption
        DEF HeldInv, Held, AcceptHolds, SetupHolds, ActiveHolds, ClearingHolds, PoolHolds,
            Due, AccepterHolds, OneReceiver, TypeOK, Setup, Receiving, Clearing,
            session, io, threads, history, NextSlot
<1>1. ASSUME NEW s \in Sessions, LookAt(s) PROVE Held(x)'
  BY <1>1 DEF LookAt
<1>2. CASE CompareTime
  BY <1>2 DEF CompareTime
<1>3. CASE Subtract
  <2>1. /\ rushed[x] => rushed'[x]
        /\ Due(x)' /\ ~rushed'[x] => Due(x)
    BY <1>3 DEF Subtract, LongClosed
  <2>2. slot' = x /\ scan' \in {"subtract", "bind"} => slot = x /\ scan = "subtract"
    BY <1>3 DEF Subtract
  <2>3. UNCHANGED <<session, io, threads>>
    BY <1>3 DEF Subtract
  <2>4. AcceptHolds(x)' /\ SetupHolds(x)' /\ ActiveHolds(x)' /\ ClearingHolds(x)'
    BY <2>1, <2>3
  <2>5. PoolHolds(x)'
    <3>1. Held(x) /\ (Due(x)' /\ ~rushed'[x] => Due(x) /\ ~rushed[x])
      BY <2>1
    <3> HIDE DEF Due
    <3> QED BY <2>3, <3>1
  <2>6. AccepterHolds(x)' /\ OneReceiver(x)'
    BY <2>1, <2>2, <2>3
  <2> QED BY <2>4, <2>5, <2>6
<1>4. CASE BindAccept
  <2>1. ~rushed[slot] => \A t \in Threads : on[t] = slot => pc[t] \notin Receiving
    <3>1. ASSUME ~rushed[slot], NEW t \in Threads, on[t] = slot PROVE t = Sender
      BY <1>4, <3>1 DEF BindAccept, Threads
    <3> QED BY <1>4, <3>1 DEF BindAccept, SenderOnlySends
  <2> QED BY <1>4, <2>1 DEF BindAccept
<1> QED BY <1>1, <1>2, <1>3, <1>4 DEF AccepterThread

LEMMA WorkerStepHeld ==
  ASSUME HeldInv, UNCHANGED accepter, NEW w \in Workers, WorkerThread(w), NEW x \in Sessions
  PROVE  Held(x)'
<1> w \in Threads
  BY WorkerIsThread
<1> USE NamesAssumption
        DEF HeldInv, Held, AcceptHolds, SetupHolds, ActiveHolds, ClearingHolds, PoolHolds,
            Due, AccepterHolds, OneReceiver, TypeOK, Setup, Receiving, Clearing,
            session, io, threads, history, accepter,
            Take, Goto, Done, Busy, Steps
<1>1. ASSUME NEW s \in Sessions, TakeAccept(w, s) PROVE Held(x)'
  BY <1>1 DEF TakeAccept
<1>2. ASSUME NEW s \in Sessions, TakeRecv(w, s) PROVE Held(x)'
  BY <1>2 DEF TakeRecv, ServeRecv
<1>3. ASSUME NEW s \in Sessions, TakeSend(w, s) PROVE Held(x)'
  BY <1>3 DEF TakeSend
<1>o. ASSUME NEW s \in Sessions, TakeOvertaken(w, s) PROVE Held(x)'
  BY <1>o DEF TakeOvertaken
<1>4. CASE BindIOCompletionPort(w)
  BY <1>4 DEF BindIOCompletionPort
<1>5. CASE OnConnect(w)
  BY <1>5 DEF OnConnect
<1>6. CASE Activate(w)
  BY <1>6 DEF Activate
<1>7. CASE ActivateClear(w)
  BY <1>7 DEF ActivateClear
<1>8. CASE BindRecv(w)
  <2>1. CASE /\ recv_io' = [recv_io EXCEPT ![on[w]] = "pending"]
             /\ Goto(w, "count") /\ UNCHANGED <<on, accepting>>
    BY <1>8, <2>1 DEF BindRecv
  <2>2. CASE recv_io' = [recv_io EXCEPT ![on[w]] = "pending"] /\ Done(w)
    BY <1>8, <2>2 DEF BindRecv
  <2>3. CASE Goto(w, "close_max") /\ UNCHANGED <<recv_io, on, accepting>>
    BY <1>8, <2>3 DEF BindRecv
  <2> QED BY <1>8, <2>1, <2>2, <2>3 DEF BindRecv
<1>9. CASE Count(w)
  BY <1>9 DEF Count
<1>10. CASE OnRecv(w)
  BY <1>10 DEF OnRecv
<1>11. CASE SendDone(w)
  BY <1>11 DEF SendDone
<1>12. CASE OnDisconnect(w)
  BY <1>12 DEF OnDisconnect
<1> QED BY <1>1, <1>2, <1>3, <1>o, <1>4, <1>5, <1>6, <1>7, <1>8, <1>9, <1>10, <1>11, <1>12
        DEF WorkerThread

LEMMA CloseStepHeld ==
  ASSUME HeldInv, UNCHANGED accepter, NEW t \in Threads, CloseSocket(t), NEW x \in Sessions
  PROVE  Held(x)'
<1> USE NamesAssumption
        DEF HeldInv, Held, AcceptHolds, SetupHolds, ActiveHolds, ClearingHolds, PoolHolds,
            Due, AccepterHolds, OneReceiver, TypeOK, Setup, Receiving, Clearing,
            session, io, threads, history, accepter,
            Goto, Done, Busy, CloseReturns, Steps
<1>1. CASE CloseMax(t)
  BY <1>1 DEF CloseMax
<1>2. CASE CloseCas(t)
  <2>1. CASE is_activated_[on[t]]
    <3> DEFINE s == on[t]
    <3>1. /\ s \in Sessions /\ is_activated_[s] /\ pc[t] = "close_cas"
          /\ is_activated_' = [is_activated_ EXCEPT ![s] = FALSE]
          /\ pc' = [pc EXCEPT ![t] = "close_socket"]
          /\ UNCHANGED <<socket_, latest_conn_closed_, accept_io, recv_io, send_io, on, accepter>>
      BY <1>2, <2>1 DEF CloseCas, CloseOnce
    <3> HIDE DEF s
    <3>2. s = on[t]
      BY DEF s
    <3>3. AcceptHolds(x)' /\ SetupHolds(x)'
      BY <3>1, <3>2
    <3>4. ActiveHolds(x)' /\ ClearingHolds(x)'
      BY <3>1, <3>2
    <3>5. PoolHolds(x)' /\ AccepterHolds(x)' /\ OneReceiver(x)'
      BY <3>1, <3>2
    <3> QED BY <3>3, <3>4, <3>5
  <2>2. CASE ~is_activated_[on[t]] /\ Goto(t, "count") /\ UNCHANGED on
    BY <1>2, <2>2 DEF CloseCas, CloseOnce
  <2>3. CASE ~is_activated_[on[t]] /\ Done(t)
    BY <1>2, <2>3 DEF CloseCas, CloseOnce
  <2> QED BY <1>2, <2>1, <2>2, <2>3 DEF CloseCas, CloseOnce
<1>3. CASE ClosesocketStep(t)
  BY <1>3 DEF ClosesocketStep, Aborted
<1>4. CASE ClearSendBuffer(t)
  BY <1>4 DEF ClearSendBuffer
<1>5. CASE ClearSending(t)
  BY <1>5 DEF ClearSending
<1>6. CASE ClearClosedTime(t)
  BY <1>6 DEF ClearClosedTime
<1>7. CASE CloseCount(t)
  <2>1. CASE Goto(t, "count") /\ UNCHANGED on
    BY <1>7, <2>1 DEF CloseCount
  <2>2. CASE Done(t)
    BY <1>7, <2>2 DEF CloseCount
  <2> QED BY <1>7, <2>1, <2>2 DEF CloseCount
<1> QED BY <1>1, <1>2, <1>3, <1>4, <1>5, <1>6, <1>7 DEF CloseSocket

LEMMA SenderStepHeld ==
  ASSUME HeldInv, UNCHANGED accepter, SenderThread, NEW x \in Sessions
  PROVE  Held(x)'
<1> Sender \in Threads
  BY SenderIsThread
<1> USE NamesAssumption
        DEF HeldInv, Held, AcceptHolds, SetupHolds, ActiveHolds, ClearingHolds, PoolHolds,
            Due, AccepterHolds, OneReceiver, TypeOK, Setup, Receiving, Clearing,
            session, io, threads, history, accepter,
            Goto, Done, Busy, Steps
<1>1. ASSUME NEW s \in Sessions, HasSendData(s) PROVE Held(x)'
  BY <1>1 DEF HasSendData
<1>2. CASE BindSend
  <2>1. CASE Goto(Sender, "wsa_send") /\ UNCHANGED on
    BY <1>2, <2>1 DEF BindSend
  <2>2. CASE Done(Sender)
    BY <1>2, <2>2 DEF BindSend
  <2> QED BY <1>2, <2>1, <2>2 DEF BindSend
<1>3. CASE WSASend
  <2> UNCHANGED <<socket_, is_activated_, latest_conn_closed_, accept_io, recv_io>>
    BY <1>3 DEF WSASend
  <2>1. pc[Sender] = "wsa_send" /\ on[Sender] \in Sessions
    BY <1>3 DEF WSASend
  <2>2. Due(x) /\ ~rushed[x] => send_io'[x] = "none"
    BY <1>3, <2>1 DEF WSASend
  <2>3. CASE Goto(Sender, "close_max") /\ UNCHANGED on
    BY <2>1, <2>2, <2>3
  <2>4. CASE Done(Sender)
    BY <2>1, <2>2, <2>4
  <2> QED BY <1>3, <2>3, <2>4 DEF WSASend
<1> QED BY <1>1, <1>2, <1>3 DEF SenderThread

\* No step gives the sender the work of a worker.
LEMMA SenderStaysSender ==
  ASSUME HeldInv, Next
  PROVE  SenderOnlySends'
<1> Sender \in Threads
  BY SenderIsThread
<1> USE DEF HeldInv, TypeOK, SenderOnlySends, Setup, Receiving, threads, Goto, Done, Take
<1>1. ASSUME NEW s \in Sessions, SlotStep(s) PROVE SenderOnlySends'
  BY <1>1 DEF SlotStep, AcceptCompletes, RecvCompletes, SendCompletes, SendPacket,
              ContentServesDisconnect, Elapse
<1>a. CASE AccepterThread
  BY <1>a DEF AccepterThread, LookAt, CompareTime, Subtract, BindAccept
<1>2. ASSUME NEW w \in Workers, WorkerThread(w) PROVE SenderOnlySends'
  <2>1. w # Sender /\ w \in Threads
    BY WorkerIsThread, NamesAssumption
  <2>2. pc'[Sender] = pc[Sender]
    BY <1>2, <2>1
       DEF WorkerThread, TakeAccept, TakeRecv, TakeSend, TakeOvertaken, ServeRecv,
           BindIOCompletionPort, OnConnect, Activate, ActivateClear, BindRecv, Count, OnRecv, SendDone, OnDisconnect
  <2> QED BY <2>2
<1>3. CASE SenderThread
  BY <1>3 DEF SenderThread, HasSendData, BindSend, WSASend
<1>4. ASSUME NEW t \in Threads, CloseSocket(t) PROVE SenderOnlySends'
  BY <1>4 DEF CloseSocket, CloseMax, CloseCas, CloseOnce, ClosesocketStep, ClearSendBuffer,
              ClearSending, ClearClosedTime, CloseCount, CloseReturns
<1> QED BY <1>1, <1>a, <1>2, <1>3, <1>4 DEF Next, OthersStep, SlotStep

LEMMA HeldStep ==
  ASSUME HeldInv, [Next]_vars
  PROVE  HeldInv'
<1>1. TypeOK /\ Busy
  BY DEF HeldInv
<1>a. CASE AccepterThread
  BY <1>1, <1>a, AccepterStepType, AccepterStepHeld, SenderStaysSender DEF HeldInv, Next
<1>2. CASE OthersStep /\ UNCHANGED accepter
  <2>0. SenderOnlySends'
    BY <1>2, SenderStaysSender DEF Next
  <2>1. ASSUME NEW s \in Sessions, SlotStep(s) PROVE HeldInv'
    BY <1>1, <1>2, <2>0, <2>1, SlotStepType, SlotStepHeld DEF HeldInv
  <2>2. ASSUME NEW w \in Workers, WorkerThread(w) PROVE HeldInv'
    BY <1>1, <1>2, <2>0, <2>2, WorkerStepType, WorkerStepHeld DEF HeldInv
  <2>3. CASE SenderThread
    BY <1>1, <1>2, <2>0, <2>3, SenderStepType, SenderStepHeld DEF HeldInv
  <2>4. ASSUME NEW t \in Threads, CloseSocket(t) PROVE HeldInv'
    BY <1>1, <1>2, <2>0, <2>4, CloseStepType, CloseStepHeld DEF HeldInv
  <2> QED BY <1>2, <2>1, <2>2, <2>3, <2>4 DEF OthersStep, SlotStep
<1>3. CASE UNCHANGED vars
  BY <1>3 DEF HeldInv, Held, AcceptHolds, SetupHolds, ActiveHolds, ClearingHolds, PoolHolds,
              Due, AccepterHolds, OneReceiver, TypeOK, Busy, SenderOnlySends,
              vars, session, io, threads, history, accepter
<1> QED BY <1>a, <1>2, <1>3 DEF Next

LEMMA HeldAlways == Spec => []HeldInv
<1>1. Init => HeldInv
  <2> SUFFICES ASSUME Init PROVE HeldInv
    OBVIOUS
  <2>1. \A t \in Threads : pc[t] = "idle" /\ on[t] = NoSession
    BY DEF Init
  <2>2. TypeOK
    BY BoundsAssumption DEF Init, TypeOK, Steps
  <2>3. Busy /\ SenderOnlySends
    BY <2>1, SenderIsThread, NamesAssumption DEF Busy, SenderOnlySends, Setup, Receiving
  <2>4. ASSUME NEW s \in Sessions PROVE Held(s)
    <3>1. \A t \in Threads : on[t] # s
      BY <2>1, NamesAssumption
    <3> QED BY <3>1, WorkerIsThread
            DEF Init, Held, AcceptHolds, SetupHolds, ActiveHolds, ClearingHolds, PoolHolds,
                AccepterHolds, OneReceiver
  <2> QED BY <2>2, <2>3, <2>4 DEF HeldInv
<1> QED BY <1>1, HeldStep, PTL DEF Spec

\* Every variable of the model keeps the values the members of Session and
\* the threads of Network can have (network.h, session.h), whatever the
\* number of slots and workers.
THEOREM TypeCorrect == Spec => []TypeOK
BY HeldAlways, PTL DEF HeldInv

\* A slot has one receive: no two workers hand over bytes of one connection,
\* and none does while another receive is requested (network.cpp:372-385). So
\* until the accepter reuses the slot without waiting (network.cpp:438-442).
THEOREM OneReceiveAtATime == Spec => []OneReceive
<1>1. HeldInv => OneReceive
  <2> SUFFICES ASSUME HeldInv, NEW s \in Sessions, ~rushed[s]
               PROVE  /\ Cardinality(ReceiveThreads(s)) <= 1
                      /\ recv_io[s] # "none" => ReceiveThreads(s) = {}
    BY DEF OneReceive
  <2>1. \A v, w \in ReceiveThreads(s) : v = w /\ recv_io[s] = "none"
    BY WorkerIsThread DEF HeldInv, Held, OneReceiver, ReceiveThreads, Receiving
  <2>2. CASE ReceiveThreads(s) = {}
    BY <2>2, FS_EmptySet
  <2>3. CASE ReceiveThreads(s) # {}
    <3>1. PICK w : ReceiveThreads(s) = {w}
      BY <2>1, <2>3
    <3>2. w \in ReceiveThreads(s) /\ Cardinality(ReceiveThreads(s)) = 1
      BY <3>1, FS_Singleton
    <3> QED BY <2>1, <3>2
  <2> QED BY <2>2, <2>3
<1> QED BY <1>1, HeldAlways, PTL

\* closesocket is called once for a connection (network.cpp:492-506): who got
\* past the exchange of CloseSocket is alone with the connected socket, on
\* however many threads it is called.
THEOREM ClosedOnlyOnce == Spec => []ClosedOnce
<1>1. HeldInv => ClosedOnce
  <2> SUFFICES ASSUME HeldInv, NEW s \in Sessions
               PROVE  /\ Cardinality(Closing(s)) <= 1
                      /\ Closing(s) # {} => ~is_activated_[s] /\ socket_[s] # "accepting"
                      /\ \A t \in Closing(s) :
                           pc[t] = "close_socket" => socket_[s] = "connected"
    BY DEF ClosedOnce
  <2>1. \A t \in Closing(s) :
          /\ \A u \in Closing(s) : t = u
          /\ ~is_activated_[s]
          /\ socket_[s] = (IF pc[t] = "close_socket" THEN "connected" ELSE "invalid")
    BY DEF HeldInv, Held, ActiveHolds, ClearingHolds, Closing, Clearing
  <2>2. CASE Closing(s) = {}
    BY <2>2, FS_EmptySet
  <2>3. CASE Closing(s) # {}
    <3>1. PICK t : Closing(s) = {t}
      BY <2>1, <2>3
    <3>2. t \in Closing(s) /\ Cardinality(Closing(s)) = 1
      BY <3>1, FS_Singleton
    <3> QED BY <2>1, <3>2
  <2> QED BY <2>2, <2>3
<1> QED BY <1>1, HeldAlways, PTL
-----------------------------------------------------------------------------
(* One send.                                                                 *)

LEMMA SlotStepSend ==
  ASSUME HeldInv, SendInv, UNCHANGED accepter, NEW s \in Sessions, SlotStep(s),
         NEW x \in Sessions, ~rushed[x]
  PROVE  SendOK(x)'
<1> USE DEF HeldInv, TypeOK, SendInv, SendOK, SendingSet, OneSendDone, SenderAlone, Outstanding,
            Due, session, io, threads, history, accepter
<1>0. /\ AcceptHolds(s)
      /\ SendingSet(x) /\ OneSendDone(x) /\ SenderAlone(x)
  BY DEF Held
<1>2. CASE AcceptCompletes(s)
  BY <1>0, <1>2 DEF AcceptCompletes, AcceptHolds
<1>3. CASE RecvCompletes(s)
  BY <1>0, <1>3 DEF RecvCompletes
<1>4. CASE SendCompletes(s)
  BY <1>0, <1>4 DEF SendCompletes
<1>5. CASE SendPacket(s)
  BY <1>0, <1>5 DEF SendPacket
<1>6. CASE ContentServesDisconnect(s)
  BY <1>0, <1>6 DEF ContentServesDisconnect
<1>7. CASE Elapse(s)
  BY <1>0, <1>7, SenderIsThread DEF Elapse, Still
<1> QED BY <1>2, <1>3, <1>4, <1>5, <1>6, <1>7 DEF SlotStep

LEMMA AccepterStepSend ==
  ASSUME HeldInv, SendInv, AccepterThread, NEW x \in Sessions, ~rushed'[x]
  PROVE  SendOK(x)'
<1> USE DEF SendOK, SendingSet, OneSendDone, SenderAlone, Outstanding,
            session, io, threads, history, NextSlot
<1>1. CASE (\E s \in Sessions : LookAt(s)) \/ CompareTime \/ Subtract
  <2>1. UNCHANGED <<session, io, threads>> /\ ~rushed[x]
    BY <1>1 DEF LookAt, CompareTime, Subtract, HeldInv, TypeOK
  <2>2. Due(x)' => Due(x)
    BY <1>1 DEF LookAt, CompareTime, Subtract, LongClosed, Due, HeldInv, TypeOK
  <2>3. SendOK(x)
    BY <2>1 DEF SendInv
  <2> QED BY <2>1, <2>2, <2>3
<1>2. CASE BindAccept
  <2>1. ~rushed[x] /\ UNCHANGED <<is_sending_, send_io, threads>>
    BY <1>2 DEF BindAccept
  <2>2. SendOK(x) /\ PoolHolds(x)
    BY <2>1 DEF SendInv, HeldInv, Held
  <2>3. CASE x = slot
    <3>1. Due(x)
      BY <1>2, <2>1, <2>3 DEF BindAccept, Due
    <3>2. ~Outstanding(x)
      BY <2>1, <2>2, <3>1 DEF PoolHolds
    <3> QED BY <2>1, <2>2, <3>1, <3>2
  <2>4. CASE x # slot
    <3>1. socket_'[x] = socket_[x] /\ (Due(x)' => Due(x))
      BY <1>2, <2>4 DEF BindAccept, Due, HeldInv, TypeOK
    <3> QED BY <2>1, <2>2, <3>1
  <2> QED BY <2>3, <2>4
<1> QED BY <1>1, <1>2 DEF AccepterThread

LEMMA WorkerStepSend ==
  ASSUME HeldInv, SendInv, UNCHANGED accepter, NEW w \in Workers, WorkerThread(w),
         NEW x \in Sessions, ~rushed[x]
  PROVE  SendOK(x)'
<1> w \in Threads /\ Sender \in Threads /\ w # Sender
  BY WorkerIsThread, SenderIsThread, NamesAssumption
<1> USE NamesAssumption
        DEF HeldInv, TypeOK, Busy, Steps, SendInv, SendOK, SendingSet, OneSendDone, SenderAlone,
            Outstanding, Due, session, io, threads, history, accepter, Take, Goto, Done
<1>0. SendingSet(x) /\ OneSendDone(x) /\ SenderAlone(x)
  BY DEF SendInv
<1>1. ASSUME NEW s \in Sessions, TakeAccept(w, s) PROVE SendOK(x)'
  BY <1>0, <1>1 DEF TakeAccept
<1>2. ASSUME NEW s \in Sessions, TakeRecv(w, s) PROVE SendOK(x)'
  BY <1>0, <1>2 DEF TakeRecv, ServeRecv
<1>3. ASSUME NEW s \in Sessions, TakeSend(w, s) PROVE SendOK(x)'
  BY <1>0, <1>3 DEF TakeSend
<1>o. ASSUME NEW s \in Sessions, TakeOvertaken(w, s) PROVE SendOK(x)'
  BY <1>0, <1>o DEF TakeOvertaken
<1>4. CASE BindIOCompletionPort(w)
  <2>1. CASE Goto(w, "on_connect")
    BY <1>0, <1>4, <2>1 DEF BindIOCompletionPort
  <2>2. CASE Goto(w, "close_max")
    BY <1>0, <1>4, <2>2 DEF BindIOCompletionPort
  <2> QED BY <1>4, <2>1, <2>2 DEF BindIOCompletionPort
<1>5. CASE OnConnect(w)
  BY <1>0, <1>5 DEF OnConnect
<1>6. CASE Activate(w)
  BY <1>0, <1>6 DEF Activate
<1>7. CASE ActivateClear(w)
  BY <1>0, <1>7 DEF ActivateClear
<1>8. CASE BindRecv(w)
  <2> UNCHANGED <<session, send_io>> /\ pc[w] = "bind_recv"
    BY <1>8 DEF BindRecv
  <2>1. CASE Goto(w, "count") /\ UNCHANGED on
    BY <1>0, <2>1
  <2>2. CASE Goto(w, "close_max") /\ UNCHANGED on
    BY <1>0, <2>2
  <2>3. CASE Done(w)
    BY <1>0, <2>3
  <2> QED BY <1>8, <2>1, <2>2, <2>3 DEF BindRecv
<1>9. CASE Count(w)
  BY <1>0, <1>9 DEF Count
<1>10. CASE OnRecv(w)
  BY <1>0, <1>10 DEF OnRecv
<1>11. CASE SendDone(w)
  BY <1>0, <1>11 DEF SendDone
<1>12. CASE OnDisconnect(w)
  BY <1>0, <1>12 DEF OnDisconnect
<1> QED BY <1>1, <1>2, <1>3, <1>o, <1>4, <1>5, <1>6, <1>7, <1>8, <1>9, <1>10, <1>11, <1>12
        DEF WorkerThread

LEMMA SenderStepSend ==
  ASSUME HeldInv, SendInv, UNCHANGED accepter, SenderThread, NEW x \in Sessions, ~rushed[x]
  PROVE  SendOK(x)'
<1> Sender \in Threads /\ Sender \notin Workers
  BY SenderIsThread, NamesAssumption
<1> USE NamesAssumption
        DEF HeldInv, TypeOK, Busy, Steps, SendInv, SendOK, SendingSet, OneSendDone, SenderAlone,
            Outstanding, Due, session, io, threads, history, accepter, Take, Goto, Done
<1>0. PoolHolds(x) /\ SendingSet(x) /\ OneSendDone(x) /\ SenderAlone(x)
  BY DEF SendInv, Held
<1>1. ASSUME NEW s \in Sessions, HasSendData(s) PROVE SendOK(x)'
  BY <1>0, <1>1 DEF HasSendData
<1>2. CASE BindSend
  <2> DEFINE s == on[Sender]
  <2> UNCHANGED <<socket_, latest_conn_closed_, send_io>> /\ s \in Sessions
    BY <1>2 DEF BindSend
  <2>1. CASE ~is_sending_[s] /\ Goto(Sender, "wsa_send") /\ UNCHANGED on
    <3>1. is_sending_' = [is_sending_ EXCEPT ![s] = TRUE]
      BY <1>2, <2>1 DEF BindSend, MayBindSend
    <3>2. \A w \in Workers : pc'[w] = pc[w]
      BY <2>1
    <3> QED BY <1>0, <2>1, <3>1, <3>2 DEF PoolHolds
  <2>2. CASE is_sending_' = is_sending_ /\ Done(Sender)
    <3>1. \A w \in Workers : pc'[w] = pc[w] /\ on'[w] = on[w]
      BY <2>2
    <3> QED BY <1>0, <2>2, <3>1
  <2> QED BY <1>2, <2>1, <2>2 DEF BindSend, MayBindSend
<1>3. CASE WSASend
  <2> DEFINE s == on[Sender]
  <2> UNCHANGED <<socket_, is_sending_, latest_conn_closed_>> /\ s \in Sessions
      /\ pc[Sender] = "wsa_send"
    BY <1>3 DEF WSASend
  <2>0. Done(Sender) \/ (Goto(Sender, "close_max") /\ UNCHANGED on)
    BY <1>3 DEF WSASend
  <2>1. /\ pc'[Sender] # "wsa_send"
        /\ \A w \in Workers : pc'[w] = pc[w] /\ on'[w] = on[w]
    BY <2>0, WorkerIsThread
  <2>2. \/ send_io' = send_io
        \/ /\ socket_[s] = "connected"
           /\ send_io' = [send_io EXCEPT ![s] = "pending"]
        \/ /\ socket_[s] = "connected"
           /\ send_io' = [send_io EXCEPT ![s] = "failed"]
    BY <1>3 DEF WSASend
  <2>3. s = x => SendingSet(s) /\ SenderAlone(s)
    BY <1>0
  <2>4. OneSendDone(x)'
    BY <1>0, <2>1, <2>2, <2>3, SMTT(30)
  <2>5. SendingSet(x)' /\ SenderAlone(x)'
    BY <1>0, <2>1, <2>2, <2>3
  <2> QED BY <2>4, <2>5
<1> QED BY <1>1, <1>2, <1>3 DEF SenderThread

LEMMA CloseStepSend ==
  ASSUME HeldInv, SendInv, UNCHANGED accepter, NEW t \in Threads, CloseSocket(t),
         NEW x \in Sessions, ~rushed[x]
  PROVE  SendOK(x)'
<1> Sender \in Threads /\ \A w \in Workers : w \in Threads
  BY SenderIsThread, WorkerIsThread
<1> USE NamesAssumption
        DEF HeldInv, TypeOK, Busy, Steps, SendInv, SendOK, SendingSet, OneSendDone, SenderAlone,
            Outstanding, Due, session, io, threads, history, accepter, Goto, Done,
            CloseReturns
<1>0. ClearingHolds(x) /\ AccepterHolds(x) /\ SendingSet(x) /\ OneSendDone(x) /\ SenderAlone(x)
  BY DEF SendInv, Held
<1>1. CASE CloseMax(t)
  BY <1>0, <1>1 DEF CloseMax
<1>2. CASE CloseCas(t)
  <2>1. CASE is_activated_[on[t]]
    BY <1>0, <1>2, <2>1 DEF CloseCas, CloseOnce
  <2>2. CASE ~is_activated_[on[t]] /\ Goto(t, "count") /\ UNCHANGED on
    BY <1>0, <1>2, <2>2 DEF CloseCas, CloseOnce
  <2>3. CASE ~is_activated_[on[t]] /\ Done(t)
    BY <1>0, <1>2, <2>3 DEF CloseCas, CloseOnce
  <2> QED BY <1>2, <2>1, <2>2, <2>3 DEF CloseCas, CloseOnce
<1>3. CASE ClosesocketStep(t)
  BY <1>0, <1>3 DEF ClosesocketStep, Aborted
<1>4. CASE ClearSendBuffer(t)
  BY <1>0, <1>4 DEF ClearSendBuffer
<1>5. CASE ClearSending(t)
  BY <1>0, <1>5 DEF ClearSending, ClearingHolds, AccepterHolds, Clearing
<1>6. CASE ClearClosedTime(t)
  BY <1>0, <1>6 DEF ClearClosedTime
<1>7. CASE CloseCount(t)
  BY <1>0, <1>7, SMTT(30) DEF CloseCount
<1> QED BY <1>1, <1>2, <1>3, <1>4, <1>5, <1>6, <1>7 DEF CloseSocket

LEMMA SendStep ==
  ASSUME HeldInv, SendInv, [Next]_vars
  PROVE  SendInv'
<1> SUFFICES ASSUME NEW x \in Sessions, ~rushed'[x] PROVE SendOK(x)'
  BY DEF SendInv
<1>1. CASE UNCHANGED vars
  BY <1>1 DEF SendInv, SendOK, SendingSet, OneSendDone, SenderAlone, Outstanding, Due,
              vars, session, io, threads, accepter
<1>2. CASE AccepterThread
  BY <1>2, AccepterStepSend
<1>3. CASE OthersStep /\ UNCHANGED accepter
  <2>1. ~rushed[x]
    BY <1>3 DEF accepter
  <2>2. ASSUME NEW s \in Sessions, SlotStep(s) PROVE SendOK(x)'
    BY <1>3, <2>1, <2>2, SlotStepSend
  <2> QED BY <1>3, <2>1, <2>2, WorkerStepSend, SenderStepSend, CloseStepSend
          DEF OthersStep, SlotStep
<1> QED BY <1>1, <1>2, <1>3 DEF Next

LEMMA SendAlways == Spec => []SendInv
<1>1. Init => SendInv
  BY SenderIsThread, WorkerIsThread
     DEF Init, SendInv, SendOK, SendingSet, OneSendDone, SenderAlone, Outstanding
<1> QED BY <1>1, SendStep, HeldAlways, PTL DEF Spec

\* "1-Send" (session.cpp:99): when the sender is about to call WSASend on a
\* connection, no send of the slot is outstanding and no worker is about to
\* release is_sending_ for one, although closing a slot clears the flag while a
\* send may be under way: so until the accepter reuses the slot without waiting
\* for that to be over.
THEOREM OneSendAtATime == Spec => []OneSend
<1>1. SendInv => OneSend
  BY DEF SendInv, SendOK, SenderAlone, Outstanding, OneSend
<1> QED BY <1>1, SendAlways, PTL

-----------------------------------------------------------------------------
(* Reports.                                                                  *)

LEMMA ReportStep ==
  ASSUME HeldInv, ReportInv, [Next]_vars
  PROVE  ReportInv'
<1> SUFFICES ASSUME NEW x \in Sessions PROVE ReceiveOrReport(x)'
  BY DEF ReportInv
<1> USE DEF HeldInv, TypeOK, Busy, Steps, ReportInv, ReceiveOrReport, Receiving,
            session, io, threads, history, accepter, Take, Goto, Done
<1>1. CASE UNCHANGED vars
  BY <1>1 DEF vars
<1>2. ASSUME NEW s \in Sessions, SlotStep(s) PROVE ReceiveOrReport(x)'
  BY <1>2 DEF SlotStep, AcceptCompletes, RecvCompletes, SendCompletes, SendPacket,
              ContentServesDisconnect, Elapse
<1>a. CASE AccepterThread
  BY <1>a DEF AccepterThread, LookAt, CompareTime, Subtract, BindAccept
<1>3. ASSUME NEW w \in Workers, WorkerThread(w) PROVE ReceiveOrReport(x)'
  <2> w \in Threads /\ \A v \in Workers : v \in Threads
    BY WorkerIsThread
  <2>1. ASSUME NEW s \in Sessions, TakeAccept(w, s) PROVE ReceiveOrReport(x)'
    BY <2>1 DEF TakeAccept
  <2>2. ASSUME NEW s \in Sessions, TakeRecv(w, s) PROVE ReceiveOrReport(x)'
    BY <2>2 DEF TakeRecv, ServeRecv
  <2>3. ASSUME NEW s \in Sessions, TakeSend(w, s) PROVE ReceiveOrReport(x)'
    BY <2>3 DEF TakeSend
  <2>o. ASSUME NEW s \in Sessions, TakeOvertaken(w, s) PROVE ReceiveOrReport(x)'
    BY <2>o DEF TakeOvertaken
  <2>4. CASE BindIOCompletionPort(w)
    BY <2>4 DEF BindIOCompletionPort
  <2>5. CASE OnConnect(w)
    BY <2>5 DEF OnConnect
  <2>6. CASE Activate(w)
    BY <2>6 DEF Activate
  <2>7. CASE ActivateClear(w)
    BY <2>7 DEF ActivateClear
  <2>8. CASE BindRecv(w)
    BY <2>8 DEF BindRecv
  <2>9. CASE Count(w)
    BY <2>9 DEF Count
  <2>10. CASE OnRecv(w)
    BY <2>10 DEF OnRecv
  <2>11. CASE SendDone(w)
    BY <2>11 DEF SendDone
  <2>12. CASE OnDisconnect(w)
    BY <2>12 DEF OnDisconnect
  <2> QED BY <1>3, <2>1, <2>2, <2>3, <2>o, <2>4, <2>5, <2>6, <2>7, <2>8, <2>9, <2>10, <2>11, <2>12
          DEF WorkerThread
<1>4. CASE SenderThread
  BY <1>4, NamesAssumption, SenderIsThread, WorkerIsThread
     DEF SenderThread, HasSendData, BindSend, WSASend
<1>5. ASSUME NEW t \in Threads, CloseSocket(t) PROVE ReceiveOrReport(x)'
  <2>1. \A w \in Workers : on[w] = x /\ pc[w] \in Receiving \cup {"on_disconnect"} =>
          on'[w] = x /\ pc'[w] = pc[w]
    BY <1>5, WorkerIsThread
       DEF CloseSocket, CloseMax, CloseCas, CloseOnce, ClosesocketStep, ClearSendBuffer,
           ClearSending, ClearClosedTime, CloseCount, CloseReturns
  <2>2. recv_io[x] # "none" => recv_io'[x] # "none"
    BY <1>5 DEF CloseSocket, CloseMax, CloseCas, ClosesocketStep, Aborted, ClearSendBuffer,
                ClearSending, ClearClosedTime, CloseCount
  <2>3. UNCHANGED <<told, deaf>>
    BY <1>5 DEF CloseSocket, CloseMax, CloseCas, ClosesocketStep, ClearSendBuffer,
                ClearSending, ClearClosedTime, CloseCount
  <2> QED BY <2>1, <2>2, <2>3
<1> QED BY <1>1, <1>2, <1>a, <1>3, <1>4, <1>5 DEF Next, OthersStep, SlotStep

LEMMA ReportAlways == Spec => []ReportInv
<1>1. Init => ReportInv
  BY DEF Init, ReportInv, ReceiveOrReport
<1> QED BY <1>1, ReportStep, HeldAlways, PTL DEF Spec

\* However a connection ends, the content layer is told, unless it ended
\* because a receive could not be requested (network.cpp:377-382, 407-409): until
\* then its receive is pending, completed or in the hands of a worker, and
\* closesocket turns a pending one into a failed completion. Also in a slot
\* that was reused without waiting.
THEOREM EveryCloseIsReported == Spec => []EveryCloseReported
<1>1. ReportInv => EveryCloseReported
  BY WorkerIsThread DEF ReportInv, ReceiveOrReport, EveryCloseReported, Still
<1> QED BY <1>1, ReportAlways, PTL
-----------------------------------------------------------------------------
(* The callbacks.                                                            *)

\* Nothing happens to the slot.
LEMMA BudgetOfOthers ==
  ASSUME NEW x \in Sessions, Budget(x),
         /\ socket_'[x] = socket_[x] /\ is_activated_'[x] = is_activated_[x]
         /\ is_sending_'[x] = is_sending_[x]
         /\ send_buf_'[x] = send_buf_[x] /\ recv_io'[x] = recv_io[x]
         /\ send_io'[x] = send_io[x] /\ told'[x] = told[x] /\ known'[x] = known[x],
         Due(x)' <=> Due(x),
         \A t \in Threads : /\ on'[t] = x <=> on[t] = x
                            /\ on[t] = x => pc'[t] = pc[t]
  PROVE  Budget(x)'
<1> Sender \in Threads /\ \A w \in Workers : w \in Threads
  BY SenderIsThread, WorkerIsThread
<1>1. /\ Unannounced(x)' <=> Unannounced(x)
      /\ Sendable(x)' <=> Sendable(x)
      /\ SendLive(x)' <=> SendLive(x)
      /\ RecvLive(x)' <=> RecvLive(x)
      /\ Outstanding(x)' <=> Outstanding(x)
      /\ \A w \in Workers : Reporting(w, x)' <=> Reporting(w, x)
  BY DEF Unannounced, Sendable, SendLive, RecvLive, Outstanding, Reporting
<1> QED BY <1>1 DEF Budget, AtMostTwo, AtMostOne, None, NoReport, OneReport, TwoReports

\* Nothing of the slot is reported, and nothing more can be.
Keeps(x) ==
  /\ told'[x] = told[x]
  /\ Unannounced(x)' <=> Unannounced(x)
  /\ Due(x)' => Due(x)
  /\ RecvLive(x)' => RecvLive(x)
  /\ SendLive(x)' => SendLive(x)
  /\ Outstanding(x)' => Outstanding(x) \/ Sendable(x)
  /\ Sendable(x)' => \/ Sendable(x) \/ told[x] = "open"
                     \/ ~Unannounced(x) /\ ~Due(x)
  /\ \A w \in Workers : Reporting(w, x)' => Reporting(w, x)

LEMMA BudgetKept ==
  ASSUME NEW x \in Sessions, Budget(x), Keeps(x)
  PROVE  Budget(x)'
BY DEF Keeps, Budget, AtMostTwo, AtMostOne, None, NoReport, OneReport, TwoReports

\* A receive or a send fails, and a worker goes to report it.
LEMMA BudgetSpent ==
  ASSUME NEW x \in Sessions, Budget(x), told'[x] = told[x], NEW v \in Workers,
         Unannounced(x)' <=> Unannounced(x),
         Due(x)' <=> Due(x),
         \/ RecvLive(x) /\ ~RecvLive(x)' /\ (SendLive(x)' => SendLive(x))
         \/ SendLive(x) /\ ~SendLive(x)' /\ Outstanding(x) /\ (RecvLive(x)' => RecvLive(x)),
         Outstanding(x)' => Outstanding(x),
         Sendable(x)' => Sendable(x),
         \A w \in Workers : Reporting(w, x)' => Reporting(w, x) \/ w = v
  PROVE  Budget(x)'
BY DEF Budget, AtMostTwo, AtMostOne, None, NoReport, OneReport, TwoReports

\* The report is made.
LEMMA BudgetReported ==
  ASSUME NEW x \in Sessions, Budget(x), NEW v \in Workers, Reporting(v, x),
         told'[x] = (IF told[x] = "open" THEN "closed"
                     ELSE IF told[x] = "closed" THEN "free" ELSE "stray"),
         told[x] \in {"free", "open", "closed", "stray"},
         Unannounced(x)' <=> Unannounced(x),
         ~Due(x) /\ ~Due(x)',
         RecvLive(x)' <=> RecvLive(x),
         SendLive(x)' <=> SendLive(x),
         Outstanding(x)' <=> Outstanding(x),
         Sendable(x)' <=> Sendable(x),
         (Outstanding(x) \/ Sendable(x)) /\ Unannounced(x) => SendLive(x),
         \A w \in Workers : Reporting(w, x)' <=> Reporting(w, x) /\ w # v
  PROVE  Budget(x)'
BY DEF Budget, AtMostTwo, AtMostOne, None, NoReport, OneReport, TwoReports

LEMMA SlotStepBudget ==
  ASSUME HeldInv, SendInv, BudgetInv, UNCHANGED accepter, NEW s \in Sessions, SlotStep(s),
         NEW x \in Sessions, ~rushed[x]
  PROVE  Budget(x)'
<1>0. Held(s) /\ Budget(x)
  BY DEF HeldInv, BudgetInv
<1> USE DEF HeldInv, TypeOK, session, io, threads, history, accepter, Due
<1>1. CASE x # s
  BY <1>0, <1>1, BudgetOfOthers
     DEF SlotStep, AcceptCompletes, RecvCompletes, SendCompletes, SendPacket,
         ContentServesDisconnect, Elapse
<1> SUFFICES ASSUME x = s PROVE Budget(s)'
  BY <1>1
<1>2. ASSUME ~Elapse(s) PROVE Keeps(s)
  <2> USE DEF Keeps, Unannounced, Sendable, SendLive, RecvLive, Outstanding, Reporting
  <2>1. CASE AcceptCompletes(s)
    BY <1>0, <2>1 DEF AcceptCompletes, Held, AcceptHolds
  <2>2. CASE RecvCompletes(s)
    BY <2>2 DEF RecvCompletes
  <2>3. CASE SendCompletes(s)
    BY <2>3 DEF SendCompletes
  <2>4. CASE SendPacket(s)
    BY <2>4 DEF SendPacket
  <2>5. CASE ContentServesDisconnect(s)
    BY <2>5 DEF ContentServesDisconnect
  <2> QED BY <1>2, <2>1, <2>2, <2>3, <2>4, <2>5 DEF SlotStep
<1>3. CASE Elapse(s)
  <2> USE DEF Unannounced, Sendable, SendLive, RecvLive, Outstanding, Reporting
  <2>1. Sendable(s)' => told'[s] = "open"
    BY <1>3, SenderIsThread DEF Elapse, Still
  <2>2. UNCHANGED <<socket_, is_activated_, is_sending_,
          send_buf_, recv_io, send_io, on, pc, told, known>>
    BY <1>3 DEF Elapse
  <2> QED BY <1>0, <2>1, <2>2
          DEF Budget, AtMostTwo, AtMostOne, None, NoReport, OneReport, TwoReports
<1> QED BY <1>0, <1>2, <1>3, BudgetKept

LEMMA AccepterStepBudget ==
  ASSUME HeldInv, SendInv, BudgetInv, AccepterThread, NEW x \in Sessions, ~rushed'[x]
  PROVE  Budget(x)'
<1> USE DEF session, io, threads, history, NextSlot
<1>1. CASE (\E s \in Sessions : LookAt(s)) \/ CompareTime \/ Subtract
  <2>1. UNCHANGED <<session, io, threads, told, known>> /\ ~rushed[x]
    BY <1>1 DEF LookAt, CompareTime, Subtract, HeldInv, TypeOK
  <2>2. Due(x)' <=> Due(x)
    BY <1>1 DEF LookAt, CompareTime, Subtract, LongClosed, Due, HeldInv, TypeOK
  <2>3. Budget(x)
    BY <2>1 DEF BudgetInv
  <2> QED BY <2>1, <2>2, <2>3, BudgetOfOthers
<1>2. CASE BindAccept
  <2>0. ~rushed[x] /\ Budget(x) /\ Held(x)
    BY <1>2 DEF BindAccept, BudgetInv, HeldInv
  <2>1. CASE x # slot
    <3>1. Due(x)' <=> Due(x)
      BY <1>2, <2>1 DEF BindAccept, Due, HeldInv, TypeOK
    <3>2. socket_'[x] = socket_[x]
      BY <1>2, <2>1 DEF BindAccept, HeldInv, TypeOK
    <3> QED BY <1>2, <2>0, <3>1, <3>2, BudgetOfOthers DEF BindAccept
  <2>2. CASE x = slot
    <3> USE DEF Unannounced, Sendable, SendLive, RecvLive, Outstanding, Reporting
    <3>1. Due(x) /\ ~Due(x)'
      BY <1>2, <2>0, <2>2 DEF BindAccept, Due, HeldInv, TypeOK
    <3>2. NoReport(x) /\ ~RecvLive(x) /\ ~Outstanding(x) /\ (Sendable(x) => told[x] = "open")
      BY <2>0, <3>1 DEF Held, PoolHolds, NoReport, Budget
    <3>3. UNCHANGED <<is_activated_, is_sending_, send_buf_, recv_io, send_io, on, pc,
                      told, known>>
      BY <1>2 DEF BindAccept
    <3>4. NoReport(x)' /\ ~RecvLive(x)' /\ ~Outstanding(x)' /\ (Sendable(x)' <=> Sendable(x))
      BY <3>2, <3>3 DEF NoReport
    <3>5. ~Unannounced(x)' => ~SendLive(x)'
      BY <2>0, <2>2, <1>2, <3>3, <3>4, WorkerIsThread
         DEF BindAccept, Held, AccepterHolds, Setup, Clearing
    <3>6. told[x] # "stray"
      BY <2>0 DEF Budget
    <3> QED BY <3>1, <3>2, <3>3, <3>4, <3>5, <3>6
            DEF Budget, AtMostTwo, AtMostOne, None, NoReport, OneReport, TwoReports
  <2> QED BY <2>1, <2>2
<1> QED BY <1>1, <1>2 DEF AccepterThread

LEMMA WorkerStepBudget ==
  ASSUME HeldInv, SendInv, BudgetInv, UNCHANGED accepter, NEW w \in Workers, WorkerThread(w),
         NEW x \in Sessions, ~rushed[x]
  PROVE  Budget(x)'
<1> w \in Threads /\ Sender \in Threads /\ w # Sender /\ \A v \in Workers : v \in Threads
  BY WorkerIsThread, SenderIsThread, NamesAssumption
<1>0. Held(x) /\ SendOK(x) /\ Budget(x)
  BY DEF HeldInv, SendInv, SendOK, BudgetInv
<1> USE NamesAssumption
    DEF HeldInv, TypeOK, Busy, Steps, Due, session, io, threads, history, accepter,
        Take, Goto, Done
<1>1. CASE on[w] # x /\ on'[w] # x
  BY <1>0, <1>1, BudgetOfOthers
     DEF WorkerThread, TakeAccept, TakeRecv, TakeSend, TakeOvertaken, ServeRecv,
         BindIOCompletionPort, OnConnect, Activate, ActivateClear, BindRecv, Count, OnRecv, SendDone, OnDisconnect
<1>2. ASSUME TakeAccept(w, x) PROVE Keeps(x)
  BY <1>0, <1>2
     DEF TakeAccept, Held, AcceptHolds, Keeps, Unannounced, Sendable, SendLive, RecvLive,
         Outstanding, Reporting
<1>3. ASSUME TakeRecv(w, x) PROVE Budget(x)'
  <2> USE DEF TakeRecv, ServeRecv, Held, OneReceiver, Receiving,
              Unannounced, Sendable, SendLive, RecvLive, Outstanding, Reporting
  <2>1. CASE recv_io[x] = "done"
    <3>1. Keeps(x)
      BY <1>0, <1>3, <2>1 DEF Keeps
    <3> QED BY <1>0, <3>1, BudgetKept
  <2>2. CASE recv_io[x] = "failed"
    <3>1. RecvLive(x) /\ ~RecvLive(x)'
      BY <1>0, <1>3, <2>2
    <3>2. /\ told'[x] = told[x]
          /\ Unannounced(x)' <=> Unannounced(x)
          /\ Due(x)' <=> Due(x)
          /\ SendLive(x)' => SendLive(x)
          /\ Outstanding(x)' => Outstanding(x)
          /\ Sendable(x)' => Sendable(x)
          /\ \A v \in Workers : Reporting(v, x)' => Reporting(v, x) \/ v = w
      BY <1>0, <1>3, <2>2
    <3> QED BY <1>0, <3>1, <3>2, BudgetSpent
  <2> QED BY <1>3, <2>1, <2>2
<1>4. ASSUME TakeSend(w, x) PROVE Budget(x)'
  <2> USE DEF TakeSend, SendOK, SendingSet, OneSendDone, SenderAlone,
              Unannounced, Sendable, SendLive, RecvLive, Outstanding, Reporting
  <2>1. CASE send_io[x] = "done"
    <3>1. Keeps(x)
      BY <1>0, <1>4, <2>1 DEF Keeps
    <3> QED BY <1>0, <3>1, BudgetKept
  <2>2. CASE send_io[x] = "failed"
    <3>1. SendLive(x) /\ Outstanding(x)
      BY <2>2
    <3>2. ~SendLive(x)'
      BY <1>0, <1>4, <2>2
    <3>3. /\ told'[x] = told[x]
          /\ Unannounced(x)' <=> Unannounced(x)
          /\ Due(x)' <=> Due(x)
          /\ RecvLive(x)' => RecvLive(x)
          /\ Outstanding(x)' => Outstanding(x)
          /\ Sendable(x)' => Sendable(x)
          /\ \A v \in Workers : Reporting(v, x)' => Reporting(v, x) \/ v = w
      BY <1>0, <1>4, <2>2
    <3> QED BY <1>0, <3>1, <3>2, <3>3, BudgetSpent
  <2> QED BY <1>4, <2>1, <2>2
<1>5. ASSUME \/ BindIOCompletionPort(w) \/ ActivateClear(w) \/ Count(w) \/ OnRecv(w),
             on[w] = x
      PROVE  Keeps(x)
  <2> USE DEF Keeps, Unannounced, Sendable, SendLive, RecvLive, Outstanding, Reporting
  <2>1. CASE BindIOCompletionPort(w)
    BY <1>5, <2>1 DEF BindIOCompletionPort
  <2>2. CASE ActivateClear(w)
    BY <1>5, <2>2 DEF ActivateClear
  <2>3. CASE Count(w)
    BY <1>5, <2>3 DEF Count
  <2>4. CASE OnRecv(w)
    BY <1>0, <1>5, <2>4 DEF OnRecv, Budget, Held, PoolHolds
  <2> QED BY <1>5, <2>1, <2>2, <2>3, <2>4
<1>6. ASSUME OnConnect(w), on[w] = x PROVE Budget(x)'
  <2>1. Unannounced(x) /\ ~Unannounced(x)' /\ told'[x] = "open"
        /\ ~Due(x)'
    BY <1>0, <1>6 DEF OnConnect, Unannounced, Held, SetupHolds, AccepterHolds, Setup, Clearing
  <2>2. OneReport(x) /\ (SendLive(x) => NoReport(x))
    BY <1>0, <2>1 DEF Budget
  <2>3. (SendLive(x)' <=> SendLive(x))
        /\ \A v \in Workers : Reporting(v, x)' <=> Reporting(v, x)
    BY <1>6 DEF OnConnect, SendLive, Reporting
  <2> QED BY <2>1, <2>2, <2>3 DEF Budget, AtMostTwo, NoReport, OneReport, TwoReports
<1>7. ASSUME Activate(w), on[w] = x PROVE Keeps(x)
  BY <1>0, <1>7 DEF Activate, Held, SetupHolds, Setup, Keeps, Unannounced, Sendable, SendLive,
                    RecvLive, Outstanding, Reporting
<1>8. ASSUME BindRecv(w), on[w] = x PROVE Keeps(x)
  <2> USE DEF Keeps, Unannounced, Sendable, SendLive, RecvLive, Outstanding, Reporting
  <2>1. /\ pc[w] = "bind_recv" /\ UNCHANGED <<session, send_io, told, known>>
        /\ \A v \in Threads : v # w => on'[v] = on[v] /\ pc'[v] = pc[v]
    BY <1>8 DEF BindRecv
  <2>2. pc'[w] \in {"count", "close_max", "idle"}
    BY <1>8 DEF BindRecv
  <2> QED BY <1>8, <2>1, <2>2
<1>9. ASSUME SendDone(w), on[w] = x PROVE Keeps(x)
  <2>1. Outstanding(x) /\ ~Due(x)
    BY <1>0, <1>9 DEF SendDone, Outstanding, Held, PoolHolds
  <2>2. Unannounced(x) => told[x] = "open"
    BY <1>0, <2>1 DEF Budget
  <2> QED BY <1>9, <2>1, <2>2 DEF SendDone, Keeps, Unannounced, Sendable, SendLive, RecvLive,
                                  Outstanding, Reporting
<1>10. ASSUME OnDisconnect(w), on[w] = x PROVE Budget(x)'
  <2>1. /\ Reporting(w, x)
        /\ told'[x] = (IF told[x] = "open" THEN "closed"
                       ELSE IF told[x] = "closed" THEN "free" ELSE "stray")
        /\ ~Due(x) /\ ~Due(x)'
    BY <1>0, <1>10 DEF OnDisconnect, Reporting, Held, PoolHolds
  <2>2. /\ Unannounced(x)' <=> Unannounced(x)
        /\ RecvLive(x)' <=> RecvLive(x)
        /\ SendLive(x)' <=> SendLive(x)
        /\ Outstanding(x)' <=> Outstanding(x)
        /\ Sendable(x)' <=> Sendable(x)
        /\ \A v \in Workers : Reporting(v, x)' <=> Reporting(v, x) /\ v # w
    BY <1>10 DEF OnDisconnect, Unannounced, RecvLive, SendLive, Outstanding, Sendable, Reporting
  <2>3. (Outstanding(x) \/ Sendable(x)) /\ Unannounced(x) => SendLive(x)
    BY DEF Outstanding, Sendable, Unannounced, SendLive
  <2>4. told[x] \in {"free", "open", "closed", "stray"}
    OBVIOUS
  <2> QED BY <1>0, <2>1, <2>2, <2>3, <2>4, BudgetReported
<1>11. CASE on[w] = x
  <2>1. pc[w] # "idle"
    BY <1>11
  <2>2. ~ \E s \in Sessions : TakeAccept(w, s) \/ TakeRecv(w, s) \/ TakeSend(w, s)
                                 \/ TakeOvertaken(w, s)
    BY <2>1 DEF TakeAccept, TakeRecv, TakeSend, TakeOvertaken, ServeRecv
  <2> QED BY <1>0, <1>5, <1>6, <1>7, <1>8, <1>9, <1>10, <1>11, <2>2, BudgetKept
          DEF WorkerThread
<1>12. CASE on[w] # x /\ on'[w] = x
  <2>1. \E s \in Sessions : TakeAccept(w, s) \/ TakeRecv(w, s) \/ TakeSend(w, s)
                               \/ TakeOvertaken(w, s)
    BY <1>12 DEF WorkerThread, BindIOCompletionPort, OnConnect, Activate, ActivateClear,
                 BindRecv, Count, OnRecv, SendDone, OnDisconnect
  <2>2. TakeAccept(w, x) \/ TakeRecv(w, x) \/ TakeSend(w, x)
    BY <1>12, <2>1 DEF TakeAccept, TakeRecv, TakeSend, TakeOvertaken, ServeRecv
  <2> QED BY <1>0, <1>2, <1>3, <1>4, <2>2, BudgetKept
<1> QED BY <1>1, <1>11, <1>12

LEMMA SenderStepBudget ==
  ASSUME HeldInv, SendInv, BudgetInv, UNCHANGED accepter, SenderThread,
         NEW x \in Sessions, ~rushed[x]
  PROVE  Budget(x)'
<1> Sender \in Threads /\ Sender \notin Workers /\ \A w \in Workers : w \in Threads
  BY WorkerIsThread, SenderIsThread, NamesAssumption
<1>0. Held(x) /\ SendOK(x) /\ Budget(x)
  BY DEF HeldInv, SendInv, SendOK, BudgetInv
<1> USE NamesAssumption
    DEF HeldInv, TypeOK, Busy, Steps, Due, session, io, threads, history, accepter, Goto, Done
<1>1. CASE on[Sender] # x /\ on'[Sender] # x
  BY <1>0, <1>1, BudgetOfOthers DEF SenderThread, HasSendData, BindSend, WSASend
<1>2. CASE on[Sender] = x \/ on'[Sender] = x
  <2> USE DEF Keeps, Unannounced, Sendable, SendLive, RecvLive, Outstanding, Reporting
  <2>1. ASSUME NEW s \in Sessions, HasSendData(s) PROVE Keeps(x)
    BY <1>2, <2>1 DEF HasSendData
  <2>2. ASSUME BindSend PROVE Keeps(x)
    <3>1. CASE ~is_sending_[x]
      BY <1>2, <2>2, <3>1 DEF BindSend, MayBindSend
    <3>2. CASE is_sending_[x]
      <4>1. on[Sender] = x /\ pc[Sender] = "bind_send"
        BY <1>2, <2>2 DEF BindSend
      <4>2. /\ on' = [on EXCEPT ![Sender] = NoSession] /\ pc' = [pc EXCEPT ![Sender] = "idle"]
            /\ UNCHANGED <<session, recv_io, send_io, told, known>>
        BY <2>2, <3>2, <4>1 DEF BindSend, MayBindSend
      <4>3. \A w \in Workers : on'[w] = on[w] /\ pc'[w] = pc[w]
        BY <4>2
      <4> QED BY <3>2, <4>1, <4>2, <4>3
    <3> QED BY <3>1, <3>2
  <2>3. ASSUME WSASend PROVE Keeps(x)
    <3>1. /\ pc[Sender] = "wsa_send" /\ on[Sender] = x
          /\ UNCHANGED <<socket_, is_activated_, is_sending_, latest_conn_closed_, recv_io,
                         told, known>>
          /\ \A t \in Threads : t # Sender => on'[t] = on[t] /\ pc'[t] = pc[t]
      BY <1>2, <2>3 DEF WSASend
    <3>2. pc'[Sender] \in {"idle", "close_max"}
      BY <2>3 DEF WSASend
    <3>3. \/ send_io' = send_io /\ send_buf_' = send_buf_
          \/ socket_[x] = "connected" /\ send_buf_'[x] \in {0, send_buf_[x]}
      BY <2>3, <3>1 DEF WSASend
    <3> QED BY <1>0, <3>1, <3>2, <3>3 DEF SendOK, SenderAlone
  <2> QED BY <1>0, <2>1, <2>2, <2>3, BudgetKept DEF SenderThread
<1> QED BY <1>1, <1>2

LEMMA CloseStepBudget ==
  ASSUME HeldInv, SendInv, BudgetInv, UNCHANGED accepter, NEW t \in Threads, CloseSocket(t),
         NEW x \in Sessions, ~rushed[x]
  PROVE  Budget(x)'
<1> Sender \in Threads /\ \A w \in Workers : w \in Threads
  BY SenderIsThread, WorkerIsThread
<1>0. Held(x) /\ SendOK(x) /\ Budget(x)
  BY DEF HeldInv, SendInv, SendOK, BudgetInv
<1> USE NamesAssumption
    DEF HeldInv, TypeOK, Busy, Steps, Due, session, io, threads, history, accepter, Goto, Done
<1>1. CASE on[t] # x
  BY <1>0, <1>1, BudgetOfOthers
     DEF CloseSocket, CloseMax, CloseCas, CloseOnce, ClosesocketStep, ClearSendBuffer,
         ClearSending, ClearClosedTime, CloseCount, CloseReturns
<1>2. ASSUME on[t] = x PROVE Keeps(x)
  <2> USE DEF Keeps, Unannounced, Sendable, SendLive, RecvLive, Outstanding, Reporting
  <2>1. CASE CloseMax(t)
    BY <1>2, <2>1 DEF CloseMax
  <2>2. CASE CloseCas(t)
    <3>1. CASE is_activated_[x]
      BY <1>0, <1>2, <2>2, <3>1 DEF CloseCas, CloseOnce
    <3>2. CASE ~is_activated_[x]
      BY <1>0, <1>2, <2>2, <3>2 DEF CloseCas, CloseOnce, CloseReturns
    <3> QED BY <3>1, <3>2
  <2>3. CASE ClosesocketStep(t)
    BY <1>2, <2>3 DEF ClosesocketStep, Aborted
  <2>4. CASE ClearSendBuffer(t)
    BY <1>2, <2>4 DEF ClearSendBuffer
  <2>5. CASE ClearSending(t)
    BY <1>0, <1>2, <2>5 DEF ClearSending, Held, ClearingHolds, AccepterHolds, Clearing
  <2>6. CASE ClearClosedTime(t)
    BY <1>2, <2>6 DEF ClearClosedTime
  <2>7. CASE CloseCount(t)
    BY <1>2, <2>7 DEF CloseCount, CloseReturns
  <2> QED BY <2>1, <2>2, <2>3, <2>4, <2>5, <2>6, <2>7 DEF CloseSocket
<1> QED BY <1>0, <1>1, <1>2, BudgetKept

LEMMA BudgetStep ==
  ASSUME HeldInv, SendInv, BudgetInv, [Next]_vars
  PROVE  BudgetInv'
<1> SUFFICES ASSUME NEW x \in Sessions, ~rushed'[x] PROVE Budget(x)'
  BY DEF BudgetInv
<1>1. CASE UNCHANGED vars
  BY <1>1, BudgetOfOthers DEF BudgetInv, Due, vars, session, io, threads, history, accepter
<1>2. CASE AccepterThread
  BY <1>2, AccepterStepBudget
<1>3. CASE OthersStep /\ UNCHANGED accepter
  <2>1. ~rushed[x]
    BY <1>3 DEF accepter
  <2>2. ASSUME NEW s \in Sessions, SlotStep(s) PROVE Budget(x)'
    BY <1>3, <2>1, <2>2, SlotStepBudget
  <2> QED BY <1>3, <2>1, <2>2, WorkerStepBudget, SenderStepBudget, CloseStepBudget
          DEF OthersStep, SlotStep
<1> QED BY <1>1, <1>2, <1>3 DEF Next

LEMMA BudgetAlways == Spec => []BudgetInv
<1>1. Init => BudgetInv
  <2> SUFFICES ASSUME Init, NEW s \in Sessions PROVE Budget(s)
    BY DEF BudgetInv
  <2>1. NoReport(s) /\ ~RecvLive(s) /\ ~SendLive(s) /\ ~Unannounced(s) /\ ~Sendable(s)
    BY SenderIsThread, WorkerIsThread, NamesAssumption
       DEF Init, NoReport, Reporting, RecvLive, SendLive, Unannounced, Sendable
  <2> QED BY <2>1 DEF Init, Budget, None
<1> QED BY <1>1, BudgetStep, HeldAlways, SendAlways, PTL DEF Spec

\* What Callbacks is told of a slot: of one that was reused without waiting,
\* only that.
Reported(s) == IF rushed[s] THEN "lost" ELSE told[s]

\* The content layer is in OnRecv for the slot.
InOnRecv(s) == ~rushed[s] /\ \E w \in Workers : on[w] = s /\ pc[w] = "on_recv"

\* Which steps enter or leave OnRecv.
LEMMA OnRecvEntered ==
  ASSUME HeldInv, UNCHANGED accepter, NEW w \in Workers, NEW s \in Sessions, ~rushed[s],
         TakeRecv(w, s), recv_io[s] = "done"
  PROVE  /\ ~InOnRecv(s) /\ InOnRecv(s)'
         /\ \A x \in Sessions \ {s} : InOnRecv(x)' <=> InOnRecv(x)
<1> \A v \in Workers : v \in Threads
  BY WorkerIsThread
<1> Held(s)
  BY DEF HeldInv
<1>1. pc[w] = "idle" /\ pc' = [pc EXCEPT ![w] = "on_recv"] /\ on' = [on EXCEPT ![w] = s]
  BY DEF TakeRecv, ServeRecv, Take, Goto
<1>2. ~InOnRecv(s)
  BY DEF InOnRecv, Held, OneReceiver, Receiving
<1> QED BY <1>1, <1>2 DEF InOnRecv, HeldInv, TypeOK, Busy, accepter

LEMMA OnRecvLeft ==
  ASSUME HeldInv, UNCHANGED accepter, NEW w \in Workers, OnRecv(w), ~rushed[on[w]]
  PROVE  \E s \in Sessions :
           /\ InOnRecv(s) /\ ~InOnRecv(s)'
           /\ \A x \in Sessions \ {s} : InOnRecv(x)' <=> InOnRecv(x)
<1> \A v \in Workers : v \in Threads
  BY WorkerIsThread
<1>1. pc[w] = "on_recv" /\ pc' = [pc EXCEPT ![w] = "bind_recv"] /\ on' = on
  BY DEF OnRecv, Goto
<1>2. on[w] \in Sessions
  BY <1>1 DEF HeldInv, Busy
<1>3. \A v \in Workers : v # w /\ on[v] = on[w] => pc[v] # "on_recv"
  BY <1>1, <1>2 DEF HeldInv, Held, OneReceiver, Receiving
<1> DEFINE s == on[w]
<1>4. /\ InOnRecv(s) /\ \A v \in Workers : ~(on'[v] = s /\ pc'[v] = "on_recv")
      /\ \A x \in Sessions \ {s} : InOnRecv(x)' <=> InOnRecv(x)
  BY <1>1, <1>2, <1>3 DEF InOnRecv, HeldInv, TypeOK, accepter
<1> HIDE DEF s
<1> QED BY <1>2, <1>4 DEF InOnRecv, s

LEMMA OnRecvElse ==
  ASSUME HeldInv, OthersStep, UNCHANGED accepter,
         \A w \in Workers : OnRecv(w) => rushed[on[w]],
         \A w \in Workers, s \in Sessions :
           TakeRecv(w, s) /\ recv_io[s] = "done" => rushed[s],
         NEW x \in Sessions
  PROVE  InOnRecv(x)' <=> InOnRecv(x)
<1> (\A v \in Workers : v \in Threads) /\ Sender \in Threads
  BY WorkerIsThread, SenderIsThread
<1>1. CASE rushed[x]
  BY <1>1 DEF InOnRecv, accepter
<1> SUFFICES ASSUME ~rushed[x] PROVE InOnRecv(x)' <=> InOnRecv(x)
  BY <1>1
<1> USE NamesAssumption
    DEF HeldInv, TypeOK, Busy, session, io, threads, history, accepter, Take, Goto, Done, InOnRecv
<1>2. ASSUME NEW s \in Sessions, SlotStep(s) PROVE InOnRecv(x)' <=> InOnRecv(x)
  BY <1>2 DEF SlotStep, AcceptCompletes, RecvCompletes, SendCompletes, SendPacket,
              ContentServesDisconnect, Elapse
<1>3. ASSUME NEW w \in Workers, WorkerThread(w) PROVE InOnRecv(x)' <=> InOnRecv(x)
  <2>1. \A v \in Workers : v # w => on'[v] = on[v] /\ pc'[v] = pc[v]
    BY <1>3
       DEF WorkerThread, TakeAccept, TakeRecv, ServeRecv, TakeSend, TakeOvertaken,
           BindIOCompletionPort, OnConnect, Activate, ActivateClear, BindRecv, Count, OnRecv,
           SendDone, OnDisconnect
  <2>2. CASE OnRecv(w)
    <3>1. on[w] # x /\ on' = on
      BY <2>2 DEF OnRecv
    <3> QED BY <2>1, <3>1
  <2>3. CASE \E s \in Sessions : TakeRecv(w, s) \/ TakeOvertaken(w, s)
    BY <2>1, <2>3 DEF TakeRecv, ServeRecv, TakeOvertaken
  <2>4. CASE ~OnRecv(w) /\ ~ \E s \in Sessions : TakeRecv(w, s) \/ TakeOvertaken(w, s)
    <3>1. pc[w] # "on_recv" /\ pc'[w] # "on_recv"
      BY <1>3, <2>4, SMTT(30)
         DEF WorkerThread, TakeAccept, TakeSend, BindIOCompletionPort, OnConnect, Activate,
             ActivateClear, BindRecv, Count, SendDone, OnDisconnect
    <3> QED BY <2>1, <3>1
  <2> QED BY <2>2, <2>3, <2>4
<1>4. CASE SenderThread
  BY <1>4 DEF SenderThread, HasSendData, BindSend, WSASend
<1>5. ASSUME NEW t \in Threads, CloseSocket(t) PROVE InOnRecv(x)' <=> InOnRecv(x)
  <2>1. \A v \in Workers : v # t => on'[v] = on[v] /\ pc'[v] = pc[v]
    BY <1>5
       DEF CloseSocket, CloseMax, CloseCas, CloseOnce, ClosesocketStep, ClearSendBuffer,
           ClearSending, ClearClosedTime, CloseCount, CloseReturns
  <2>2. pc[t] # "on_recv" /\ pc'[t] # "on_recv"
    BY <1>5
       DEF CloseSocket, CloseMax, CloseCas, CloseOnce, ClosesocketStep, ClearSendBuffer,
           ClearSending, ClearClosedTime, CloseCount, CloseReturns
  <2> QED BY <2>1, <2>2
<1> QED BY <1>2, <1>3, <1>4, <1>5 DEF OthersStep, SlotStep

\* Which steps report a connection or its end.
LEMMA ReportedElse ==
  ASSUME HeldInv, OthersStep, UNCHANGED accepter,
         \A w \in Workers : OnConnect(w) \/ OnDisconnect(w) => rushed[on[w]],
         NEW x \in Sessions
  PROVE  Reported(x)' = Reported(x)
<1> USE DEF Reported, accepter
<1>1. CASE \E w \in Workers : OnConnect(w) \/ OnDisconnect(w)
  BY <1>1 DEF OnConnect, OnDisconnect, HeldInv, TypeOK
<1>2. CASE ~ \E w \in Workers : OnConnect(w) \/ OnDisconnect(w)
  <2>1. told' = told
    BY <1>2 DEF OthersStep, history, AcceptCompletes, RecvCompletes, SendCompletes, SendPacket,
         ContentServesDisconnect, Elapse, WorkerThread, TakeAccept, TakeRecv, TakeSend,
         TakeOvertaken, BindIOCompletionPort, Activate, ActivateClear, BindRecv, Count, OnRecv,
         SendDone, SenderThread, HasSendData, BindSend, WSASend, CloseSocket, CloseMax,
         CloseCas, ClosesocketStep, ClearSendBuffer, ClearSending, ClearClosedTime, CloseCount
  <2> QED BY <2>1
<1> QED BY <1>1, <1>2

\* What a step of the network layer is to the content layer: a worker enters
\* or leaves one of the three callbacks, the accepter reuses a slot without
\* waiting, or nothing.
LEMMA CallsStep ==
  ASSUME HeldInv, BudgetInv, [Next]_vars
  PROVE  [\E s \in Sessions : Calls!Call(s)]_(Calls!calls)
<1> DEFINE conn == [s \in Sessions |-> IF rushed[s] THEN "lost" ELSE told[s]]
           receiving == [s \in Sessions |->
                           /\ ~rushed[s]
                           /\ \E w \in Workers : on[w] = s /\ pc[w] = "on_recv"]
<1>0. /\ conn = [s \in Sessions |-> Reported(s)]
      /\ conn' = [s \in Sessions |-> Reported(s)']
      /\ receiving = [s \in Sessions |-> InOnRecv(s)]
      /\ receiving' = [s \in Sessions |-> InOnRecv(s)']
  BY DEF InOnRecv, Reported
<1> HIDE DEF conn, receiving
<1>s. ASSUME \A x \in Sessions : InOnRecv(x)' <=> InOnRecv(x) PROVE receiving' = receiving
  <2>1. \A x \in Sessions : InOnRecv(x)' = InOnRecv(x)
    BY <1>s DEF InOnRecv
  <2> QED BY <1>0, <2>1
<1>c. ASSUME \A x \in Sessions : Reported(x)' = Reported(x) PROVE conn' = conn
  BY <1>0, <1>c
<1>1. ASSUME UNCHANGED accepter, NEW w \in Workers, NEW s \in Sessions, ~rushed[s],
             TakeRecv(w, s), recv_io[s] = "done"
      PROVE  Calls!RecvBegins(s)
  <2>1. conn[s] # "free"
    BY <1>0, <1>1 DEF BudgetInv, Budget, RecvLive, None, Reported
  <2>2. conn' = conn
    BY <1>c, <1>1 DEF TakeRecv, history, accepter, Reported
  <2>3. ~receiving[s] /\ receiving' = [receiving EXCEPT ![s] = TRUE]
    <3>1. /\ InOnRecv(s) = FALSE /\ InOnRecv(s)' = TRUE
          /\ \A x \in Sessions \ {s} : InOnRecv(x)' = InOnRecv(x)
      BY <1>1, OnRecvEntered DEF InOnRecv
    <3> QED BY <1>0, <3>1
  <2> QED BY <2>1, <2>2, <2>3 DEF Calls!RecvBegins, conn, receiving
<1>2. ASSUME UNCHANGED accepter, NEW w \in Workers, OnRecv(w), ~rushed[on[w]]
      PROVE  \E s \in Sessions : Calls!RecvEnds(s)
  <2>1. conn' = conn
    BY <1>c, <1>2 DEF OnRecv, accepter, Reported
  <2>2. PICK s \in Sessions : receiving[s] /\ receiving' = [receiving EXCEPT ![s] = FALSE]
    <3>1. PICK s \in Sessions :
            /\ InOnRecv(s) /\ ~InOnRecv(s)'
            /\ \A x \in Sessions \ {s} : InOnRecv(x)' <=> InOnRecv(x)
      BY <1>2, OnRecvLeft
    <3>2. /\ InOnRecv(s) = TRUE /\ InOnRecv(s)' = FALSE
          /\ \A x \in Sessions \ {s} : InOnRecv(x)' = InOnRecv(x)
      BY <3>1 DEF InOnRecv
    <3>3. receiving[s] /\ receiving' = [receiving EXCEPT ![s] = FALSE]
      BY <1>0, <3>2
    <3> QED BY <3>3
  <2> QED BY <2>1, <2>2 DEF Calls!RecvEnds, conn, receiving
<1>3. ASSUME UNCHANGED accepter, NEW w \in Workers, OnConnect(w), ~rushed[on[w]]
      PROVE  \E s \in Sessions : Calls!Connect(s)
  <2>1. pc[w] = "on_connect" /\ on[w] \in Sessions /\ w \in Threads
    BY <1>3, WorkerIsThread DEF OnConnect, HeldInv, Busy
  <2>2. PICK s \in Sessions : s = on[w]
    BY <2>1
  <2>3. ~receiving[s]
    BY <1>0, <1>3, <2>1, <2>2, WorkerIsThread DEF InOnRecv, HeldInv, Held, OneReceiver, Receiving
  <2>4. receiving' = receiving
    BY <1>s, <1>3, <2>1 DEF OnConnect, InOnRecv, Goto, HeldInv, TypeOK, accepter
  <2>5. conn' = [conn EXCEPT ![s] = "open"]
    <3>1. /\ Reported(s)' = "open"
          /\ \A x \in Sessions \ {s} : Reported(x)' = Reported(x)
      BY <1>3, <2>1, <2>2 DEF OnConnect, Reported, HeldInv, TypeOK, accepter
    <3> QED BY <1>0, <3>1
  <2> QED BY <2>3, <2>4, <2>5 DEF Calls!Connect, conn, receiving
<1>4. ASSUME UNCHANGED accepter, NEW w \in Workers, OnDisconnect(w), ~rushed[on[w]]
      PROVE  \E s \in Sessions : Calls!Disconnect(s)
  <2>1. pc[w] = "on_disconnect" /\ on[w] \in Sessions /\ w \in Threads
    BY <1>4, WorkerIsThread DEF OnDisconnect, HeldInv, Busy
  <2>2. told[on[w]] \in {"open", "closed"}
    BY <1>4, <2>1 DEF HeldInv, TypeOK, BudgetInv, Budget, None, NoReport, Reporting
  <2>3. receiving' = receiving
    BY <1>s, <1>4, <2>1 DEF OnDisconnect, InOnRecv, Goto, HeldInv, TypeOK, accepter
  <2>4. PICK s \in Sessions : s = on[w]
    BY <2>1
  <2>5. /\ Reported(s) = told[s]
        /\ Reported(s)' = IF told[s] = "open" THEN "closed" ELSE "free"
        /\ \A x \in Sessions \ {s} : Reported(x)' = Reported(x)
    BY <1>4, <2>1, <2>2, <2>4 DEF OnDisconnect, Reported, HeldInv, TypeOK, accepter
  <2>6. \/ conn[s] = "open"   /\ conn' = [conn EXCEPT ![s] = "closed"]
        \/ conn[s] = "closed" /\ conn' = [conn EXCEPT ![s] = "free"]
    BY <1>0, <2>1, <2>2, <2>4, <2>5
  <2> QED BY <2>3, <2>6 DEF Calls!Disconnect, conn, receiving
<1>5. CASE AccepterThread
  <2>1. UNCHANGED <<threads, told>>
    BY <1>5 DEF AccepterThread, LookAt, CompareTime, Subtract, BindAccept, history
  <2>2. CASE UNCHANGED rushed
    <3>1. receiving' = receiving /\ conn' = conn
      BY <1>s, <1>c, <2>1, <2>2 DEF threads, InOnRecv, Reported
    <3> QED BY <3>1 DEF Calls!calls, conn, receiving
  <2>3. CASE ~ UNCHANGED rushed
    <3>1. PICK s \in Sessions : rushed' = [rushed EXCEPT ![s] = TRUE]
      BY <1>5, <2>3 DEF AccepterThread, LookAt, CompareTime, Subtract, BindAccept, HeldInv, TypeOK
    <3>2. /\ InOnRecv(s)' = FALSE /\ Reported(s)' = "lost"
          /\ \A x \in Sessions \ {s} : InOnRecv(x)' = InOnRecv(x) /\ Reported(x)' = Reported(x)
      BY <2>1, <3>1 DEF threads, InOnRecv, Reported, HeldInv, TypeOK
    <3>3. /\ receiving' = [receiving EXCEPT ![s] = FALSE]
          /\ conn' = [conn EXCEPT ![s] = "lost"]
      BY <1>0, <3>2
    <3>4. Calls!Overtake(s)
      BY <3>3 DEF Calls!Overtake, conn, receiving
    <3> QED BY <3>4 DEF Calls!Call
  <2> QED BY <2>2, <2>3
<1>6. CASE OthersStep /\ UNCHANGED accepter
  <2>1. CASE /\ \A w \in Workers :
                  OnRecv(w) \/ OnConnect(w) \/ OnDisconnect(w) => rushed[on[w]]
             /\ \A w \in Workers, s \in Sessions :
                  TakeRecv(w, s) /\ recv_io[s] = "done" => rushed[s]
    <3>1. receiving' = receiving
      BY <1>s, <1>6, <2>1, OnRecvElse
    <3>2. conn' = conn
      BY <1>c, <1>6, <2>1, ReportedElse
    <3> QED BY <3>1, <3>2 DEF Calls!calls, conn, receiving
  <2>2. CASE \E w \in Workers : OnRecv(w) /\ ~rushed[on[w]]
    BY <1>2, <1>6, <2>2 DEF Calls!Call
  <2>3. CASE \E w \in Workers : (OnConnect(w) \/ OnDisconnect(w)) /\ ~rushed[on[w]]
    BY <1>3, <1>4, <1>6, <2>3 DEF Calls!Call
  <2>4. CASE \E w \in Workers, s \in Sessions :
               TakeRecv(w, s) /\ recv_io[s] = "done" /\ ~rushed[s]
    BY <1>1, <1>6, <2>4 DEF Calls!Call
  <2> QED BY <2>1, <2>2, <2>3, <2>4
<1>7. CASE UNCHANGED vars
  <2>1. receiving' = receiving /\ conn' = conn
    BY <1>s, <1>c, <1>7 DEF vars, threads, history, accepter, InOnRecv, Reported
  <2> QED BY <2>1 DEF Calls!calls, conn, receiving
<1> QED BY <1>5, <1>6, <1>7 DEF Next

\* The callbacks of every interleaving of the threads are those Callbacks
\* promises PacketManager (chat_server.cpp:66-104): until the accepter reuses
\* the slot without waiting, OnRecv never overlaps itself or an OnConnect of it,
\* and OnDisconnect comes after an OnConnect and at most twice, once for the
\* receive and once for a send.
THEOREM CallbacksInOrder == Spec => ImplementsCallbacks
<1>1. Init => Calls!NoCalls
  BY NamesAssumption, WorkerIsThread DEF Init, Calls!NoCalls
<1> QED BY <1>1, CallsStep, HeldAlways, BudgetAlways, PTL
        DEF Spec, ImplementsCallbacks, Calls!CallSpec
-----------------------------------------------------------------------------
(* The count.                                                                *)

\* A worker is inside an accept completion from TakeAccept until it counts.
AcceptingInv ==
  \A t \in Threads :
    /\ accepting[t] => t # Sender /\ pc[t] \notin {"idle", "send_done"}
    /\ pc[t] \in Setup \cup {"count"} => accepting[t]

ActiveSlots == {s \in Sessions : is_activated_[s]}

\* Who has won the exchange and has not counted down yet.
Leaving == {t \in Threads : pc[t] \in Clearing \cup {"close_count"}}

\* Who has activated a slot and has not counted up yet.
Uncounted == {t \in Threads : accepting[t] /\ pc[t] \notin Setup}

\* The counter is right up to how often it has wrapped.
CountIs(n) == \E wraps \in Int : n = Cardinality(ActiveSlots) + Cardinality(Leaving)
                                       - Cardinality(Uncounted) + wraps * CntRange

CountInv == CountIs(current_session_cnt_)

LEMMA AcceptingStep ==
  ASSUME HeldInv, AcceptingInv, [Next]_vars
  PROVE  AcceptingInv'
<1> Sender \in Threads /\ Sender \notin Workers /\ \A w \in Workers : w \in Threads
  BY WorkerIsThread, SenderIsThread, NamesAssumption
<1> USE DEF HeldInv, TypeOK, AcceptingInv, session, io, threads, history, accepter, Take, Goto, Done, Setup
<1>1. CASE UNCHANGED vars
  BY <1>1 DEF vars
<1>2. ASSUME NEW s \in Sessions, SlotStep(s) PROVE AcceptingInv'
  BY <1>2 DEF SlotStep, AcceptCompletes, RecvCompletes, SendCompletes, SendPacket,
              ContentServesDisconnect, Elapse
<1>a. CASE AccepterThread
  BY <1>a DEF AccepterThread, LookAt, CompareTime, Subtract, BindAccept
<1>3. ASSUME NEW w \in Workers, WorkerThread(w) PROVE AcceptingInv'
  <2>1. CASE \E s \in Sessions : TakeAccept(w, s) \/ TakeRecv(w, s) \/ TakeSend(w, s)
                                 \/ TakeOvertaken(w, s)
    BY <2>1 DEF TakeAccept, TakeRecv, ServeRecv, TakeSend, TakeOvertaken
  <2>2. CASE BindIOCompletionPort(w)
    BY <2>2 DEF BindIOCompletionPort
  <2>3. CASE OnConnect(w) \/ Activate(w) \/ ActivateClear(w) \/ OnRecv(w) \/ OnDisconnect(w)
    BY <2>3 DEF OnConnect, Activate, ActivateClear, OnRecv, OnDisconnect
  <2>4. CASE BindRecv(w)
    BY <2>4 DEF BindRecv
  <2>5. CASE Count(w) \/ SendDone(w)
    BY <2>5 DEF Count, SendDone
  <2> QED BY <1>3, <2>1, <2>2, <2>3, <2>4, <2>5 DEF WorkerThread
<1>4. CASE SenderThread
  BY <1>4 DEF SenderThread, HasSendData, BindSend, WSASend
<1>5. ASSUME NEW t \in Threads, CloseSocket(t) PROVE AcceptingInv'
  BY <1>5 DEF CloseSocket, CloseMax, CloseCas, CloseOnce, ClosesocketStep, ClearSendBuffer,
              ClearSending, ClearClosedTime, CloseCount, CloseReturns
<1> QED BY <1>1, <1>2, <1>a, <1>3, <1>4, <1>5 DEF Next, OthersStep, SlotStep

LEMMA CountsAreFinite ==
  /\ IsFiniteSet(ActiveSlots) /\ IsFiniteSet(Leaving) /\ IsFiniteSet(Uncounted)
  /\ Cardinality(ActiveSlots) \in Nat /\ Cardinality(ActiveSlots) < CntRange
  /\ Cardinality(Leaving) \in Nat
  /\ Cardinality(Uncounted) \in Nat
<1>1. IsFiniteSet(Threads)
  BY FiniteAssumption, FS_AddElement DEF Threads
<1>2. ActiveSlots \in SUBSET Sessions /\ Leaving \in SUBSET Threads /\ Uncounted \in SUBSET Threads
  BY DEF ActiveSlots, Leaving, Uncounted
<1>3. /\ IsFiniteSet(ActiveSlots) /\ IsFiniteSet(Leaving) /\ IsFiniteSet(Uncounted)
      /\ Cardinality(ActiveSlots) <= Cardinality(Sessions)
  BY <1>1, <1>2, FiniteAssumption, FS_Subset
<1>4. /\ Cardinality(Sessions) \in Nat /\ Cardinality(ActiveSlots) \in Nat
      /\ Cardinality(Leaving) \in Nat /\ Cardinality(Uncounted) \in Nat
  BY <1>3, FiniteAssumption, FS_CardinalityType
<1> QED BY <1>3, <1>4, FiniteAssumption, BoundsAssumption

\* What ++ and -- do to a counter that wraps.
LEMMA UpWraps ==
  ASSUME NEW r \in Nat \ {0}, NEW n \in 0 .. r - 1
  PROVE  \E j \in Int : (n + 1) % r = n + 1 + j * r
<1>1. CASE n + 1 < r
  <2>1. (n + 1) % r = n + 1 + 0 * r
    BY <1>1
  <2> QED BY <2>1
<1>2. CASE n + 1 = r
  <2>1. (n + 1) % r = n + 1 + (-1) * r
    BY <1>2
  <2> QED BY <2>1
<1> QED BY <1>1, <1>2

LEMMA DownWraps ==
  ASSUME NEW r \in Nat \ {0}, NEW n \in 0 .. r - 1
  PROVE  \E j \in Int : (n - 1) % r = n - 1 + j * r
<1>1. CASE n >= 1
  <2>1. (n - 1) % r = n - 1 + 0 * r
    BY <1>1
  <2> QED BY <2>1
<1>2. CASE n = 0
  <2>1. (n - 1) % r = r - 1
    BY <1>2
  <2>2. (n - 1) % r = n - 1 + 1 * r
    BY <1>2, <2>1
  <2> QED BY <2>2
<1> QED BY <1>1, <1>2

LEMMA WrapsAdd ==
  ASSUME NEW r \in Nat \ {0}, NEW j \in Int, NEW k \in Int
  PROVE  j * r + k * r = (j + k) * r
OBVIOUS

LEMMA NoWrap ==
  ASSUME NEW r \in Nat \ {0}, NEW n \in 0 .. r - 1, NEW a \in 0 .. r - 1,
         NEW k \in Int, n = a + k * r
  PROVE  n = a
<1>1. CASE k >= 1
  <2>1. k * r >= r
    BY <1>1
  <2> QED BY <2>1
<1>2. CASE k <= -1
  <2>1. k * r <= -r
    BY <1>2
  <2> QED BY <2>1
<1>3. CASE k = 0
  BY <1>3
<1> QED BY <1>1, <1>2, <1>3

\* A thread that enters or leaves a set of threads.
LEMMA SetsCount ==
  ASSUME NEW S, IsFiniteSet(S), NEW x
  PROVE  /\ x \notin S => Cardinality(S \cup {x}) = Cardinality(S) + 1
         /\ x \in S => Cardinality(S \ {x}) = Cardinality(S) - 1
BY FS_AddElement, FS_RemoveElement

LEMMA CountStep ==
  ASSUME HeldInv, AcceptingInv, CountInv, [Next]_vars
  PROVE  CountInv'
<1> DEFINE a == Cardinality(ActiveSlots)
           l == Cardinality(Leaving)
           u == Cardinality(Uncounted)
           n == current_session_cnt_
<1>0. /\ a \in Nat /\ l \in Nat /\ u \in Nat
      /\ CntRange \in Nat \ {0} /\ n \in 0 .. CntRange - 1
      /\ IsFiniteSet(ActiveSlots) /\ IsFiniteSet(Leaving) /\ IsFiniteSet(Uncounted)
  BY CountsAreFinite, BoundsAssumption DEF HeldInv, TypeOK
<1>k. PICK k \in Int : n = a + l - u + k * CntRange
  BY DEF CountInv, CountIs
<1>f. pc \in [Threads -> Steps] /\ on \in [Threads -> Sessions \cup {NoSession}]
      /\ accepting \in [Threads -> BOOLEAN] /\ is_activated_ \in [Sessions -> BOOLEAN]
  BY DEF HeldInv, TypeOK
<1>1. ASSUME ActiveSlots' = ActiveSlots, Leaving' = Leaving, Uncounted' = Uncounted,
             current_session_cnt_' = current_session_cnt_
      PROVE  CountInv'
  BY <1>1 DEF CountInv, CountIs
<1>2. ASSUME NEW t \in Threads, Leaving' = Leaving \ {t}, t \in Leaving,
             ActiveSlots' = ActiveSlots, Uncounted' = Uncounted,
             n' = (n - 1) % CntRange
      PROVE  CountInv'
  <2>1. Cardinality(Leaving') = l - 1
    BY <1>0, <1>2, SetsCount
  <2>2. PICK j \in Int : n' = n - 1 + j * CntRange
    BY <1>0, <1>2, DownWraps
  <2>3. n' = a + (l - 1) - u + (k + j) * CntRange
    <3>1. k * CntRange + j * CntRange = (k + j) * CntRange
      BY <1>0, WrapsAdd
    <3>2. k * CntRange \in Int /\ j * CntRange \in Int
      BY <1>0
    <3> QED BY <1>0, <1>k, <2>2, <3>1, <3>2
  <2>4. k + j \in Int
    OBVIOUS
  <2> QED BY <1>2, <2>1, <2>3, <2>4 DEF CountInv, CountIs
<1>3. ASSUME NEW t \in Threads, Uncounted' = Uncounted \ {t}, t \in Uncounted,
             ActiveSlots' = ActiveSlots, Leaving' = Leaving,
             n' = (n + 1) % CntRange
      PROVE  CountInv'
  <2>1. Cardinality(Uncounted') = u - 1
    BY <1>0, <1>3, SetsCount
  <2>2. PICK j \in Int : n' = n + 1 + j * CntRange
    BY <1>0, <1>3, UpWraps
  <2>3. n' = a + l - (u - 1) + (k + j) * CntRange
    <3>1. k * CntRange + j * CntRange = (k + j) * CntRange
      BY <1>0, WrapsAdd
    <3>2. k * CntRange \in Int /\ j * CntRange \in Int
      BY <1>0
    <3> QED BY <1>0, <1>k, <2>2, <3>1, <3>2
  <2>4. k + j \in Int
    OBVIOUS
  <2> QED BY <1>3, <2>1, <2>3, <2>4 DEF CountInv, CountIs
<1>4. ASSUME NEW t \in Threads, NEW s \in Sessions,
             ActiveSlots' = ActiveSlots \ {s}, s \in ActiveSlots,
             Leaving' = Leaving \cup {t}, t \notin Leaving,
             Uncounted' = Uncounted, n' = n
      PROVE  CountInv'
  <2>1. Cardinality(ActiveSlots') = a - 1 /\ Cardinality(Leaving') = l + 1
    BY <1>0, <1>4, SetsCount
  <2>2. n' = (a - 1) + (l + 1) - u + k * CntRange
    BY <1>0, <1>k, <1>4
  <2> QED BY <1>4, <2>1, <2>2 DEF CountInv, CountIs
<1>5. ASSUME NEW t \in Threads, NEW s \in Sessions,
             ActiveSlots' = ActiveSlots \cup {s}, s \notin ActiveSlots,
             Uncounted' = Uncounted \cup {t}, t \notin Uncounted,
             Leaving' = Leaving, n' = n
      PROVE  CountInv'
  <2>1. Cardinality(ActiveSlots') = a + 1 /\ Cardinality(Uncounted') = u + 1
    BY <1>0, <1>5, SetsCount
  <2>2. n' = (a + 1) + l - (u + 1) + k * CntRange
    BY <1>0, <1>k, <1>5
  <2> QED BY <1>5, <2>1, <2>2 DEF CountInv, CountIs
<1> HIDE DEF a, l, u, n
<1>6. CASE UNCHANGED vars
  BY <1>1, <1>6 DEF vars, session, threads, ActiveSlots, Leaving, Uncounted
<1>7. ASSUME NEW s \in Sessions, SlotStep(s) PROVE CountInv'
  <2>1. UNCHANGED <<is_activated_, threads, current_session_cnt_>>
    BY <1>7 DEF SlotStep, AcceptCompletes, RecvCompletes, SendCompletes,
                SendPacket, ContentServesDisconnect, Elapse, session
  <2> QED BY <1>1, <2>1 DEF threads, ActiveSlots, Leaving, Uncounted
<1>a. CASE AccepterThread
  <2>1. UNCHANGED <<is_activated_, threads, current_session_cnt_>>
    BY <1>a DEF AccepterThread, LookAt, CompareTime, Subtract, BindAccept, session
  <2> QED BY <1>1, <2>1 DEF threads, ActiveSlots, Leaving, Uncounted
<1>8. ASSUME NEW t \in Threads, UNCHANGED <<is_activated_, current_session_cnt_>>,
             \A x \in Threads : x # t => pc'[x] = pc[x] /\ accepting'[x] = accepting[x],
             ~(pc[t] \in Clearing \cup {"close_count"}),
             ~(pc'[t] \in Clearing \cup {"close_count"}),
             accepting[t] /\ pc[t] \notin Setup <=> accepting'[t] /\ pc'[t] \notin Setup
      PROVE  CountInv'
  BY <1>1, <1>8 DEF ActiveSlots, Leaving, Uncounted
<1>9. ASSUME NEW w \in Workers, WorkerThread(w) PROVE CountInv'
  <2>0. w \in Threads
    BY WorkerIsThread
  <2>1. CASE \E s \in Sessions : TakeAccept(w, s)
    BY <1>8, <1>f, <2>0, <2>1 DEF TakeAccept, Take, Goto, session, Setup, Clearing,
           AcceptingInv
  <2>2. CASE \E s \in Sessions : TakeRecv(w, s) \/ TakeSend(w, s) \/ TakeOvertaken(w, s)
    BY <1>8, <1>f, <2>0, <2>2
       DEF TakeRecv, ServeRecv, TakeSend, TakeOvertaken, Take, Goto, session, Setup, Clearing,
           AcceptingInv
  <2>3. CASE BindIOCompletionPort(w)
    BY <1>8, <1>f, <2>0, <2>3 DEF BindIOCompletionPort, Goto, session, Setup, Clearing
  <2>4. CASE OnConnect(w) \/ ActivateClear(w) \/ OnRecv(w) \/ OnDisconnect(w)
    BY <1>8, <1>f, <2>0, <2>4
       DEF OnConnect, ActivateClear, OnRecv, OnDisconnect, Goto, session, Setup, Clearing
  <2>5. CASE BindRecv(w)
    BY <1>8, <1>f, <2>0, <2>5
       DEF BindRecv, Goto, Done, session, Setup, Clearing
  <2>6. CASE SendDone(w)
    BY <1>8, <1>f, <2>0, <2>6
       DEF SendDone, Goto, Done, session, Setup, Clearing, AcceptingInv
  <2>7. CASE Activate(w)
    <3>1. PICK s \in Sessions : s = on[w]
      BY <2>0, <2>7, <1>f DEF Activate, HeldInv, Busy
    <3>2. s \notin ActiveSlots
      BY <2>0, <2>7, <3>1 DEF Activate, HeldInv, Held, SetupHolds, Setup, ActiveSlots
    <3>3. ActiveSlots' = ActiveSlots \cup {s}
      BY <2>7, <3>1, <1>f DEF Activate, ActiveSlots
    <3>4. w \notin Uncounted /\ Uncounted' = Uncounted \cup {w}
      BY <2>0, <2>7, <1>f DEF Activate, Goto, Uncounted, Setup, AcceptingInv
    <3>5. Leaving' = Leaving
      BY <2>0, <2>7, <1>f DEF Activate, Goto, Leaving, Clearing
    <3> QED BY <1>5, <2>0, <2>7, <3>2, <3>3, <3>4, <3>5 DEF Activate, n
  <2>8. CASE Count(w)
    <3>1. w \in Uncounted /\ Uncounted' = Uncounted \ {w}
      BY <2>0, <2>8, <1>f DEF Count, Done, Goto, Uncounted, Setup, AcceptingInv
    <3>2. Leaving' = Leaving
      BY <2>0, <2>8, <1>f DEF Count, Done, Goto, Leaving, Clearing
    <3>3. ActiveSlots' = ActiveSlots
      BY <2>8 DEF Count, session, ActiveSlots
    <3> QED BY <1>3, <2>0, <2>8, <3>1, <3>2, <3>3 DEF Count, n
  <2> QED BY <1>9, <2>1, <2>2, <2>3, <2>4, <2>5, <2>6, <2>7, <2>8 DEF WorkerThread
<1>10. CASE SenderThread
  <2>0. Sender \in Threads /\ ~accepting[Sender]
    BY SenderIsThread DEF AcceptingInv
  <2>1. CASE \E s \in Sessions : HasSendData(s)
    BY <1>8, <1>f, <2>0, <2>1 DEF HasSendData, Goto, session, Setup, Clearing
  <2>2. CASE BindSend
    <3>1. CASE Goto(Sender, "wsa_send") /\ UNCHANGED <<on, accepting>>
      BY <1>8, <1>f, <2>0, <2>2, <3>1 DEF BindSend, Goto, Setup, Clearing
    <3>2. CASE Done(Sender)
      BY <1>8, <1>f, <2>0, <2>2, <3>2 DEF BindSend, Goto, Done, Setup, Clearing
    <3> QED BY <2>2, <3>1, <3>2 DEF BindSend
  <2>3. CASE WSASend
    <3>1. CASE Goto(Sender, "close_max") /\ UNCHANGED <<on, accepting>>
      BY <1>8, <1>f, <2>0, <2>3, <3>1 DEF WSASend, Goto, Setup, Clearing
    <3>2. CASE Done(Sender)
      BY <1>8, <1>f, <2>0, <2>3, <3>2 DEF WSASend, Goto, Done, Setup, Clearing
    <3> QED BY <2>3, <3>1, <3>2 DEF WSASend
  <2> QED BY <1>10, <2>1, <2>2, <2>3 DEF SenderThread
<1>11. ASSUME NEW t \in Threads, CloseSocket(t) PROVE CountInv'
  <2>1. CASE CloseMax(t) \/ ClosesocketStep(t) \/ ClearSendBuffer(t) \/ ClearSending(t)
             \/ ClearClosedTime(t)
    <3>1. UNCHANGED <<is_activated_, current_session_cnt_, accepting>>
      BY <2>1 DEF CloseMax, ClosesocketStep, ClearSendBuffer, ClearSending, ClearClosedTime
    <3>2. \/ pc[t] = "close_max" /\ Goto(t, "close_cas")
          \/ pc[t] = "close_socket" /\ Goto(t, "close_clear")
          \/ pc[t] = "close_clear" /\ Goto(t, "close_sending")
          \/ pc[t] = "close_sending" /\ Goto(t, "close_time")
          \/ pc[t] = "close_time" /\ Goto(t, "close_count")
      BY <2>1 DEF CloseMax, ClosesocketStep, ClearSendBuffer, ClearSending, ClearClosedTime
    <3>3. Leaving' = Leaving
      BY <3>2, <1>f DEF Goto, Leaving, Clearing
    <3>4. Uncounted' = Uncounted /\ ActiveSlots' = ActiveSlots
      BY <3>1, <3>2, <1>f DEF Goto, Uncounted, Setup, ActiveSlots
    <3> QED BY <1>1, <3>1, <3>3, <3>4
  <2>2. CASE CloseCas(t) /\ is_activated_[on[t]]
    <3>1. PICK s \in Sessions : s = on[t]
      BY <2>2, <1>f DEF CloseCas, HeldInv, Busy
    <3>2. /\ pc[t] = "close_cas" /\ Goto(t, "close_socket") /\ UNCHANGED <<on, accepting>>
          /\ is_activated_' = [is_activated_ EXCEPT ![s] = FALSE]
          /\ is_activated_[s] /\ UNCHANGED current_session_cnt_
      BY <2>2, <3>1 DEF CloseCas, CloseOnce
    <3>3. s \in ActiveSlots /\ ActiveSlots' = ActiveSlots \ {s}
      BY <3>2, <1>f DEF ActiveSlots
    <3>4. t \notin Leaving /\ Leaving' = Leaving \cup {t}
      BY <3>2, <1>f DEF Goto, Leaving, Clearing
    <3>5. Uncounted' = Uncounted
      BY <3>2, <1>f DEF Goto, Uncounted, Setup
    <3> QED BY <1>4, <3>2, <3>3, <3>4, <3>5 DEF n
  <2>3. CASE CloseCas(t) /\ ~is_activated_[on[t]]
    <3>1. pc[t] = "close_cas" /\ CloseReturns(t)
          /\ UNCHANGED <<is_activated_, current_session_cnt_>>
      BY <2>3 DEF CloseCas, CloseOnce
    <3>2. CASE accepting[t]
      BY <1>8, <1>f, <3>1, <3>2 DEF CloseReturns, Goto, Setup, Clearing
    <3>3. CASE ~accepting[t]
      BY <1>8, <1>f, <3>1, <3>3 DEF CloseReturns, Goto, Done, Setup, Clearing
    <3> QED BY <3>2, <3>3
  <2>4. CASE CloseCount(t)
    <3>1. pc[t] = "close_count" /\ CloseReturns(t) /\ UNCHANGED is_activated_
          /\ n' = (n - 1) % CntRange
      BY <2>4 DEF CloseCount, CountDown, session, n
    <3>2. t \in Leaving /\ Leaving' = Leaving \ {t}
      BY <3>1, <1>f DEF CloseReturns, Goto, Done, Leaving, Clearing
    <3>3. Uncounted' = Uncounted /\ ActiveSlots' = ActiveSlots
      BY <3>1, <1>f DEF CloseReturns, Goto, Done, Uncounted, Setup, ActiveSlots
    <3> QED BY <1>2, <3>1, <3>2, <3>3
  <2> QED BY <1>11, <2>1, <2>2, <2>3, <2>4 DEF CloseSocket
<1> QED BY <1>6, <1>7, <1>a, <1>9, <1>10, <1>11 DEF Next, OthersStep, SlotStep

LEMMA CountAlways == Spec => [](AcceptingInv /\ CountInv)
<1>1. Init => AcceptingInv /\ CountInv
  <2> SUFFICES ASSUME Init PROVE AcceptingInv /\ CountInv
    OBVIOUS
  <2>1. AcceptingInv
    BY DEF Init, AcceptingInv, Setup
  <2>2. ActiveSlots = {} /\ Leaving = {} /\ Uncounted = {}
    BY DEF Init, ActiveSlots, Leaving, Uncounted, Clearing
  <2>3. 0 = 0 + 0 - 0 + 0 * CntRange
    BY BoundsAssumption
  <2>4. current_session_cnt_ = 0
    BY DEF Init
  <2> QED BY <2>1, <2>2, <2>3, <2>4, FS_EmptySet DEF CountInv, CountIs
<1>2. HeldInv /\ AcceptingInv /\ CountInv /\ [Next]_vars => (AcceptingInv /\ CountInv)'
  BY AcceptingStep, CountStep
<1> QED BY <1>1, <1>2, HeldAlways, PTL DEF Spec

\* However the threads raced in counting up and down, and although the counter
\* of the sessions (network.cpp:410, 509) is out of step meanwhile and may wrap
\* below zero: when all of them are done it is the number of slots in use.
THEOREM CountSettles == Spec => []CountIsActiveSlots
<1>1. HeldInv /\ AcceptingInv /\ CountInv => CountIsActiveSlots
  <2> SUFFICES ASSUME HeldInv, AcceptingInv, CountInv, \A t \in Threads : pc[t] = "idle"
               PROVE  current_session_cnt_ = Cardinality(ActiveSlots)
    BY DEF CountIsActiveSlots, ActiveSlots
  <2>1. Leaving = {} /\ Uncounted = {}
    BY DEF Leaving, Uncounted, Clearing, AcceptingInv
  <2>2. Cardinality(Leaving) = 0 /\ Cardinality(Uncounted) = 0
    BY <2>1, FS_EmptySet
  <2>3. PICK k \in Int : current_session_cnt_ = Cardinality(ActiveSlots) + 0 - 0 + k * CntRange
    BY <2>2 DEF CountInv, CountIs
  <2>4. /\ Cardinality(ActiveSlots) \in 0 .. CntRange - 1
        /\ current_session_cnt_ \in 0 .. CntRange - 1 /\ CntRange \in Nat \ {0}
    BY CountsAreFinite, BoundsAssumption DEF HeldInv, TypeOK
  <2>5. k * CntRange \in Int
    BY <2>4
  <2>6. current_session_cnt_ = Cardinality(ActiveSlots) + k * CntRange
    BY <2>3, <2>4, <2>5
  <2> QED BY <2>4, <2>6, NoWrap
<1> QED BY <1>1, HeldAlways, CountAlways, PTL
=============================================================================
