------------------------------ MODULE Network ------------------------------
(* The network layer (Network/): how a session slot is accepted, served and  *)
(* closed by the accepter, the sender and the IOCP workers, each step of     *)
(* which touches shared session state, and the callbacks the content layer   *)
(* gets from it.                                                             *)
(*                                                                           *)
(* Winsock is external: a request (AcceptEx, WSARecv, WSASend) succeeds or   *)
(* fails at once, and one that succeeds is completed later; closesocket      *)
(* aborts what is pending, and the abort is a completion too. Completions    *)
(* reach the workers in any order.                                           *)
(*                                                                           *)
(* Time. latest_conn_closed_ is "max" (UINT64_MAX), "now" or "old" (more     *)
(* than kSESSION_REUSE_SECONDS before the accepter's cur_time). Those        *)
(* seconds are taken to be enough for the completions of a closed slot to be *)
(* handled, see Elapse. The accepter loads it twice, though, and can be made *)
(* to reuse a slot without waiting, see Subtract; rushed says it did.        *)
(*                                                                           *)
(* An operator whose comment starts with "Slip:" is no part of the code: it  *)
(* is a plausible mistake in the definition that follows, kept to show that  *)
(* the properties notice it.                                                 *)
EXTENDS Integers, FiniteSets

CONSTANTS
  Sessions,       \* session_list_
  Workers,        \* IOCP worker threads
  Sender,         \* the sender thread
  NoSession,
  CntRange,       \* 2^32: current_session_cnt_ is a uint32_t
  MaxConnects,    \* bound: connections accepted in all
  MaxSends        \* bound: packets sent by the content layer in all

ASSUME NamesAssumption == Sender \notin Workers /\ NoSession \notin Sessions
\* kMAX_SESSION_CNT is 1000 (network_config.h:11).
ASSUME FiniteAssumption ==
  /\ IsFiniteSet(Sessions) /\ IsFiniteSet(Workers)
  /\ Cardinality(Sessions) < CntRange
ASSUME BoundsAssumption ==
  /\ CntRange \in Nat \ {0}
  /\ MaxConnects \in Nat
  /\ MaxSends \in Nat

VARIABLES
  socket_,              \* invalid, accepting or connected
  is_activated_,
  is_sending_,
  latest_conn_closed_,
  send_buf_,            \* packets in the send ring
  current_session_cnt_,
  accept_io,            \* none, pending or a completion not yet dequeued
  recv_io,
  send_io,
  pc,                   \* where each thread is; the sender is a thread too
  on,                   \* the session it works on
  accepting,            \* the worker is inside the accept completion
  scan,                 \* where the accepter is in its loop
  slot,                 \* the session it looks at
  connects, sends,      \* counts
  told,                 \* what the content layer was told of the slot, see Callbacks
  known,                \* the content layer may send to the slot
  given,                \* packets of send_buf_ already handed to WSASend
  deaf,                 \* a receive could not be requested
  rushed                \* the slot was once reused without waiting

session == <<socket_, is_activated_, is_sending_, latest_conn_closed_, send_buf_>>
io      == <<accept_io, recv_io, send_io>>
threads == <<pc, on, accepting>>
history == <<connects, sends, told, known, given, deaf>>
accepter == <<scan, slot, rushed>>
vars    == <<session, current_session_cnt_, io, threads, history, accepter>>

Threads == Workers \cup {Sender}

Goto(t, step) == pc' = [pc EXCEPT ![t] = step]

\* Back to the loop.
Done(t) ==
  /\ Goto(t, "idle")
  /\ on' = [on EXCEPT ![t] = NoSession]
  /\ accepting' = [accepting EXCEPT ![t] = FALSE]

\* A worker takes a completion of s off the port.
Take(w, s, step) ==
  /\ pc[w] = "idle"
  /\ Goto(w, step)
  /\ on' = [on EXCEPT ![w] = s]

\* Nothing is under way for s: no thread, no request and no completion.
Still(s) ==
  /\ \A t \in Threads : on[t] # s
  /\ accept_io[s] = "none" /\ recv_io[s] = "none" /\ send_io[s] = "none"

Init ==
  /\ socket_ = [s \in Sessions |-> "invalid"]
  /\ is_activated_ = [s \in Sessions |-> FALSE]
  /\ is_sending_ = [s \in Sessions |-> FALSE]
  /\ latest_conn_closed_ = [s \in Sessions |-> "old"]
  /\ send_buf_ = [s \in Sessions |-> 0]
  /\ current_session_cnt_ = 0
  /\ accept_io = [s \in Sessions |-> "none"]
  /\ recv_io = [s \in Sessions |-> "none"]
  /\ send_io = [s \in Sessions |-> "none"]
  /\ pc = [t \in Threads |-> "idle"]
  /\ on = [t \in Threads |-> NoSession]
  /\ accepting = [t \in Threads |-> FALSE]
  /\ connects = 0
  /\ sends = 0
  /\ told = [s \in Sessions |-> "free"]
  /\ known = [s \in Sessions |-> FALSE]
  /\ given = [s \in Sessions |-> 0]
  /\ deaf = [s \in Sessions |-> FALSE]
  /\ scan = "idle"
  /\ slot = NoSession
  /\ rushed = [s \in Sessions |-> FALSE]

-----------------------------------------------------------------------------
(* The accepter thread (network.cpp:421-451), one step for each load. It     *)
(* looks at the slots in turn, here in any order.                            *)

\* continue
NextSlot == scan' = "idle" /\ slot' = NoSession

LookAt(s) ==
  /\ scan = "idle"
  /\ connects < MaxConnects
  /\ ~is_activated_[s]
  /\ scan' = "compare"
  /\ slot' = s
  /\ UNCHANGED <<session, current_session_cnt_, io, threads, history, rushed>>

\* The slot is passed over if cur_time, taken when the scan began, is less
\* than the time stored: always if that is UINT64_MAX, and if the slot was
\* closed since.
CompareTime ==
  /\ scan = "compare"
  /\ \/ latest_conn_closed_[slot] # "old" /\ NextSlot
     \/ latest_conn_closed_[slot] # "max" /\ scan' = "subtract" /\ UNCHANGED slot
  /\ UNCHANGED <<session, current_session_cnt_, io, threads, history, rushed>>

\* Slip: does not wait for kSESSION_REUSE_SECONDS to pass.
AnyTime(time) == TRUE

\* cur_time - time > kSESSION_REUSE_SECONDS, of unsigned numbers: for
\* UINT64_MAX the difference is cur_time + 1.
LongClosed(time) == time # "now"

\* The time is loaded again. CloseSocket may have stored UINT64_MAX since it
\* was compared; no other time, for the slot is not accepted in between.
Subtract ==
  /\ scan = "subtract"
  /\ LET time == latest_conn_closed_[slot]
     IN IF LongClosed(time)
          THEN /\ scan' = "bind"
               /\ rushed' = IF time = "max" THEN [rushed EXCEPT ![slot] = TRUE] ELSE rushed
               /\ UNCHANGED slot
          ELSE NextSlot /\ UNCHANGED rushed
  /\ UNCHANGED <<session, current_session_cnt_, io, threads, history>>

\* Its result is ignored: a slot whose WSASocket or AcceptEx fails keeps the
\* time that marks an accept as pending. The store of that time is one step
\* with the rest: the accepter alone loads it.
BindAccept ==
  /\ scan = "bind"
  /\ latest_conn_closed_' = [latest_conn_closed_ EXCEPT ![slot] = "max"]
  /\ \/ /\ socket_' = [socket_ EXCEPT ![slot] = "accepting"]
        /\ accept_io' = [accept_io EXCEPT ![slot] = "pending"]
     \/ UNCHANGED <<socket_, accept_io>>
  /\ connects' = connects + 1
  /\ NextSlot
  /\ UNCHANGED <<is_activated_, is_sending_, send_buf_, current_session_cnt_,
                 recv_io, send_io, threads, sends, told, known, given, deaf, rushed>>

AccepterThread ==
  \/ \E s \in Sessions : LookAt(s)
  \/ CompareTime
  \/ Subtract
  \/ BindAccept

-----------------------------------------------------------------------------
(* Winsock completes what is pending. *)

AcceptCompletes(s) ==
  /\ accept_io[s] = "pending"
  /\ accept_io' = [accept_io EXCEPT ![s] = "done"]
  /\ socket_' = [socket_ EXCEPT ![s] = "connected"]
  /\ UNCHANGED <<is_activated_, is_sending_, latest_conn_closed_, send_buf_,
                 current_session_cnt_, recv_io, send_io, threads, history>>

\* Data, or the end of the connection, graceful or not.
RecvCompletes(s) ==
  /\ recv_io[s] = "pending"
  /\ \E result \in {"done", "failed"} : recv_io' = [recv_io EXCEPT ![s] = result]
  /\ UNCHANGED <<session, current_session_cnt_, accept_io, send_io, threads, history>>

SendCompletes(s) ==
  /\ send_io[s] = "pending"
  /\ \E result \in {"done", "failed"} : send_io' = [send_io EXCEPT ![s] = result]
  /\ UNCHANGED <<session, current_session_cnt_, accept_io, recv_io, threads, history>>

-----------------------------------------------------------------------------
(* The workers: an accept completed (network.cpp:397-416). *)

TakeAccept(w, s) ==
  /\ accept_io[s] = "done"
  /\ Take(w, s, "bind_iocp")
  /\ accept_io' = [accept_io EXCEPT ![s] = "none"]
  /\ accepting' = [accepting EXCEPT ![w] = TRUE]
  /\ UNCHANGED <<session, current_session_cnt_, recv_io, send_io, history>>

\* If the bind fails, CloseSocket is called and nothing is counted.
BindIOCompletionPort(w) ==
  /\ pc[w] = "bind_iocp"
  /\ \/ Goto(w, "on_connect") /\ UNCHANGED accepting
     \/ Goto(w, "close_max") /\ accepting' = [accepting EXCEPT ![w] = FALSE]
  /\ UNCHANGED <<session, current_session_cnt_, io, on, history>>

OnConnect(w) ==
  /\ pc[w] = "on_connect"
  /\ told' = [told EXCEPT ![on[w]] = "open"]
  /\ deaf' = [deaf EXCEPT ![on[w]] = FALSE]
  /\ Goto(w, "activate")
  /\ UNCHANGED <<session, current_session_cnt_, io, on, accepting, connects,
                 sends, known, given>>

Activate(w) ==
  /\ pc[w] = "activate"
  /\ is_activated_' = [is_activated_ EXCEPT ![on[w]] = TRUE]
  /\ Goto(w, "activate_clear")
  /\ UNCHANGED <<socket_, is_sending_, latest_conn_closed_, send_buf_,
                 current_session_cnt_, io, on, accepting, history>>

\* Activate's send_buf_.ClearBuffer(), after the slot counts as active.
ActivateClear(w) ==
  /\ pc[w] = "activate_clear"
  /\ send_buf_' = [send_buf_ EXCEPT ![on[w]] = 0]
  /\ given' = [given EXCEPT ![on[w]] = 0]
  /\ Goto(w, "bind_recv")
  /\ UNCHANGED <<socket_, is_activated_, is_sending_, latest_conn_closed_,
                 current_session_cnt_, io, on, accepting, connects, sends,
                 told, known, deaf>>

\* BindRecv, for a new connection and after every receive. It can fail on any
\* socket and does on a closed one. A failure closes without OnDisconnect.
BindRecv(w) ==
  /\ pc[w] = "bind_recv"
  /\ \/ /\ socket_[on[w]] = "connected"
        /\ recv_io' = [recv_io EXCEPT ![on[w]] = "pending"]
        /\ IF accepting[w] THEN Goto(w, "count") /\ UNCHANGED <<on, accepting>>
                           ELSE Done(w)
        /\ UNCHANGED deaf
     \/ /\ deaf' = [deaf EXCEPT ![on[w]] = TRUE]
        /\ Goto(w, "close_max")
        /\ UNCHANGED <<recv_io, on, accepting>>
  /\ UNCHANGED <<session, current_session_cnt_, accept_io, send_io, connects,
                 sends, told, known, given>>

\* ++current_session_cnt_, also after a BindRecv that failed.
Count(w) ==
  /\ pc[w] = "count"
  /\ current_session_cnt_' = (current_session_cnt_ + 1) % CntRange
  /\ Done(w)
  /\ UNCHANGED <<session, io, history>>

-----------------------------------------------------------------------------
(* The workers: a receive or a send completed (network.cpp:339-394). *)

\* Slip: a connection that ends is closed without OnDisconnect.
CloseUnreported(w, s) ==
  Take(w, s, IF recv_io[s] = "done" THEN "on_recv" ELSE "close_max")

\* CheckGQCSResult: a failed or empty completion ends the session.
ServeRecv(w, s) ==
  Take(w, s, IF recv_io[s] = "done" THEN "on_recv" ELSE "on_disconnect")

TakeRecv(w, s) ==
  /\ recv_io[s] \in {"done", "failed"}
  /\ ServeRecv(w, s)
  /\ recv_io' = [recv_io EXCEPT ![s] = "none"]
  /\ UNCHANGED <<session, current_session_cnt_, accept_io, send_io, accepting, history>>

TakeSend(w, s) ==
  /\ send_io[s] \in {"done", "failed"}
  /\ Take(w, s, IF send_io[s] = "done" THEN "send_done" ELSE "on_disconnect")
  /\ send_io' = [send_io EXCEPT ![s] = "none"]
  /\ UNCHANGED <<session, current_session_cnt_, accept_io, recv_io, accepting, history>>

\* A completion of an earlier connection of a slot that was reused without
\* waiting, of which recv_io and send_io keep no record: at any time.
TakeOvertaken(w, s) ==
  /\ rushed[s]
  /\ \E step \in {"on_recv", "send_done", "on_disconnect"} : Take(w, s, step)
  /\ UNCHANGED <<session, current_session_cnt_, io, accepting, history>>

\* The content layer copies the bytes; recv_buf_ is free for the next receive.
OnRecv(w) ==
  /\ pc[w] = "on_recv"
  /\ known' = [known EXCEPT ![on[w]] = TRUE]
  /\ Goto(w, "bind_recv")
  /\ UNCHANGED <<session, current_session_cnt_, io, on, accepting, connects,
                 sends, told, given, deaf>>

\* is_sending_.store(0); the send ring is not touched.
SendDone(w) ==
  /\ pc[w] = "send_done"
  /\ is_sending_' = [is_sending_ EXCEPT ![on[w]] = FALSE]
  /\ Done(w)
  /\ UNCHANGED <<socket_, is_activated_, latest_conn_closed_, send_buf_,
                 current_session_cnt_, io, history>>

OnDisconnect(w) ==
  /\ pc[w] = "on_disconnect"
  /\ told' = [told EXCEPT ![on[w]] =
                IF @ = "open" THEN "closed" ELSE IF @ = "closed" THEN "free" ELSE "stray"]
  /\ Goto(w, "close_max")
  /\ UNCHANGED <<session, current_session_cnt_, io, on, accepting, connects,
                 sends, known, given, deaf>>

-----------------------------------------------------------------------------
(* CloseSocket and ClearSession (network.cpp:483-524), on a worker or on the *)
(* sender, one step for each access to what the threads share.               *)

CloseMax(t) ==
  /\ pc[t] = "close_max"
  /\ latest_conn_closed_' = [latest_conn_closed_ EXCEPT ![on[t]] = "max"]
  /\ Goto(t, "close_cas")
  /\ UNCHANGED <<socket_, is_activated_, is_sending_, send_buf_,
                 current_session_cnt_, io, on, accepting, history>>

\* Slip: a connection that failed at once is not counted in.
CloseJustReturns(t) == Done(t)

\* What follows CloseSocket: inside an accept completion, ++current_session_cnt_.
CloseReturns(t) ==
  IF accepting[t] THEN Goto(t, "count") /\ UNCHANGED <<on, accepting>> ELSE Done(t)

\* Slip: every caller goes on to close.
CloseAlways(t) ==
  /\ is_activated_' = [is_activated_ EXCEPT ![on[t]] = FALSE]
  /\ Goto(t, "close_socket")
  /\ UNCHANGED <<on, accepting>>

\* is_activated_.compare_exchange_strong(true, false)
CloseOnce(t) ==
  IF is_activated_[on[t]]
    THEN /\ is_activated_' = [is_activated_ EXCEPT ![on[t]] = FALSE]
         /\ Goto(t, "close_socket")
         /\ UNCHANGED <<on, accepting>>
    ELSE CloseReturns(t) /\ UNCHANGED is_activated_

CloseCas(t) ==
  /\ pc[t] = "close_cas"
  /\ CloseOnce(t)
  /\ UNCHANGED <<socket_, is_sending_, latest_conn_closed_, send_buf_,
                 current_session_cnt_, io, history>>

Aborted(request) == IF request = "pending" THEN "failed" ELSE request

\* closesocket and SetSocket(INVALID_SOCKET): a request on either fails.
ClosesocketStep(t) ==
  /\ pc[t] = "close_socket"
  /\ socket_' = [socket_ EXCEPT ![on[t]] = "invalid"]
  /\ recv_io' = [recv_io EXCEPT ![on[t]] = Aborted(@)]
  /\ send_io' = [send_io EXCEPT ![on[t]] = Aborted(@)]
  /\ Goto(t, "close_clear")
  /\ UNCHANGED <<is_activated_, is_sending_, latest_conn_closed_, send_buf_,
                 current_session_cnt_, accept_io, on, accepting, history>>

ClearSendBuffer(t) ==
  /\ pc[t] = "close_clear"
  /\ send_buf_' = [send_buf_ EXCEPT ![on[t]] = 0]
  /\ given' = [given EXCEPT ![on[t]] = 0]
  /\ Goto(t, "close_sending")
  /\ UNCHANGED <<socket_, is_activated_, is_sending_, latest_conn_closed_,
                 current_session_cnt_, io, on, accepting, connects, sends,
                 told, known, deaf>>

ClearSending(t) ==
  /\ pc[t] = "close_sending"
  /\ is_sending_' = [is_sending_ EXCEPT ![on[t]] = FALSE]
  /\ Goto(t, "close_time")
  /\ UNCHANGED <<socket_, is_activated_, latest_conn_closed_, send_buf_,
                 current_session_cnt_, io, on, accepting, history>>

ClearClosedTime(t) ==
  /\ pc[t] = "close_time"
  /\ latest_conn_closed_' = [latest_conn_closed_ EXCEPT ![on[t]] = "now"]
  /\ Goto(t, "close_count")
  /\ UNCHANGED <<socket_, is_activated_, is_sending_, send_buf_,
                 current_session_cnt_, io, on, accepting, history>>

\* Slip: as if the count could not run below zero.
CountDownPlain == current_session_cnt_ - 1

CountDown == (current_session_cnt_ - 1) % CntRange

CloseCount(t) ==
  /\ pc[t] = "close_count"
  /\ current_session_cnt_' = CountDown
  /\ CloseReturns(t)
  /\ UNCHANGED <<session, io, history>>

CloseSocket(t) ==
  \/ CloseMax(t)
  \/ CloseCas(t)
  \/ ClosesocketStep(t)
  \/ ClearSendBuffer(t)
  \/ ClearSending(t)
  \/ ClearClosedTime(t)
  \/ CloseCount(t)

-----------------------------------------------------------------------------
(* The sender thread (network.cpp:457-477, session.cpp:97-124). It looks at  *)
(* the slots in turn, here in any order.                                     *)

HasSendData(s) ==
  /\ pc[Sender] = "idle"
  /\ send_buf_[s] > 0
  /\ Goto(Sender, "bind_send")
  /\ on' = [on EXCEPT ![Sender] = s]
  /\ UNCHANGED <<session, current_session_cnt_, io, accepting, history>>

\* Slip: a send is requested whether or not one is outstanding.
MaySendAlways(s) == TRUE

\* is_sending_.compare_exchange_strong(false, true) succeeds.
MayBindSend(s) == ~is_sending_[s]

BindSend ==
  /\ pc[Sender] = "bind_send"
  /\ IF MayBindSend(on[Sender])
       THEN /\ is_sending_' = [is_sending_ EXCEPT ![on[Sender]] = TRUE]
            /\ Goto(Sender, "wsa_send")
            /\ UNCHANGED <<on, accepting>>
       ELSE Done(Sender) /\ UNCHANGED is_sending_
  /\ UNCHANGED <<socket_, is_activated_, latest_conn_closed_, send_buf_,
                 current_session_cnt_, io, history>>

\* WSASend of all that is in the ring, under send_lock_. If it takes the
\* bytes at once MoveFront removes them; if it is pending sent_bytes is 0 and
\* they stay. No bytes make a completion of no bytes, which counts as the end
\* of the connection. A failure leaves is_sending_ set.
WSASend ==
  /\ pc[Sender] = "wsa_send"
  /\ LET s == on[Sender]
     IN \/ /\ socket_[s] = "connected"
           /\ send_buf_[s] > 0
           /\ send_io' = [send_io EXCEPT ![s] = "pending"]
           /\ \/ /\ send_buf_' = [send_buf_ EXCEPT ![s] = 0]
                 /\ given' = [given EXCEPT ![s] = 0]
              \/ /\ given' = [given EXCEPT ![s] = send_buf_[s]]
                 /\ UNCHANGED send_buf_
           /\ Done(Sender)
        \/ /\ socket_[s] = "connected"
           /\ send_buf_[s] = 0
           /\ send_io' = [send_io EXCEPT ![s] = "failed"]
           /\ Done(Sender)
           /\ UNCHANGED <<send_buf_, given>>
        \/ /\ Goto(Sender, "close_max")
           /\ UNCHANGED <<send_io, send_buf_, given, on, accepting>>
  /\ UNCHANGED <<socket_, is_activated_, is_sending_, latest_conn_closed_,
                 current_session_cnt_, accept_io, recv_io, connects, sends,
                 told, known, deaf>>

-----------------------------------------------------------------------------
(* The content layer, and time. *)

\* SendPacket: the content layer sends to a slot it has had a packet from until
\* it has served the DISCONNECT, whatever has become of the connection.
SendPacket(s) ==
  /\ known[s]
  /\ sends < MaxSends
  /\ sends' = sends + 1
  /\ send_buf_' = [send_buf_ EXCEPT ![s] = @ + 1]
  /\ UNCHANGED <<socket_, is_activated_, is_sending_, latest_conn_closed_,
                 current_session_cnt_, io, threads, connects, told, known,
                 given, deaf>>

ContentServesDisconnect(s) ==
  /\ known[s]
  /\ told[s] # "open"
  /\ known' = [known EXCEPT ![s] = FALSE]
  /\ UNCHANGED <<session, current_session_cnt_, io, threads, connects, sends,
                 told, given, deaf>>

\* More than kSESSION_REUSE_SECONDS pass: by then what was under way for the
\* slot is over, the sender has come by, and the content layer has caught up.
\* While the accepter is at the slot, its cur_time stands.
Elapse(s) ==
  /\ latest_conn_closed_[s] = "now"
  /\ slot # s
  /\ Still(s)
  /\ send_buf_[s] > 0 => is_sending_[s]
  /\ known[s] => told[s] = "open"
  /\ latest_conn_closed_' = [latest_conn_closed_ EXCEPT ![s] = "old"]
  /\ UNCHANGED <<socket_, is_activated_, is_sending_, send_buf_,
                 current_session_cnt_, io, threads, history>>

WorkerThread(w) ==
  \/ \E s \in Sessions :
       \/ TakeAccept(w, s)
       \/ TakeRecv(w, s)
       \/ TakeSend(w, s)
       \/ TakeOvertaken(w, s)
  \/ BindIOCompletionPort(w)
  \/ OnConnect(w)
  \/ Activate(w)
  \/ ActivateClear(w)
  \/ BindRecv(w)
  \/ Count(w)
  \/ OnRecv(w)
  \/ SendDone(w)
  \/ OnDisconnect(w)

SenderThread ==
  \/ \E s \in Sessions : HasSendData(s)
  \/ BindSend
  \/ WSASend

\* What the threads other than the accepter do, and what happens around them.
OthersStep ==
  \/ \E s \in Sessions :
       \/ AcceptCompletes(s)
       \/ RecvCompletes(s)
       \/ SendCompletes(s)
       \/ SendPacket(s)
       \/ ContentServesDisconnect(s)
       \/ Elapse(s)
  \/ \E w \in Workers : WorkerThread(w)
  \/ SenderThread
  \/ \E t \in Threads : CloseSocket(t)

Next ==
  \/ AccepterThread
  \/ OthersStep /\ UNCHANGED accepter

Spec == Init /\ [][Next]_vars

-----------------------------------------------------------------------------
Steps == {"idle", "bind_iocp", "on_connect", "activate", "activate_clear", "bind_recv",
          "count", "on_recv", "send_done", "on_disconnect", "bind_send", "wsa_send",
          "close_max", "close_cas", "close_socket", "close_clear", "close_sending",
          "close_time", "close_count"}

TypeOK ==
  /\ socket_ \in [Sessions -> {"invalid", "accepting", "connected"}]
  /\ is_activated_ \in [Sessions -> BOOLEAN]
  /\ is_sending_ \in [Sessions -> BOOLEAN]
  /\ latest_conn_closed_ \in [Sessions -> {"max", "now", "old"}]
  /\ send_buf_ \in [Sessions -> Nat]
  /\ current_session_cnt_ \in 0 .. CntRange - 1
  /\ accept_io \in [Sessions -> {"none", "pending", "done"}]
  /\ recv_io \in [Sessions -> {"none", "pending", "done", "failed"}]
  /\ send_io \in [Sessions -> {"none", "pending", "done", "failed"}]
  /\ pc \in [Threads -> Steps]
  /\ on \in [Threads -> Sessions \cup {NoSession}]
  /\ accepting \in [Threads -> BOOLEAN]
  /\ connects \in 0 .. MaxConnects
  /\ sends \in 0 .. MaxSends
  /\ told \in [Sessions -> {"free", "open", "closed", "stray"}]
  /\ known \in [Sessions -> BOOLEAN]
  /\ given \in [Sessions -> Nat]
  /\ deaf \in [Sessions -> BOOLEAN]
  /\ scan \in {"idle", "compare", "subtract", "bind"}
  /\ slot \in IF scan = "idle" THEN {NoSession} ELSE Sessions
  /\ scan # "idle" => connects < MaxConnects
  /\ rushed \in [Sessions -> BOOLEAN]

\* A slot has one receive: no two workers hand the content layer bytes of one
\* connection, whose order and whose recv_buf_ would be lost
\* (network.cpp:372-385). So as long as the slot is not reused without waiting.
ReceiveThreads(s) ==
  {w \in Workers : on[w] = s /\ pc[w] \in {"on_connect", "activate",
                                           "activate_clear", "bind_recv", "on_recv"}}
OneReceive ==
  \A s \in Sessions : ~rushed[s] =>
    /\ Cardinality(ReceiveThreads(s)) <= 1
    /\ recv_io[s] # "none" => ReceiveThreads(s) = {}

\* "1-Send" (session.cpp:99): when the sender is about to call WSASend on a
\* connection, no earlier send of the slot is outstanding and no worker is
\* about to release is_sending_ for one, also across closing and reuse, as long
\* as the slot is not reused without waiting.
OneSend ==
  \A s \in Sessions :
    /\ ~rushed[s]
    /\ on[Sender] = s /\ pc[Sender] = "wsa_send" /\ socket_[s] = "connected"
    =>
      /\ send_io[s] = "none"
      /\ \A w \in Workers : on[w] = s => pc[w] # "send_done"

\* closesocket is called once for a connection and never for a slot that is
\* closed or being accepted (network.cpp:492-506): whoever got past the
\* exchange is alone with the connected socket. Also in a slot that was reused
\* without waiting.
Closing(s) ==
  {t \in Threads : on[t] = s /\ pc[t] \in {"close_socket", "close_clear", "close_sending",
                                           "close_time"}}
ClosedOnce ==
  \A s \in Sessions :
    /\ Cardinality(Closing(s)) <= 1
    /\ Closing(s) # {} => ~is_activated_[s] /\ socket_[s] # "accepting"
    /\ \A t \in Closing(s) : pc[t] = "close_socket" => socket_[s] = "connected"

\* current_session_cnt_ may run ahead or wrap below zero while threads race,
\* but once they are done it is the number of active slots.
CountIsActiveSlots ==
  (\A t \in Threads : pc[t] = "idle") =>
    current_session_cnt_ = Cardinality({s \in Sessions : is_activated_[s]})

\* However a connection ends, the content layer is told, unless it ended
\* because a receive could not be requested (network.cpp:377-382, 407-409).
\* Also in a slot that was reused without waiting.
EveryCloseReported ==
  \A s \in Sessions :
    Still(s) /\ ~is_activated_[s] /\ ~deaf[s] => told[s] # "open"

Calls == INSTANCE Callbacks WITH
           conn      <- [s \in Sessions |-> IF rushed[s] THEN "lost" ELSE told[s]],
           receiving <- [s \in Sessions |->
                           /\ ~rushed[s]
                           /\ \E w \in Workers : on[w] = s /\ pc[w] = "on_recv"]

\* What the threads of the network layer call, in every interleaving, is what
\* PacketManager takes for granted (chat_server.cpp:66-104): a disconnect is
\* reported after its connect and at most twice, bytes are handed over one
\* receive at a time and never after a second report, and none is still being
\* handed over when the slot's next connection is reported. All this until
\* the slot is reused without waiting, and after that nothing.
ImplementsCallbacks == Calls!CallSpec

\* "Close the socket, initialise the session and return it to the pool"
\* (network.cpp:504): the time ClearSession stores (network.cpp:520-523) stays
\* until the slot is reused; nothing takes it out of the pool again.
ReturnedSlotStaysReturned ==
  [][\A s \in Sessions :
       latest_conn_closed_[s] = "now" => latest_conn_closed_'[s] # "max"]_vars

\* A closed slot is marked "to keep it from being reused for a while"
\* (network.cpp:489) and reused after kSESSION_REUSE_SECONDS
\* (network.cpp:441-445).
ReusedAfterAWhile == \A s \in Sessions : ~rushed[s]

\* "Remove as much from the ring as the send request completed"
\* (session.cpp:120): bytes that were handed to WSASend are not sent again.
NothingSentTwice ==
  [][\A s \in Sessions :
       send_io[s] # "pending" /\ send_io'[s] = "pending" => given[s] = 0]_vars

\* is_sending_ says "whether a send is under way" (session.h:87).
SendingMeansSending ==
  \A s \in Sessions :
    is_activated_[s] /\ send_io[s] = "none" /\ (\A t \in Threads : on[t] # s)
      => ~is_sending_[s]
=============================================================================
