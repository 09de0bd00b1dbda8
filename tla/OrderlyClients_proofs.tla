----------------------- MODULE OrderlyClients_proofs -----------------------
(* What holds of PacketManager for orderly clients and timing, for every     *)
(* number of sessions, ids, rooms and requests: member lists, id map, users  *)
(* and what clients were told agree, and the content layer implements        *)
(* ChatService. Of the liberties only "unknown" is allowed: a packet without *)
(* a handler does no more than to keep its sender waiting. Orderly clients   *)
(* log in once and hang up only when no answer is outstanding, and no two    *)
(* ask for one id at once. The server does not make clients keep to that,    *)
(* and where one does not the theorems below say nothing: MCContentRace,     *)
(* MCContentHangup and MCContentSilent show what happens then.               *)
EXTENDS PacketManager_proofs

Disconnected(s) == [id |-> "kSYS_USER_DISCONNECT", session_index |-> s]

Queued(p) == \E i \in DOMAIN system_packet_queue_ : system_packet_queue_[i] = p

ConnectQueued(s) == Queued(Connected(s))

DisconnectQueued(s) == Queued(Disconnected(s))

\* A session has at most its CONNECT and then its DISCONNECT in the queue.
QueueInOrder ==
  \A i, j \in DOMAIN system_packet_queue_ :
    i < j /\ system_packet_queue_[i].session_index = system_packet_queue_[j].session_index =>
      /\ system_packet_queue_[i].id = "kSYS_USER_CONNECT"
      /\ system_packet_queue_[j].id = "kSYS_USER_DISCONNECT"

\* What is queued for a session leads from what the packet thread has served
\* of it to what the network has reported of it.
SlotInOrder(s) ==
  /\ ConnectQueued(s) => s \notin live
  /\ DisconnectQueued(s) => conn[s] = "closed"
  /\ s \in live \/ ConnectQueued(s) <=> conn[s] = "open" \/ DisconnectQueued(s)

\* One request at a time, and only on a connection the server has set up.
OneRequest(s) ==
  /\ awaiting[s] = Owed(s)
  /\ awaiting[s] \in {0, 1}
  /\ awaiting[s] = 1 => conn[s] = "open" /\ s \in live

SlotsInv == QueueInOrder /\ \A s \in Sessions : SlotInOrder(s) /\ OneRequest(s)

\* A user has an id while it is logged in, and while Redis is asked about it;
\* then nobody is registered with that id.
IdKnown(s) ==
  /\ LoggedIn(s) => user_id_[s] \in UserIds
  /\ s \in live /\ domain_state_[s] = "kNONE" /\ LoginsInFlight(s) = 0 =>
       user_id_[s] = NoId
  /\ LoginsInFlight(s) > 0 =>
       /\ domain_state_[s] = "kNONE"
       /\ user_id_[s] \in UserIds
       /\ user_id_map_[user_id_[s]] = NoSession

\* A login that is still to be handled comes from a user without one.
LoginWaits(s) ==
  \A i \in DOMAIN packet_buf_[s] :
    packet_buf_[s][i].id = "kLOGIN_REQUEST" =>
      domain_state_[s] = "kNONE" \/ (Completing(s) /\ i = 1)

OneAsks ==
  \A s, t \in Sessions, u \in UserIds : AsksFor(s, u) /\ AsksFor(t, u) => s = t

InRoom(s) == s \in live /\ domain_state_[s] = "kROOM"

\* MapMatchesUsers and RoomsMatchUsers are inductive only together with what
\* is known of the logins under way.
UsersInv ==
  /\ \A s \in Sessions : IdKnown(s) /\ LoginWaits(s)
  /\ \A s \in Sessions : InRoom(s) => room_idx_[s] \in Rooms
  /\ OneAsks
  /\ MapMatchesUsers
  /\ RoomsMatchUsers

\* RostersAgree, also for a connection that is not set up yet.
RosterKnown(s) ==
  conn[s] = "open" =>
    roster[s] = IF InRoom(s) THEN Members(user_list_[room_idx_[s]]) ELSE {}

RostersInv == \A s \in Sessions : RosterKnown(s)

OrderlyInv == SlotsInv /\ UsersInv /\ RostersInv

-----------------------------------------------------------------------------
(* The queue of system packets. *)

LEMMA SystemPacketForms ==
  ASSUME NEW p \in SystemPackets
  PROVE  /\ p.session_index \in Sessions
         /\ p.id = "kSYS_USER_CONNECT" <=> p = Connected(p.session_index)
         /\ p.id = "kSYS_USER_DISCONNECT" <=> p = Disconnected(p.session_index)
         /\ p.id \in {"kSYS_USER_CONNECT", "kSYS_USER_DISCONNECT"}
BY DEF SystemPackets, Connected, Disconnected

LEMMA QueuedPacket ==
  ASSUME TypeOK, NEW s \in Sessions
  PROVE  /\ Connected(s) \in SystemPackets /\ Disconnected(s) \in SystemPackets
         /\ Connected(s) # Disconnected(s)
         /\ Connected(s).session_index = s /\ Disconnected(s).session_index = s
         /\ SystemPacketQueued(s) <=> ConnectQueued(s) \/ DisconnectQueued(s)
<1>1. /\ Connected(s) \in SystemPackets /\ Disconnected(s) \in SystemPackets
      /\ Connected(s) # Disconnected(s)
      /\ Connected(s).session_index = s /\ Disconnected(s).session_index = s
  BY DEF Connected, Disconnected, SystemPackets
<1>2. \A i \in DOMAIN system_packet_queue_ : system_packet_queue_[i] \in SystemPackets
  BY ElementOfSeq DEF TypeOK
<1>3. \A i \in DOMAIN system_packet_queue_ :
        system_packet_queue_[i].session_index = s <=>
          \/ system_packet_queue_[i] = Connected(s)
          \/ system_packet_queue_[i] = Disconnected(s)
  BY <1>1, <1>2, SystemPacketForms
<1> QED BY <1>1, <1>3 DEF SystemPacketQueued, ConnectQueued, DisconnectQueued, Queued

\* A report is queued behind what is queued already.
LEMMA QueueGrows ==
  ASSUME TypeOK, QueueInOrder, NEW p \in SystemPackets,
         system_packet_queue_' = Append(system_packet_queue_, p),
         NEW s \in Sessions, p.session_index = s,
         \/ p = Connected(s) /\ ~SystemPacketQueued(s)
         \/ p = Disconnected(s) /\ ~DisconnectQueued(s)
  PROVE  /\ QueueInOrder'
         /\ \A x \in Sessions :
              /\ ConnectQueued(x)' <=> ConnectQueued(x) \/ p = Connected(x)
              /\ DisconnectQueued(x)' <=> DisconnectQueued(x) \/ p = Disconnected(x)
<1> DEFINE q == system_packet_queue_
           n == Len(system_packet_queue_)
<1>1. /\ n \in Nat
      /\ DOMAIN q = 1 .. n
      /\ DOMAIN Append(q, p) = 1 .. n + 1
      /\ \A i \in 1 .. n : Append(q, p)[i] = q[i]
      /\ Append(q, p)[n + 1] = p
  BY AppendProperties, LenProperties DEF TypeOK
<1>2. 1 .. n + 1 = (1 .. n) \cup {n + 1}
  BY <1>1
<1>3. ASSUME NEW v PROVE Queued(v)' <=> Queued(v) \/ p = v
  <2>1. v' = v
    OBVIOUS
  <2> QED BY <1>1, <1>2 DEF Queued
<1>4. \A x \in Sessions :
        /\ ConnectQueued(x)' <=> ConnectQueued(x) \/ p = Connected(x)
        /\ DisconnectQueued(x)' <=> DisconnectQueued(x) \/ p = Disconnected(x)
  BY <1>3 DEF ConnectQueued, DisconnectQueued, Connected, Disconnected
<1>5. ASSUME NEW i \in 1 .. n, q[i].session_index = p.session_index
      PROVE  q[i].id = "kSYS_USER_CONNECT" /\ p.id = "kSYS_USER_DISCONNECT"
  <2>1. SystemPacketQueued(s)
    BY <1>1, <1>5 DEF SystemPacketQueued
  <2>2. p = Disconnected(s) /\ ~DisconnectQueued(s)
    BY <2>1
  <2>3. q[i] \in SystemPackets
    BY <1>1, ElementOfSeq DEF TypeOK
  <2>4. q[i] # Disconnected(s)
    BY <1>1, <2>2 DEF DisconnectQueued, Queued
  <2>5. q[i].id = "kSYS_USER_CONNECT"
    BY <1>5, <2>3, <2>4, SystemPacketForms
  <2> QED BY <2>2, <2>5 DEF Disconnected
<1>6. QueueInOrder'
  <2>1. DOMAIN q' = 1 .. n + 1 /\ q' = Append(q, p)
    BY <1>1
  <2>2. SUFFICES ASSUME NEW i \in 1 .. n + 1, NEW j \in 1 .. n + 1, i < j,
                        q'[i].session_index = q'[j].session_index
                 PROVE  /\ q'[i].id = "kSYS_USER_CONNECT"
                        /\ q'[j].id = "kSYS_USER_DISCONNECT"
    BY <2>1 DEF QueueInOrder
  <2>3. i \in 1 .. n /\ q'[i] = q[i]
    BY <1>1, <2>1, <2>2
  <2>4. CASE j = n + 1
    BY <1>1, <1>5, <2>1, <2>2, <2>3, <2>4
  <2>5. CASE j # n + 1
    <3>1. j \in 1 .. n /\ q'[j] = q[j]
      BY <1>1, <2>1, <2>5
    <3> QED BY <1>1, <2>2, <2>3, <3>1 DEF QueueInOrder
  <2> QED BY <2>4, <2>5
<1> QED BY <1>4, <1>6

\* The packet thread takes the oldest packet, and none like it is left.
LEMMA QueueShrinks ==
  ASSUME TypeOK, QueueInOrder, system_packet_queue_ # <<>>,
         system_packet_queue_' = Tail(system_packet_queue_),
         NEW p, p = Head(system_packet_queue_)
  PROVE  /\ p \in SystemPackets
         /\ QueueInOrder'
         /\ \A x \in Sessions :
              /\ ConnectQueued(x) <=> ConnectQueued(x)' \/ p = Connected(x)
              /\ DisconnectQueued(x) <=> DisconnectQueued(x)' \/ p = Disconnected(x)
              /\ p = Connected(x) => ~ConnectQueued(x)'
              /\ p = Disconnected(x) => ~DisconnectQueued(x)' /\ ~ConnectQueued(x)
<1> DEFINE q == system_packet_queue_
           n == Len(system_packet_queue_)
<1>1. /\ n \in Nat \ {0}
      /\ DOMAIN q = 1 .. n
      /\ DOMAIN Tail(q) = 1 .. n - 1
      /\ \A i \in 1 .. n - 1 : Tail(q)[i] = q[i + 1]
      /\ p = q[1] /\ p \in SystemPackets
  <2>0. q \in Seq(SystemPackets)
    BY DEF TypeOK
  <2>1. n \in Nat /\ DOMAIN q = 1 .. n /\ (n = 0 => q = <<>>)
    BY <2>0, LenProperties, EmptySeq
  <2>2. /\ Tail(q) \in Seq(SystemPackets)
        /\ Len(Tail(q)) = n - 1
        /\ \A i \in 1 .. Len(Tail(q)) : Tail(q)[i] = q[i + 1]
        /\ Head(q) = q[1] /\ Head(q) \in SystemPackets
    BY <2>0, HeadTailProperties
  <2>3. DOMAIN Tail(q) = 1 .. Len(Tail(q))
    BY <2>2, LenProperties
  <2> QED BY <2>1, <2>2, <2>3
<1>2. /\ 1 \in 1 .. n
      /\ \A i \in 1 .. n : i = 1 \/ (i - 1 \in 1 .. n - 1 /\ Tail(q)[i - 1] = q[i])
      /\ \A i \in 1 .. n - 1 : i + 1 \in 1 .. n /\ 1 < i + 1 /\ Tail(q)[i] = q[i + 1]
      /\ \A i, j \in 1 .. n - 1 : i < j => i + 1 < j + 1
  BY <1>1
<1>3. DOMAIN q' = 1 .. n - 1 /\ q' = Tail(q)
  BY <1>1
<1>4. QueueInOrder <=>
        \A i, j \in 1 .. n :
          i < j /\ q[i].session_index = q[j].session_index =>
            q[i].id = "kSYS_USER_CONNECT" /\ q[j].id = "kSYS_USER_DISCONNECT"
  BY <1>1 DEF QueueInOrder
<1>5. QueueInOrder' <=>
        \A i, j \in 1 .. n - 1 :
          i < j /\ Tail(q)[i].session_index = Tail(q)[j].session_index =>
            Tail(q)[i].id = "kSYS_USER_CONNECT" /\ Tail(q)[j].id = "kSYS_USER_DISCONNECT"
  BY <1>3 DEF QueueInOrder
<1>6. ASSUME NEW v PROVE /\ Queued(v)  <=> \E i \in 1 .. n : q[i] = v
                         /\ Queued(v)' <=> \E i \in 1 .. n - 1 : Tail(q)[i] = v
  BY <1>1, <1>3 DEF Queued
<1> HIDE DEF q, n
<1>7. QueueInOrder'
  <2>1. SUFFICES ASSUME NEW i \in 1 .. n - 1, NEW j \in 1 .. n - 1, i < j,
                        Tail(q)[i].session_index = Tail(q)[j].session_index
                 PROVE  /\ Tail(q)[i].id = "kSYS_USER_CONNECT"
                        /\ Tail(q)[j].id = "kSYS_USER_DISCONNECT"
    BY <1>5
  <2>2. i + 1 \in 1 .. n /\ j + 1 \in 1 .. n /\ i + 1 < j + 1
    BY <1>2, <2>1
  <2>3. Tail(q)[i] = q[i + 1] /\ Tail(q)[j] = q[j + 1]
    BY <1>2
  <2>4. q[i + 1].session_index = q[j + 1].session_index
    BY <2>1, <2>3
  <2>5. q[i + 1].id = "kSYS_USER_CONNECT" /\ q[j + 1].id = "kSYS_USER_DISCONNECT"
    BY <1>4, <2>2, <2>4
  <2> QED BY <2>3, <2>5
<1>8. ASSUME NEW v PROVE Queued(v) <=> Queued(v)' \/ p = v
  BY <1>1, <1>2, <1>6
<1>9. ~Queued(p)'
  <2>1. SUFFICES ASSUME NEW i \in 1 .. n - 1, Tail(q)[i] = p PROVE FALSE
    BY <1>6
  <2>2. q[i + 1] = q[1] /\ i + 1 \in 1 .. n /\ 1 < i + 1
    BY <1>1, <1>2, <2>1
  <2>3. q[1].id = "kSYS_USER_CONNECT" /\ q[i + 1].id = "kSYS_USER_DISCONNECT"
    BY <1>2, <1>4, <2>2
  <2> QED BY <2>2, <2>3
<1>10. ASSUME NEW x \in Sessions, p = Disconnected(x) PROVE ~Queued(Connected(x))'
  <2>1. SUFFICES ASSUME NEW i \in 1 .. n - 1, Tail(q)[i] = Connected(x) PROVE FALSE
    BY <1>6 DEF Connected
  <2>2. q[i + 1] = Connected(x) /\ i + 1 \in 1 .. n /\ 1 < i + 1
    BY <1>2, <2>1
  <2>3. q[1].session_index = q[i + 1].session_index
    BY <1>1, <1>10, <2>2, QueuedPacket
  <2>4. q[1].id = "kSYS_USER_CONNECT"
    BY <1>2, <1>4, <2>2, <2>3
  <2> QED BY <1>1, <1>10, <2>4 DEF Disconnected
<1>11. ASSUME NEW x \in Sessions
       PROVE  /\ ConnectQueued(x) <=> ConnectQueued(x)' \/ p = Connected(x)
              /\ DisconnectQueued(x) <=> DisconnectQueued(x)' \/ p = Disconnected(x)
              /\ p = Connected(x) => ~ConnectQueued(x)'
              /\ p = Disconnected(x) => ~DisconnectQueued(x)' /\ ~ConnectQueued(x)
  <2>1. Connected(x) # Disconnected(x)
    BY QueuedPacket
  <2>2. Connected(x)' = Connected(x) /\ Disconnected(x)' = Disconnected(x)
    BY DEF Connected, Disconnected
  <2>3. /\ ConnectQueued(x) <=> Queued(Connected(x))
        /\ ConnectQueued(x)' <=> Queued(Connected(x))'
        /\ DisconnectQueued(x) <=> Queued(Disconnected(x))
        /\ DisconnectQueued(x)' <=> Queued(Disconnected(x))'
    BY DEF ConnectQueued, DisconnectQueued
  <2>4. /\ Queued(Connected(x)) <=> Queued(Connected(x))' \/ p = Connected(x)
        /\ Queued(Disconnected(x)) <=> Queued(Disconnected(x))' \/ p = Disconnected(x)
    <3>1. ASSUME NEW v, v = Connected(x) \/ v = Disconnected(x)
          PROVE  Queued(v) <=> Queued(v)' \/ p = v
      BY <1>8
    <3> QED BY <3>1 DEF Connected, Disconnected
  <2> QED BY <1>9, <1>10, <2>1, <2>3, <2>4
<1> QED BY <1>1, <1>7, <1>11

-----------------------------------------------------------------------------
(* The slots. *)

\* Steps in which no request comes and none is answered.
Internal ==
  \/ \E s \in Sessions : PushUserIndex(s)
  \/ NoUserIndex
  \/ DequeuePacket
  \/ NoHandler
  \/ CompleteProcess
  \/ RedisLoginHandler
  \/ UNCHANGED vars

LEMMA InternalStep ==
  ASSUME TypeOK, TypeOK', PacketInHand, Internal
  PROVE  /\ UNCHANGED <<conn, system_packet_queue_, client, users>>
         /\ \A x \in Sessions :
              LoginsInFlight(x)' = LoginsInFlight(x) /\ Owed(x)' = Owed(x)
<1>1. UNCHANGED <<conn, system_packet_queue_, client, users>>
  BY DEF Internal, PushUserIndex, Calls!RecvEnds, NoUserIndex, DequeuePacket, NoHandler,
         CompleteProcess, RedisLoginHandler, vars, network, queues
<1>2. SUFFICES ASSUME NEW x \in Sessions
               PROVE  LoginsInFlight(x)' = LoginsInFlight(x) /\ Owed(x)' = Owed(x)
  BY <1>1
<1>3. LoginsInFlight(x)' = LoginsInFlight(x)
  <2>1. RedisLoginHandler \/ UNCHANGED <<task_req_queue_, task_res_queue_>>
    BY DEF Internal, PushUserIndex, NoUserIndex, DequeuePacket, NoHandler,
           CompleteProcess, vars, queues
  <2> QED BY <2>1, LoginsStep
<1>4. CASE CompleteProcess /\ current = x
  <2>1. /\ Completing(x) /\ ~Completing(x)'
        /\ packet_buf_[x] # <<>>
        /\ packet_buf_' = [packet_buf_ EXCEPT ![x] = Tail(@)]
    BY <1>4 DEF CompleteProcess, Completing, PacketInHand
  <2>2. Len(packet_buf_'[x]) = Len(packet_buf_[x]) - 1 /\ Len(packet_buf_[x]) \in Nat
    <3>1. packet_buf_[x] \in Seq(Requests)
      BY DEF TypeOK
    <3>2. packet_buf_'[x] = Tail(packet_buf_[x])
      BY <2>1 DEF TypeOK
    <3> QED BY <2>1, <3>1, <3>2, HeadTailProperties, LenProperties
  <2>3. LoginsInFlight(x) \in Nat
    BY LoginsCounted
  <2>4. Owed(x) = Len(packet_buf_[x]) + LoginsInFlight(x) - 1
    BY <2>1 DEF Owed
  <2>5. Owed(x)' = Len(packet_buf_'[x]) + LoginsInFlight(x)' - 0
    BY <2>1 DEF Owed
  <2> QED BY <1>3, <2>2, <2>3, <2>4, <2>5
<1>5. CASE ~(CompleteProcess /\ current = x)
  <2>1. packet_buf_'[x] = packet_buf_[x]
    <3>1. CASE CompleteProcess
      BY <1>5, <3>1 DEF CompleteProcess, TypeOK
    <3>2. CASE ~CompleteProcess
      BY <3>2 DEF Internal, PushUserIndex, NoUserIndex, DequeuePacket, NoHandler,
                  RedisLoginHandler, vars
    <3> QED BY <3>1, <3>2
  <2>2. Completing(x)' <=> Completing(x)
    <3>1. CASE CompleteProcess
      BY <1>5, <3>1 DEF CompleteProcess, Completing
    <3>2. CASE ~CompleteProcess
      BY <3>2 DEF Internal, PushUserIndex, NoUserIndex, DequeuePacket, NoHandler,
                  RedisLoginHandler, vars, thread, Completing
    <3> QED BY <3>1, <3>2
  <2> QED BY <1>3, <2>1, <2>2 DEF Owed
<1> QED BY <1>4, <1>5

\* Steps that leave the queue of system packets and what was reported alone.
LEMMA SlotsSame ==
  ASSUME SlotsInv, UNCHANGED <<conn, system_packet_queue_, live>>
  PROVE  QueueInOrder' /\ \A x \in Sessions : SlotInOrder(x)'
BY DEF SlotsInv, QueueInOrder, SlotInOrder, ConnectQueued, DisconnectQueued, Queued,
       Connected, Disconnected

LEMMA InternalSlots ==
  ASSUME TypeOK, TypeOK', PacketInHand, SlotsInv, Internal
  PROVE  SlotsInv'
<1>1. /\ UNCHANGED <<conn, system_packet_queue_, awaiting, live>>
      /\ \A x \in Sessions : Owed(x)' = Owed(x)
  BY InternalStep DEF client, users
<1>2. QueueInOrder' /\ \A x \in Sessions : SlotInOrder(x)'
  BY <1>1, SlotsSame
<1>3. \A x \in Sessions : OneRequest(x)'
  BY <1>1 DEF SlotsInv, OneRequest
<1> QED BY <1>2, <1>3 DEF SlotsInv

\* A connection is reported only when its slot's last one is done with, and
\* its end only once, while no request is unanswered.
LEMMA ReportsSlots ==
  ASSUME Liberties \subseteq {"unknown"}, TypeOK, TypeOK', SlotsInv,
         NEW s \in Sessions, OnConnect(s) \/ OnDisconnect(s)
  PROVE  /\ SlotsInv'
         /\ s \notin live \/ conn'[s] # "open"
         /\ UNCHANGED awaiting
<1>1. UNCHANGED <<packet_buf_, task_req_queue_, task_res_queue_, pc, current, live>>
  BY DEF OnConnect, OnDisconnect, thread, users
<1>2. \A x \in Sessions : Owed(x)' = Owed(x)
  <2>1. \A x \in Sessions : LoginsInFlight(x)' = LoginsInFlight(x)
    BY <1>1, LoginsStep
  <2> QED BY <1>1, <2>1 DEF Owed, Completing
<1>3. QueueInOrder /\ \A x \in Sessions : SlotInOrder(x) /\ OneRequest(x)
  BY DEF SlotsInv
<1>4. CASE OnConnect(s)
  <2>1. /\ conn[s] # "open" /\ ~SystemPacketQueued(s)
        /\ conn' = [conn EXCEPT ![s] = "open"]
        /\ awaiting' = [awaiting EXCEPT ![s] = 0]
        /\ system_packet_queue_' = Append(system_packet_queue_, Connected(s))
    BY <1>4 DEF OnConnect, Calls!Connect, Quiet, Connected
  <2>2. ~ConnectQueued(s) /\ ~DisconnectQueued(s) /\ s \notin live
    BY <1>3, <2>1, QueuedPacket DEF SlotInOrder
  <2>3. /\ QueueInOrder'
        /\ \A x \in Sessions :
             /\ ConnectQueued(x)' <=> ConnectQueued(x) \/ Connected(s) = Connected(x)
             /\ DisconnectQueued(x)' <=> DisconnectQueued(x) \/ Connected(s) = Disconnected(x)
    BY <1>3, <2>1, QueuedPacket, QueueGrows
  <2>4. \A x \in Sessions : /\ ConnectQueued(x)' <=> ConnectQueued(x) \/ x = s
                            /\ DisconnectQueued(x)' <=> DisconnectQueued(x)
    <3>1. \A x \in Sessions : /\ Connected(s) # Disconnected(x)
                              /\ Connected(s) = Connected(x) <=> x = s
      BY DEF Connected, Disconnected
    <3> QED BY <2>3, <3>1
  <2>5. awaiting' = awaiting
    <3>1. awaiting[s] = 0
      BY <1>3, <2>1 DEF OneRequest
    <3> QED BY <2>1, <3>1 DEF TypeOK
  <2>6. conn'[s] = "open" /\ \A x \in Sessions \ {s} : conn'[x] = conn[x]
    BY <2>1 DEF TypeOK
  <2>7. \A x \in Sessions : SlotInOrder(x)'
    BY <1>1, <1>3, <2>2, <2>4, <2>6 DEF SlotInOrder
  <2>8. \A x \in Sessions : OneRequest(x)'
    BY <1>1, <1>2, <1>3, <2>1, <2>5, <2>6 DEF OneRequest
  <2> QED BY <2>2, <2>3, <2>5, <2>7, <2>8 DEF SlotsInv
<1>5. CASE OnDisconnect(s)
  <2>1. /\ conn[s] = "open" /\ awaiting[s] = 0
        /\ conn' = [conn EXCEPT ![s] = "closed"]
        /\ awaiting' = [awaiting EXCEPT ![s] = 0]
        /\ system_packet_queue_' = Append(system_packet_queue_, Disconnected(s))
    BY <1>5 DEF OnDisconnect, Calls!Disconnect, Disconnected
  <2>2. ~DisconnectQueued(s) /\ (s \in live \/ ConnectQueued(s))
    BY <1>3, <2>1 DEF SlotInOrder
  <2>3. /\ QueueInOrder'
        /\ \A x \in Sessions :
             /\ ConnectQueued(x)' <=> ConnectQueued(x) \/ Disconnected(s) = Connected(x)
             /\ DisconnectQueued(x)' <=> DisconnectQueued(x) \/ Disconnected(s) = Disconnected(x)
    BY <1>3, <2>1, <2>2, QueuedPacket, QueueGrows
  <2>4. \A x \in Sessions : /\ ConnectQueued(x)' <=> ConnectQueued(x)
                            /\ DisconnectQueued(x)' <=> DisconnectQueued(x) \/ x = s
    <3>1. \A x \in Sessions : /\ Disconnected(s) # Connected(x)
                              /\ Disconnected(s) = Disconnected(x) <=> x = s
      BY DEF Connected, Disconnected
    <3> QED BY <2>3, <3>1
  <2>5. awaiting' = awaiting
    BY <2>1 DEF TypeOK
  <2>6. conn'[s] = "closed" /\ \A x \in Sessions \ {s} : conn'[x] = conn[x]
    BY <2>1 DEF TypeOK
  <2>7. \A x \in Sessions : SlotInOrder(x)'
    BY <1>1, <1>3, <2>2, <2>4, <2>6 DEF SlotInOrder
  <2>8. \A x \in Sessions : OneRequest(x)'
    BY <1>1, <1>2, <1>3, <2>1, <2>5, <2>6 DEF OneRequest
  <2> QED BY <2>3, <2>5, <2>6, <2>7, <2>8 DEF SlotsInv
<1> QED BY <1>4, <1>5

\* A request comes on a connection that is set up and owed nothing.
LEMMA RequestSlots ==
  ASSUME Liberties \subseteq {"unknown"}, TypeOK, TypeOK', SlotsInv,
         NEW s \in Sessions, EnqueuePacketData(s)
  PROVE  /\ SlotsInv'
         /\ s \in live /\ Owed(s) = 0
         /\ UNCHANGED <<conn, roster, system_packet_queue_, task_req_queue_,
                        task_res_queue_, thread, users>>
         /\ \A x \in Sessions \ {s} : packet_buf_'[x] = packet_buf_[x]
         /\ \E packet \in Requests :
              /\ MaySend(s, packet)
              /\ DOMAIN packet_buf_'[s] = 1 .. Len(packet_buf_[s]) + 1
              /\ \A i \in 1 .. Len(packet_buf_[s]) :
                   packet_buf_'[s][i] = packet_buf_[s][i]
              /\ packet_buf_'[s][Len(packet_buf_[s]) + 1] = packet
<1>1. /\ conn[s] = "open" /\ ~SystemPacketQueued(s) /\ awaiting[s] = 0
      /\ UNCHANGED <<conn, roster, system_packet_queue_, task_req_queue_,
                     task_res_queue_, thread, users>>
  BY DEF EnqueuePacketData, Calls!RecvBegins, queues
<1>2. PICK packets \in [1 .. 1 -> Requests] :
        /\ MaySend(s, packets[1])
        /\ packet_buf_' = [packet_buf_ EXCEPT ![s] = @ \o packets]
        /\ awaiting' = [awaiting EXCEPT ![s] = @ + 1]
  <2>1. PICK n \in 1 .. 1 :
          /\ \E packets \in [1 .. n -> Requests] :
               /\ \A i \in 1 .. n : MaySend(s, packets[i])
               /\ packet_buf_' = [packet_buf_ EXCEPT ![s] = @ \o packets]
          /\ awaiting' = IF conn[s] = "open" THEN [awaiting EXCEPT ![s] = @ + n]
                                             ELSE awaiting
    BY DEF EnqueuePacketData, Calls!RecvBegins
  <2>2. n = 1
    BY <2>1
  <2> QED BY <1>1, <2>1, <2>2
<1>3. QueueInOrder /\ \A x \in Sessions : SlotInOrder(x) /\ OneRequest(x)
  BY DEF SlotsInv
<1>4. s \in live
  BY <1>1, <1>3, QueuedPacket DEF SlotInOrder
<1>5. packet_buf_[s] \in Seq(Requests) /\ packets \in Seq(Requests) /\ Len(packets) = 1
  <2>1. packets \in Seq(Requests)
    <3>1. 1 \in Nat /\ packets \in [1 .. 1 -> Requests]
      BY <1>2
    <3>2. Seq(Requests) = UNION {[1 .. n -> Requests] : n \in Nat}
      BY SeqDef
    <3> QED BY <3>1, <3>2
  <2>2. DOMAIN packets = 1 .. Len(packets) /\ Len(packets) \in Nat
    BY <2>1, LenProperties
  <2>3. \A l \in Nat : 1 .. l = 1 .. 1 => l = 1
    OBVIOUS
  <2>4. DOMAIN packets = 1 .. 1
    OBVIOUS
  <2> QED BY <2>1, <2>2, <2>3, <2>4 DEF TypeOK
<1>6. packet_buf_'[s] = packet_buf_[s] \o packets
  BY <1>2 DEF TypeOK
<1> DEFINE n == Len(packet_buf_[s])
<1>7. /\ n \in Nat
      /\ Len(packet_buf_[s] \o packets) = n + 1
      /\ packet_buf_[s] \o packets \in Seq(Requests)
      /\ \A i \in 1 .. n + 1 :
           (packet_buf_[s] \o packets)[i] =
             IF i <= n THEN packet_buf_[s][i] ELSE packets[i - n]
  <2>1. n \in Nat
    BY <1>5, LenProperties
  <2>2. /\ packet_buf_[s] \o packets \in Seq(Requests)
        /\ Len(packet_buf_[s] \o packets) = n + Len(packets)
        /\ \A i \in 1 .. n + Len(packets) :
             (packet_buf_[s] \o packets)[i] =
               IF i <= n THEN packet_buf_[s][i] ELSE packets[i - n]
    BY <1>5, ConcatProperties
  <2> QED BY <1>5, <2>1, <2>2
<1>8. /\ DOMAIN packet_buf_'[s] = 1 .. n + 1
      /\ Len(packet_buf_'[s]) = n + 1
      /\ \A i \in 1 .. n : packet_buf_'[s][i] = packet_buf_[s][i]
      /\ packet_buf_'[s][n + 1] = packets[1]
  <2>1. DOMAIN (packet_buf_[s] \o packets) = 1 .. n + 1
    BY <1>7, LenProperties
  <2> QED BY <1>6, <1>7, <2>1
<1>9. \A x \in Sessions \ {s} : packet_buf_'[x] = packet_buf_[x]
  BY <1>2 DEF TypeOK
<1>10. \A x \in Sessions : /\ LoginsInFlight(x)' = LoginsInFlight(x)
                           /\ Completing(x)' <=> Completing(x)
  BY <1>1, LoginsStep DEF Completing, thread
<1>11. \A x \in Sessions \ {s} : OneRequest(x)'
  <2>1. \A x \in Sessions \ {s} : awaiting'[x] = awaiting[x] /\ Owed(x)' = Owed(x)
    BY <1>2, <1>9, <1>10 DEF TypeOK, Owed
  <2> QED BY <1>1, <1>3, <2>1 DEF OneRequest, users
<1>12. Owed(s) = 0
  BY <1>1, <1>3 DEF OneRequest
<1>13. OneRequest(s)'
  <2>1. awaiting'[s] = 1
    BY <1>1, <1>2 DEF TypeOK
  <2> DEFINE done == IF Completing(s) THEN 1 ELSE 0
  <2>2. LoginsInFlight(s) \in Nat /\ done \in Nat /\ done' = done
    BY <1>10, LoginsCounted
  <2>3. Owed(s) = n + LoginsInFlight(s) - done
    BY DEF Owed
  <2>4. Owed(s)' = Len(packet_buf_'[s]) + LoginsInFlight(s)' - done'
    BY DEF Owed
  <2> HIDE DEF done
  <2>5. Owed(s)' = 1
    BY <1>7, <1>8, <1>10, <1>12, <2>2, <2>3, <2>4
  <2> QED BY <1>1, <1>4, <2>1, <2>5 DEF OneRequest, users
<1>14. QueueInOrder' /\ \A x \in Sessions : SlotInOrder(x)'
  BY <1>1, SlotsSame DEF users
<1>15. SlotsInv'
  BY <1>11, <1>13, <1>14 DEF SlotsInv
<1> QED BY <1>1, <1>2, <1>4, <1>8, <1>9, <1>12, <1>15

\* The one request of a client is handled while nothing else of it is queued.
LEMMA HandlerSlots ==
  ASSUME TypeOK, TypeOK', PacketInHand, SlotsInv, HandleUserPacket
  PROVE  /\ SlotsInv'
         /\ current \in live /\ conn[current] = "open"
         /\ LoginsInFlight(current) = 0 /\ Len(packet_buf_[current]) = 1
<1>1. /\ pc = "handle" /\ pc' = "complete"
      /\ current \in Sessions /\ packet_buf_[current] # <<>>
      /\ UNCHANGED <<conn, receiving, packet_buf_, incoming_packet_user_index_queue_,
                     system_packet_queue_, task_res_queue_, current, live>>
      /\ \/ Reply(current) /\ UNCHANGED task_req_queue_
         \/ task_req_queue_' = Append(task_req_queue_, current) /\ UNCHANGED awaiting
  BY HandlerAnswers
<1>2. QueueInOrder /\ \A x \in Sessions : SlotInOrder(x) /\ OneRequest(x)
  BY DEF SlotsInv
<1> DEFINE n == Len(packet_buf_[current])
           l == LoginsInFlight(current)
<1>3. n \in Nat /\ n # 0 /\ l \in Nat
  <2>1. packet_buf_[current] \in Seq(Requests)
    BY <1>1 DEF TypeOK
  <2> QED BY <1>1, <2>1, LenProperties, EmptySeq, LoginsCounted
<1>4. Owed(current) = n + l
  <2>1. ~Completing(current)
    BY <1>1 DEF Completing
  <2>2. Owed(current) = n + l - 0
    BY <2>1 DEF Owed
  <2> HIDE DEF n, l
  <2> QED BY <1>3, <2>2
<1>5. awaiting[current] = 1 /\ n = 1 /\ l = 0
  <2>1. n + l \in {0, 1}
    BY <1>1, <1>2, <1>4 DEF OneRequest
  <2> HIDE DEF n, l
  <2>2. n = 1 /\ l = 0
    BY <1>3, <2>1
  <2> QED BY <1>1, <1>2, <1>4, <2>2 DEF OneRequest
<1>6. current \in live /\ conn[current] = "open"
  BY <1>1, <1>2, <1>5 DEF OneRequest
<1>7. \A x \in Sessions \ {current} : OneRequest(x)'
  <2>1. SUFFICES ASSUME NEW x \in Sessions, x # current PROVE OneRequest(x)'
    OBVIOUS
  <2>2. awaiting'[x] = awaiting[x]
    BY <1>1, <2>1, ReplyCounts
  <2>3. LoginsInFlight(x)' = LoginsInFlight(x)
    <3>1. LoginsInFlight(x) \in Nat
      BY LoginsCounted
    <3>2. CASE UNCHANGED task_req_queue_
      BY <1>1, <3>2, LoginsStep
    <3>3. CASE task_req_queue_' = Append(task_req_queue_, current)
      <4>1. LoginsInFlight(x)' = LoginsInFlight(x) + (IF current = x THEN 1 ELSE 0)
        BY <1>1, <3>3, LoginsStep
      <4> QED BY <2>1, <3>1, <4>1
    <3> QED BY <1>1, <3>2, <3>3
  <2>4. Owed(x)' = Owed(x)
    BY <1>1, <2>1, <2>3 DEF Owed, Completing
  <2> QED BY <1>1, <1>2, <2>2, <2>4 DEF OneRequest
<1>8. OneRequest(current)'
  <2>1. Completing(current)' /\ packet_buf_'[current'] = packet_buf_[current] /\ current' = current
    BY <1>1 DEF Completing
  <2>2. Owed(current)' = n + LoginsInFlight(current)' - 1
    BY <2>1 DEF Owed
  <2>3. ASSUME NEW x \in Sessions, x = current
        PROVE  \/ awaiting'[x] = 0 /\ LoginsInFlight(x)' = 0
               \/ awaiting'[x] = 1 /\ LoginsInFlight(x)' = 1
    <3>1. CASE Reply(current) /\ UNCHANGED task_req_queue_
      <4>1. awaiting'[x] = awaiting[x] - 1
        BY <1>1, <1>6, <2>3, <3>1, ReplyCounts
      <4>2. LoginsInFlight(x)' = LoginsInFlight(x)
        BY <1>1, <3>1, LoginsStep
      <4> QED BY <1>5, <2>3, <4>1, <4>2
    <3>2. CASE task_req_queue_' = Append(task_req_queue_, current) /\ UNCHANGED awaiting
      <4>1. LoginsInFlight(x)' = LoginsInFlight(x) + 1
        BY <1>1, <2>3, <3>2, LoginsStep
      <4> QED BY <1>5, <2>3, <3>2, <4>1
    <3> QED BY <1>1, <3>1, <3>2
  <2>4. \/ awaiting'[current] = 0 /\ LoginsInFlight(current)' = 0
        \/ awaiting'[current] = 1 /\ LoginsInFlight(current)' = 1
    BY <1>1, <2>1, <2>3 DEF LoginsInFlight
  <2> QED BY <1>1, <1>5, <1>6, <2>1, <2>2, <2>4 DEF OneRequest
<1>9. QueueInOrder' /\ \A x \in Sessions : SlotInOrder(x)'
  BY <1>1, SlotsSame
<1>10. SlotsInv'
  BY <1>1, <1>7, <1>8, <1>9 DEF SlotsInv
<1> QED BY <1>5, <1>6, <1>10

\* Nothing is under way for a session that is owed nothing, but perhaps the
\* packet the thread is about to complete.
LEMMA OwedNothing ==
  ASSUME TypeOK, NEW s \in Sessions, Owed(s) = 0
  PROVE  /\ Len(packet_buf_[s]) \in Nat /\ LoginsInFlight(s) \in Nat
         /\ ~Completing(s) => LoginsInFlight(s) = 0 /\ packet_buf_[s] = <<>>
         /\ Completing(s) => Len(packet_buf_[s]) \in {0, 1}
<1>1. packet_buf_[s] \in Seq(Requests)
  BY DEF TypeOK
<1>2. /\ Len(packet_buf_[s]) \in Nat /\ LoginsInFlight(s) \in Nat
      /\ Len(packet_buf_[s]) = 0 => packet_buf_[s] = <<>>
  BY <1>1, LenProperties, EmptySeq, LoginsCounted
<1>3. CASE Completing(s)
  <2>1. Len(packet_buf_[s]) + LoginsInFlight(s) - 1 = 0
    BY <1>3 DEF Owed
  <2>2. \A l, n \in Nat : n + l - 1 = 0 => n \in {0, 1}
    OBVIOUS
  <2> QED BY <1>2, <1>3, <2>1, <2>2
<1>4. CASE ~Completing(s)
  <2>1. Len(packet_buf_[s]) + LoginsInFlight(s) - 0 = 0
    BY <1>4 DEF Owed
  <2>2. \A l, n \in Nat : n + l - 0 = 0 => n = 0 /\ l = 0
    OBVIOUS
  <2> QED BY <1>2, <1>4, <2>1, <2>2
<1> QED BY <1>3, <1>4

SystemServed ==
  \/ UNCHANGED <<client, packet_buf_, users>>
  \/ \E s \in Sessions :
       /\ ConnectHandler(s)
       /\ s \notin live /\ packet_buf_[s] = <<>> /\ LoginsInFlight(s) = 0
  \/ \E s \in Sessions :
       /\ DisconnectHandler(s)
       /\ s \in live /\ packet_buf_[s] = <<>> /\ LoginsInFlight(s) = 0
       /\ conn[s] # "open"

\* CONNECT is served to a session that is not set up, DISCONNECT to one that
\* is and that nothing is under way for.
LEMMA SystemSlots ==
  ASSUME TypeOK, TypeOK', SlotsInv, ServeSystemPacket
  PROVE  /\ SlotsInv'
         /\ UNCHANGED <<conn, awaiting>>
         /\ \A x \in Sessions : LoginsInFlight(x)' = LoginsInFlight(x)
         /\ \A x \in Sessions : ~Completing(x) /\ ~Completing(x)'
         /\ SystemServed
<1>1. /\ pc = "system" /\ pc' = "redis"
      /\ UNCHANGED <<conn, task_req_queue_, task_res_queue_, current>>
  BY DEF ServeSystemPacket, network
<1>2. \A x \in Sessions : LoginsInFlight(x)' = LoginsInFlight(x)
  BY <1>1, LoginsStep
<1>3. \A x \in Sessions : ~Completing(x) /\ ~Completing(x)'
  BY <1>1 DEF Completing
<1>4. QueueInOrder /\ \A x \in Sessions : SlotInOrder(x) /\ OneRequest(x)
  BY DEF SlotsInv
<1>5. CASE system_packet_queue_ = <<>>
  <2>1. UNCHANGED <<system_packet_queue_, client, packet_buf_, users>>
    BY <1>5 DEF ServeSystemPacket
  <2>2. \A x \in Sessions : Owed(x)' = Owed(x)
    BY <1>2, <1>3, <2>1 DEF Owed
  <2>3. \A x \in Sessions : OneRequest(x)'
    BY <1>1, <1>4, <2>1, <2>2 DEF OneRequest, client, users
  <2>4. QueueInOrder' /\ \A x \in Sessions : SlotInOrder(x)'
    BY <1>1, <2>1, SlotsSame DEF users
  <2> QED BY <1>1, <1>2, <1>3, <2>1, <2>3, <2>4 DEF SlotsInv, SystemServed, client
<1>6. CASE system_packet_queue_ # <<>>
  <2> DEFINE p == Head(system_packet_queue_)
             s == p.session_index
  <2>1. /\ system_packet_queue_' = Tail(system_packet_queue_)
        /\ p.id = "kSYS_USER_CONNECT" => ConnectHandler(s)
        /\ p.id # "kSYS_USER_CONNECT" => DisconnectHandler(s)
    BY <1>6 DEF ServeSystemPacket
  <2>2. /\ p \in SystemPackets
        /\ QueueInOrder'
        /\ \A x \in Sessions :
             /\ ConnectQueued(x) <=> ConnectQueued(x)' \/ p = Connected(x)
             /\ DisconnectQueued(x) <=> DisconnectQueued(x)' \/ p = Disconnected(x)
             /\ p = Connected(x) => ~ConnectQueued(x)'
             /\ p = Disconnected(x) => ~DisconnectQueued(x)' /\ ~ConnectQueued(x)
    BY <1>4, <1>6, <2>1, QueueShrinks
  <2>3. s \in Sessions /\ p.id \in {"kSYS_USER_CONNECT", "kSYS_USER_DISCONNECT"}
    BY <2>2, SystemPacketForms
  <2>4. \A x \in Sessions :
          /\ p = Connected(x) <=> x = s /\ p.id = "kSYS_USER_CONNECT"
          /\ p = Disconnected(x) <=> x = s /\ p.id = "kSYS_USER_DISCONNECT"
    BY <2>2, SystemPacketForms DEF Connected, Disconnected
  <2> HIDE DEF s
  <2>5. UNCHANGED awaiting
    BY <2>1 DEF ConnectHandler, DisconnectHandler, client
  <2>6. CASE p.id = "kSYS_USER_CONNECT"
    <3>1. ConnectHandler(s) /\ p = Connected(s)
      BY <2>1, <2>3, <2>4, <2>6
    <3>2. s \notin live
      BY <1>4, <2>2, <2>3, <3>1 DEF SlotInOrder
    <3>3. Owed(s) = 0
      BY <1>4, <2>3, <3>2 DEF OneRequest
    <3>4. packet_buf_[s] = <<>> /\ LoginsInFlight(s) = 0
      BY <1>3, <2>3, <3>3, OwedNothing
    <3>5. packet_buf_' = packet_buf_ /\ live' = live \cup {s}
      BY <2>3, <3>1, <3>4 DEF ConnectHandler, TypeOK
    <3>6. \A x \in Sessions : Owed(x)' = Owed(x)
      BY <1>2, <1>3, <3>5 DEF Owed
    <3>7. \A x \in Sessions : OneRequest(x)'
      BY <1>1, <1>4, <2>5, <3>5, <3>6 DEF OneRequest
    <3>8. \A x \in Sessions : /\ ConnectQueued(x)' <=> ConnectQueued(x) /\ x # s
                              /\ DisconnectQueued(x)' <=> DisconnectQueued(x)
      BY <2>2, <2>4, <2>6
    <3>9. \A x \in Sessions : SlotInOrder(x)'
      BY <1>1, <1>4, <2>2, <2>3, <3>1, <3>5, <3>8 DEF SlotInOrder
    <3>10. SystemServed
      BY <2>3, <3>1, <3>2, <3>4 DEF SystemServed
    <3> QED BY <1>1, <1>2, <1>3, <2>2, <2>5, <3>7, <3>9, <3>10 DEF SlotsInv
  <2>7. CASE p.id = "kSYS_USER_DISCONNECT"
    <3>1. DisconnectHandler(s) /\ p = Disconnected(s)
      BY <2>1, <2>3, <2>4, <2>7
    <3>2. DisconnectQueued(s) /\ ~ConnectQueued(s)
      BY <2>2, <2>3, <3>1
    <3>3. conn[s] = "closed" /\ s \in live
      BY <1>4, <2>3, <3>2 DEF SlotInOrder
    <3>4. Owed(s) = 0
      BY <1>4, <2>3, <3>3 DEF OneRequest
    <3>5. packet_buf_[s] = <<>> /\ LoginsInFlight(s) = 0
      BY <1>3, <2>3, <3>4, OwedNothing
    <3>6. packet_buf_' = packet_buf_ /\ live' = live \ {s}
      BY <3>1 DEF DisconnectHandler
    <3>7. \A x \in Sessions : Owed(x)' = Owed(x)
      BY <1>2, <1>3, <3>6 DEF Owed
    <3>8. \A x \in Sessions : OneRequest(x)'
      BY <1>1, <1>4, <2>5, <3>3, <3>6, <3>7 DEF OneRequest
    <3>9. \A x \in Sessions : /\ ConnectQueued(x)' <=> ConnectQueued(x)
                              /\ DisconnectQueued(x)' <=> DisconnectQueued(x) /\ x # s
      BY <2>2, <2>4, <2>7
    <3>10. \A x \in Sessions : SlotInOrder(x)'
      BY <1>1, <1>4, <3>2, <3>3, <3>6, <3>9 DEF SlotInOrder
    <3>11. SystemServed
      BY <2>3, <3>1, <3>3, <3>5 DEF SystemServed
    <3> QED BY <1>1, <1>2, <1>3, <2>2, <2>5, <3>8, <3>10, <3>11 DEF SlotsInv
  <2> QED BY <2>3, <2>6, <2>7
<1> QED BY <1>5, <1>6

AnswerServed ==
  \/ /\ UNCHANGED <<client, users>>
     /\ \A x \in Sessions : LoginsInFlight(x)' = LoginsInFlight(x)
  \/ \E s \in Sessions, ok \in BOOLEAN :
       /\ LoginDBResHandler(s, ok)
       /\ s \in live /\ conn[s] = "open"
       /\ LoginsInFlight(s) = 1 /\ LoginsInFlight(s)' = 0
       /\ packet_buf_[s] = <<>>
       /\ \A x \in Sessions \ {s} : LoginsInFlight(x)' = LoginsInFlight(x)

\* Redis's answer finds the session that asked still connected, and waiting
\* for nothing else.
LEMMA AnswerSlots ==
  ASSUME TypeOK, TypeOK', SlotsInv, ServeRedisAnswer
  PROVE  /\ SlotsInv'
         /\ UNCHANGED <<conn, packet_buf_>>
         /\ \A x \in Sessions : ~Completing(x) /\ ~Completing(x)'
         /\ AnswerServed
<1>1. /\ pc = "redis" /\ pc' = "user"
      /\ UNCHANGED <<conn, packet_buf_, system_packet_queue_, task_req_queue_, current, live>>
  BY DEF ServeRedisAnswer, network, LoginDBResHandler, users
<1>2. \A x \in Sessions : ~Completing(x) /\ ~Completing(x)'
  BY <1>1 DEF Completing
<1>3. QueueInOrder /\ \A x \in Sessions : SlotInOrder(x) /\ OneRequest(x)
  BY DEF SlotsInv
<1>4. QueueInOrder' /\ \A x \in Sessions : SlotInOrder(x)'
  BY <1>1, SlotsSame
<1>5. CASE task_res_queue_ = <<>>
  <2>1. UNCHANGED <<task_res_queue_, client, users>>
    BY <1>5 DEF ServeRedisAnswer
  <2>2. \A x \in Sessions : LoginsInFlight(x)' = LoginsInFlight(x)
    BY <1>1, <2>1, LoginsStep
  <2>3. \A x \in Sessions : Owed(x)' = Owed(x)
    BY <1>1, <1>2, <2>2 DEF Owed
  <2>4. \A x \in Sessions : OneRequest(x)'
    BY <1>1, <1>3, <2>1, <2>3 DEF OneRequest, client
  <2> QED BY <1>1, <1>2, <1>4, <2>1, <2>2, <2>4 DEF SlotsInv, AnswerServed
<1>6. CASE task_res_queue_ # <<>>
  <2>1. PICK s \in Sessions, ok \in BOOLEAN :
          /\ s = Head(task_res_queue_).user_idx
          /\ LoginDBResHandler(s, ok)
          /\ task_res_queue_' = Tail(task_res_queue_)
    <3>1. Head(task_res_queue_) \in Answers
      BY <1>6, HeadTailProperties DEF TypeOK
    <3> QED BY <1>6, <3>1 DEF ServeRedisAnswer, Answers
  <2>2. \A x \in Sessions : LoginsInFlight(x) = LoginsInFlight(x)' + (IF s = x THEN 1 ELSE 0)
    BY <1>1, <1>6, <2>1, LoginsStep
  <2>3. \A x \in Sessions : LoginsInFlight(x) \in Nat /\ LoginsInFlight(x)' \in Nat
    BY LoginsStep
  <2>4. \A x \in Sessions \ {s} : LoginsInFlight(x)' = LoginsInFlight(x)
    BY <2>2, <2>3
  <2>5. LoginsInFlight(s) = LoginsInFlight(s)' + 1
    BY <2>2
  <2> DEFINE n == Len(packet_buf_[s])
             l == LoginsInFlight(s)
  <2>6. n \in Nat /\ (n = 0 => packet_buf_[s] = <<>>)
    <3>1. packet_buf_[s] \in Seq(Requests)
      BY DEF TypeOK
    <3> QED BY <3>1, LenProperties, EmptySeq
  <2>7. l = 1 /\ n = 0 /\ awaiting[s] = 1
    <3>1. awaiting[s] = n + l - 0 /\ awaiting[s] \in {0, 1}
      BY <1>2, <1>3 DEF OneRequest, Owed
    <3>2. l \in Nat /\ l # 0
      BY <2>3, <2>5
    <3>3. \A a \in {0, 1}, j, k \in Nat : a = j + k - 0 /\ k # 0 => k = 1 /\ j = 0 /\ a = 1
      OBVIOUS
    <3> HIDE DEF l, n
    <3> QED BY <2>6, <3>1, <3>2, <3>3
  <2>8. s \in live /\ conn[s] = "open" /\ packet_buf_[s] = <<>>
    BY <1>3, <2>6, <2>7 DEF OneRequest
  <2>9. LoginsInFlight(s)' = 0
    BY <2>3, <2>5, <2>7
  <2>10. AnswerServed
    BY <2>1, <2>4, <2>7, <2>8, <2>9 DEF AnswerServed
  <2>11. Reply(s)
    BY <2>1 DEF LoginDBResHandler
  <2>12. OneRequest(s)'
    <3>1. awaiting'[s] = 0
      BY <2>7, <2>8, <2>11, ReplyCounts
    <3>2. Owed(s)' = Len(packet_buf_[s]) + LoginsInFlight(s)' - 0
      BY <1>1, <1>2 DEF Owed
    <3>3. Owed(s)' = 0
      BY <2>7, <2>9, <3>2
    <3> QED BY <3>1, <3>3 DEF OneRequest
  <2>13. \A x \in Sessions \ {s} : OneRequest(x)'
    <3>1. \A x \in Sessions \ {s} : awaiting'[x] = awaiting[x]
      BY <2>11, ReplyCounts
    <3>2. \A x \in Sessions \ {s} : Owed(x)' = Owed(x)
      BY <1>1, <1>2, <2>4 DEF Owed
    <3> QED BY <1>1, <1>3, <3>1, <3>2 DEF OneRequest
  <2>14. SlotsInv'
    BY <1>4, <2>12, <2>13 DEF SlotsInv
  <2> QED BY <1>1, <1>2, <2>10, <2>14
<1> QED BY <1>5, <1>6

-----------------------------------------------------------------------------
(* Users, ids and rooms. *)

\* What a handler does to the users, beyond answering.
HandlerServed ==
  \/ UNCHANGED <<roster, domain_state_, user_id_, room_idx_, user_id_map_, user_list_,
                 task_req_queue_>>
  \/ \E u \in UserIds :
       /\ packet_buf_[current][1] = [id |-> "kLOGIN_REQUEST", body |-> u]
       /\ user_id_map_[u] = NoSession
       /\ user_id_' = [user_id_ EXCEPT ![current] = u]
       /\ task_req_queue_' = Append(task_req_queue_, current)
       /\ UNCHANGED <<roster, domain_state_, room_idx_, user_id_map_, user_list_>>
  \/ \E r \in Rooms :
       /\ domain_state_[current] = "kLOGIN" /\ HasSpace(r)
       /\ EnterUser(current, r)
       /\ UNCHANGED <<user_id_, user_id_map_, task_req_queue_>>
  \/ /\ domain_state_[current] = "kROOM"
     /\ LeaveUser(current)
     /\ domain_state_' = [domain_state_ EXCEPT ![current] = "kLOGIN"]
     /\ roster' = [NotifyLeaveUser(current, user_list_'[room_idx_[current]])
                     EXCEPT ![current] = Informed(current, {})]
     /\ UNCHANGED <<user_id_, room_idx_, user_id_map_, task_req_queue_>>

LEMMA HandlerServes ==
  ASSUME TypeOK, PacketInHand, HandleUserPacket
  PROVE  HandlerServed
<1>1. current \in Sessions /\ packet_buf_[current] # <<>>
  BY DEF HandleUserPacket, PacketInHand
<1>2. PICK packet \in Requests : packet = Head(packet_buf_[current])
  BY <1>1, HeadTailProperties DEF TypeOK
<1>3. packet = packet_buf_[current][1]
  BY <1>1, <1>2, HeadTailProperties DEF TypeOK
<1>4. HasHandler(packet)
  BY <1>2 DEF HandleUserPacket
<1>5. CASE packet.id = "kLOGIN_REQUEST"
  <2>1. packet.body \in UserIds /\ packet = [id |-> "kLOGIN_REQUEST", body |-> packet.body]
    BY <1>2, <1>5 DEF Requests
  <2>2. LoginHandler(current, packet.body)
    BY <1>2, <1>5 DEF HandleUserPacket
  <2> QED BY <1>3, <2>1, <2>2 DEF LoginHandler, AskRedis, NotLoggedIn, HandlerServed
<1>6. CASE packet.id = "kROOM_ENTER_REQUEST"
  <2>1. packet.body \in Rooms \cup {NoRoom}
    BY <1>2, <1>6 DEF Requests
  <2>2. EnterRoomHandler(current, packet.body)
    BY <1>2, <1>6 DEF HandleUserPacket
  <2> QED BY <2>1, <2>2 DEF EnterRoomHandler, HandlerServed
<1>7. CASE packet.id = "kROOM_LEAVE_REQUEST"
  <2>1. LeaveRoomHandler(current)
    BY <1>2, <1>7 DEF HandleUserPacket
  <2> QED BY <2>1 DEF LeaveRoomHandler, HandlerServed
<1>8. CASE packet.id = "kROOM_CHAT_REQUEST"
  <2>1. RoomChatHandler(current)
    BY <1>2, <1>8 DEF HandleUserPacket
  <2> QED BY <2>1 DEF RoomChatHandler, HandlerServed
<1> QED BY <1>2, <1>4, <1>5, <1>6, <1>7, <1>8 DEF Requests, HasHandler

LEMMA AskingLess ==
  ASSUME OneAsks, \A x \in Sessions, u \in UserIds : AsksFor(x, u)' => AsksFor(x, u)
  PROVE  OneAsks'
BY DEF OneAsks

\* Steps that change nothing of the users keep what is known of them.
LEMMA UsersSame ==
  ASSUME UsersInv, UNCHANGED users, UNCHANGED packet_buf_,
         \A x \in Sessions : LoginsInFlight(x)' = LoginsInFlight(x),
         \A x \in Sessions : Completing(x) => Completing(x)'
  PROVE  UsersInv'
<1>1. \A x \in Sessions : IdKnown(x)'
  BY DEF UsersInv, IdKnown, LoggedIn, users
<1>2. \A x \in Sessions : LoginWaits(x)'
  BY DEF UsersInv, LoginWaits, users
<1>3. \A x \in Sessions : InRoom(x)' => room_idx_'[x] \in Rooms
  BY DEF UsersInv, InRoom, users
<1>4. OneAsks'
  <2>1. \A x \in Sessions, u \in UserIds : AsksFor(x, u)' => AsksFor(x, u)
    BY DEF AsksFor, users
  <2> QED BY <2>1, AskingLess DEF UsersInv
<1>5. MapMatchesUsers' /\ RoomsMatchUsers'
  BY DEF UsersInv, MapMatchesUsers, RoomsMatchUsers, LoggedIn, users
<1> QED BY <1>1, <1>2, <1>3, <1>4, <1>5 DEF UsersInv

LEMMA InternalUsers ==
  ASSUME TypeOK, TypeOK', PacketInHand, UsersInv, Internal
  PROVE  UsersInv'
<1>1. UNCHANGED users /\ \A x \in Sessions : LoginsInFlight(x)' = LoginsInFlight(x)
  BY InternalStep
<1>2. CASE CompleteProcess
  <2>1. PICK c \in Sessions :
          /\ packet_buf_[c] # <<>> /\ Completing(c)
          /\ packet_buf_' = [packet_buf_ EXCEPT ![c] = Tail(@)]
          /\ \A x \in Sessions : Completing(x) => x = c
    BY <1>2 DEF CompleteProcess, PacketInHand, Completing
  <2>2. \A x \in Sessions \ {c} : packet_buf_'[x] = packet_buf_[x]
    BY <2>1 DEF TypeOK
  <2>3. ASSUME NEW i \in DOMAIN packet_buf_'[c]
        PROVE  /\ i + 1 \in DOMAIN packet_buf_[c] /\ i + 1 # 1
               /\ packet_buf_'[c][i] = packet_buf_[c][i + 1]
    <3> DEFINE q == packet_buf_[c]
    <3>1. q \in Seq(Requests) /\ q # <<>> /\ packet_buf_'[c] = Tail(q)
      BY <2>1 DEF TypeOK
    <3>2. /\ Tail(q) \in Seq(Requests)
          /\ Len(Tail(q)) = Len(q) - 1
          /\ \A j \in 1 .. Len(Tail(q)) : Tail(q)[j] = q[j + 1]
      BY <3>1, HeadTailProperties
    <3>3. DOMAIN q = 1 .. Len(q) /\ Len(q) \in Nat /\ DOMAIN Tail(q) = 1 .. Len(q) - 1
      BY <3>1, <3>2, LenProperties
    <3> QED BY <3>1, <3>2, <3>3
  <2>4. \A x \in Sessions : LoginWaits(x)'
    <3>1. LoginWaits(c)'
      <4>1. LoginWaits(c)
        BY DEF UsersInv
      <4>2. \A i \in DOMAIN packet_buf_'[c] :
              packet_buf_'[c][i].id = "kLOGIN_REQUEST" => domain_state_[c] = "kNONE"
        BY <2>3, <4>1 DEF LoginWaits
      <4> QED BY <1>1, <4>2 DEF LoginWaits, users
    <3>2. \A x \in Sessions \ {c} : LoginWaits(x)'
      BY <1>1, <2>1, <2>2 DEF UsersInv, LoginWaits, users
    <3> QED BY <3>1, <3>2
  <2>5. OneAsks'
    <3>1. \A x \in Sessions, u \in UserIds : AsksFor(x, u)' => AsksFor(x, u)
      BY <1>1, <2>2, <2>3 DEF AsksFor, users
    <3> QED BY <3>1, AskingLess DEF UsersInv
  <2>6. \A x \in Sessions : IdKnown(x)'
    BY <1>1 DEF UsersInv, IdKnown, LoggedIn, users
  <2>7. /\ \A x \in Sessions : InRoom(x)' => room_idx_'[x] \in Rooms
        /\ MapMatchesUsers' /\ RoomsMatchUsers'
    BY <1>1 DEF UsersInv, InRoom, MapMatchesUsers, RoomsMatchUsers, LoggedIn, users
  <2> QED BY <2>4, <2>5, <2>6, <2>7 DEF UsersInv
<1>3. CASE ~CompleteProcess
  <2>1. UNCHANGED packet_buf_
    BY <1>3 DEF Internal, PushUserIndex, NoUserIndex, DequeuePacket, NoHandler,
                RedisLoginHandler, vars
  <2>2. \A x \in Sessions : Completing(x) => Completing(x)'
    BY <1>3 DEF Internal, PushUserIndex, NoUserIndex, DequeuePacket, NoHandler,
                RedisLoginHandler, vars, thread, Completing
  <2> QED BY <1>1, <2>1, <2>2, UsersSame
<1> QED BY <1>2, <1>3

LEMMA ReportsUsers ==
  ASSUME TypeOK, TypeOK', UsersInv, NEW s \in Sessions, OnConnect(s) \/ OnDisconnect(s)
  PROVE  UsersInv' /\ UNCHANGED users
<1>1. UNCHANGED <<packet_buf_, task_req_queue_, task_res_queue_, pc, current>>
      /\ UNCHANGED users
  BY DEF OnConnect, OnDisconnect, thread
<1>2. \A x \in Sessions : /\ LoginsInFlight(x)' = LoginsInFlight(x)
                          /\ Completing(x) => Completing(x)'
  BY <1>1, LoginsStep DEF Completing
<1> QED BY <1>1, <1>2, UsersSame

\* A login is only sent by a user without one, and for an id that nobody
\* else is asking for.
LEMMA RequestUsers ==
  ASSUME Liberties \subseteq {"unknown"}, TypeOK, TypeOK', SlotsInv, UsersInv,
         NEW s \in Sessions, EnqueuePacketData(s)
  PROVE  UsersInv'
<1>1. /\ UNCHANGED <<task_req_queue_, task_res_queue_, thread, users>>
      /\ \A x \in Sessions \ {s} : packet_buf_'[x] = packet_buf_[x]
      /\ \E packet \in Requests :
           /\ MaySend(s, packet)
           /\ DOMAIN packet_buf_'[s] = 1 .. Len(packet_buf_[s]) + 1
           /\ \A i \in 1 .. Len(packet_buf_[s]) :
                packet_buf_'[s][i] = packet_buf_[s][i]
           /\ packet_buf_'[s][Len(packet_buf_[s]) + 1] = packet
  BY RequestSlots
<1>2. PICK packet \in Requests :
        /\ MaySend(s, packet)
        /\ DOMAIN packet_buf_'[s] = 1 .. Len(packet_buf_[s]) + 1
        /\ \A i \in 1 .. Len(packet_buf_[s]) : packet_buf_'[s][i] = packet_buf_[s][i]
        /\ packet_buf_'[s][Len(packet_buf_[s]) + 1] = packet
  BY <1>1
<1>3. \A x \in Sessions : /\ LoginsInFlight(x)' = LoginsInFlight(x)
                          /\ Completing(x)' <=> Completing(x)
  BY <1>1, LoginsStep DEF Completing, thread
<1>4. Len(packet_buf_[s]) \in Nat /\ DOMAIN packet_buf_[s] = 1 .. Len(packet_buf_[s])
  BY LenProperties DEF TypeOK
<1>5. packet.id = "kLOGIN_REQUEST" =>
        /\ domain_state_[s] = "kNONE"
        /\ \A x \in Sessions \ {s} : ~AsksFor(x, packet.body)
  BY <1>2 DEF MaySend
<1>6. ASSUME NEW i \in DOMAIN packet_buf_'[s]
      PROVE  \/ i \in DOMAIN packet_buf_[s] /\ packet_buf_'[s][i] = packet_buf_[s][i]
             \/ packet_buf_'[s][i] = packet
  BY <1>2, <1>4
<1>7. \A x \in Sessions : LoginWaits(x)'
  <2>1. LoginWaits(s)'
    <3>1. SUFFICES ASSUME NEW i \in DOMAIN packet_buf_'[s],
                          packet_buf_'[s][i].id = "kLOGIN_REQUEST"
                   PROVE  domain_state_[s] = "kNONE" \/ (Completing(s) /\ i = 1)
      BY <1>1, <1>3 DEF LoginWaits, users
    <3>2. LoginWaits(s)
      BY DEF UsersInv
    <3> QED BY <1>5, <1>6, <3>1, <3>2 DEF LoginWaits
  <2>2. \A x \in Sessions \ {s} : LoginWaits(x)'
    BY <1>1, <1>3 DEF UsersInv, LoginWaits, users
  <2> QED BY <2>1, <2>2
<1>8. OneAsks'
  <2>1. ASSUME NEW x \in Sessions, NEW u \in UserIds, AsksFor(x, u)'
        PROVE  AsksFor(x, u) \/ (x = s /\ \A t \in Sessions \ {s} : ~AsksFor(t, u))
    <3>1. CASE user_id_'[x] = u /\ LoginsInFlight(x)' > 0
      BY <1>1, <1>3, <3>1 DEF AsksFor, users
    <3>2. CASE \E i \in DOMAIN packet_buf_'[x] :
                 packet_buf_'[x][i] = [id |-> "kLOGIN_REQUEST", body |-> u]
      <4>1. CASE x # s
        BY <1>1, <3>2, <4>1 DEF AsksFor
      <4>2. CASE x = s
        <5>1. PICK i \in DOMAIN packet_buf_'[s] :
                packet_buf_'[s][i] = [id |-> "kLOGIN_REQUEST", body |-> u]
          BY <3>2, <4>2
        <5>2. CASE i \in DOMAIN packet_buf_[s] /\ packet_buf_'[s][i] = packet_buf_[s][i]
          BY <4>2, <5>1, <5>2 DEF AsksFor
        <5>3. CASE packet_buf_'[s][i] = packet
          BY <1>5, <4>2, <5>1, <5>3
        <5> QED BY <1>6, <5>2, <5>3
      <4> QED BY <4>1, <4>2
    <3> QED BY <2>1, <3>1, <3>2 DEF AsksFor
  <2>2. OneAsks
    BY DEF UsersInv
  <2> QED BY <2>1, <2>2 DEF OneAsks
<1>9. \A x \in Sessions : IdKnown(x)'
  BY <1>1, <1>3 DEF UsersInv, IdKnown, LoggedIn, users
<1>10. /\ \A x \in Sessions : InRoom(x)' => room_idx_'[x] \in Rooms
       /\ MapMatchesUsers' /\ RoomsMatchUsers'
  BY <1>1 DEF UsersInv, InRoom, MapMatchesUsers, RoomsMatchUsers, LoggedIn, users
<1> QED BY <1>7, <1>8, <1>9, <1>10 DEF UsersInv

\* While ids are used once, a user that leaves is taken from its room's list
\* and nobody else is (room.cpp:40-48).
LEMMA LeavesAlone ==
  ASSUME TypeOK, UsersInv, NEW s \in Sessions, InRoom(s), LeaveUser(s)
  PROVE  \A r \in Rooms, x \in Sessions :
           user_list_'[r][x] = IF x = s THEN 0 ELSE user_list_[r][x]
<1> DEFINE home == room_idx_[s]
<1>1. home \in Rooms /\ user_list_ \in [Rooms -> [Sessions -> Nat]]
  BY DEF UsersInv, TypeOK
<1>2. /\ user_list_'[home] = WithoutUser(s, user_list_[home])
      /\ \A r \in Rooms \ {home} : user_list_'[r] = user_list_[r]
  BY <1>1 DEF LeaveUser
<1>3. ASSUME NEW x \in Sessions, x # s, user_id_[x] = user_id_[s]
      PROVE  user_list_[home][x] = 0
  <2>1. LoggedIn(s)
    BY DEF InRoom, LoggedIn
  <2>2. user_id_map_[user_id_[s]] = s
    BY <2>1 DEF UsersInv, MapMatchesUsers, TypeOK
  <2>3. ~LoggedIn(x)
    BY <1>3, <2>2 DEF UsersInv, MapMatchesUsers, TypeOK
  <2> QED BY <1>1, <2>3 DEF UsersInv, RoomsMatchUsers, LoggedIn
<1>4. \A x \in Sessions :
        user_list_'[home][x] = IF x = s THEN 0 ELSE user_list_[home][x]
  BY <1>2, <1>3 DEF WithoutUser
<1>5. \A r \in Rooms \ {home} : user_list_[r][s] = 0
  BY DEF UsersInv, RoomsMatchUsers
<1> QED BY <1>2, <1>4, <1>5

LEMMA EntersAlone ==
  ASSUME TypeOK, NEW s \in Sessions, NEW r \in Rooms, EnterUser(s, r)
  PROVE  /\ \A q \in Rooms, x \in Sessions :
              user_list_'[q][x] = IF q = r /\ x = s THEN user_list_[q][x] + 1
                                                    ELSE user_list_[q][x]
         /\ room_idx_' = [room_idx_ EXCEPT ![s] = r]
         /\ domain_state_' = [domain_state_ EXCEPT ![s] = "kROOM"]
<1>1. user_list_' = [user_list_ EXCEPT ![r][s] = @ + 1]
  BY DEF EnterUser
<1>2. user_list_ \in [Rooms -> [Sessions -> Nat]]
  BY DEF TypeOK
<1>3. \A q \in Rooms, x \in Sessions :
        user_list_'[q][x] = IF q = r /\ x = s THEN user_list_[q][x] + 1
                                              ELSE user_list_[q][x]
  BY <1>1, <1>2
<1> QED BY <1>3 DEF EnterUser

LEMMA HandlerUsers ==
  ASSUME TypeOK, TypeOK', PacketInHand, SlotsInv, UsersInv, HandleUserPacket
  PROVE  UsersInv'
<1>1. PICK c \in Sessions : c = current
  BY HandlerAnswers
<1>2. /\ UNCHANGED <<packet_buf_, task_res_queue_, current, live>>
      /\ pc = "handle" /\ pc' = "complete"
  BY HandlerAnswers
<1>3. c \in live /\ LoginsInFlight(c) = 0 /\ Len(packet_buf_[c]) = 1
  BY <1>1, HandlerSlots
<1>4. DOMAIN packet_buf_[c] = 1 .. 1
  BY <1>3, LenProperties DEF TypeOK
<1>5. Completing(c)' /\ ~Completing(c)
      /\ \A x \in Sessions : Completing(x) => Completing(x)'
  BY <1>1, <1>2 DEF Completing
<1>6. HandlerServed
  BY HandlerServes
<1>7. LoginWaits(c)'
  <2>1. \A i \in DOMAIN packet_buf_'[c] : i = 1
    BY <1>2, <1>4
  <2> QED BY <1>5, <2>1 DEF LoginWaits
<1>8. ASSUME UNCHANGED task_req_queue_, NEW x \in Sessions
      PROVE  LoginsInFlight(x)' = LoginsInFlight(x)
  BY <1>2, <1>8, LoginsStep
<1>9. CASE UNCHANGED <<domain_state_, user_id_, room_idx_, user_id_map_, user_list_,
                       task_req_queue_>>
  BY <1>2, <1>5, <1>8, <1>9, UsersSame DEF users
<1>10. CASE \E u \in UserIds :
              /\ packet_buf_[c][1] = [id |-> "kLOGIN_REQUEST", body |-> u]
              /\ user_id_map_[u] = NoSession
              /\ user_id_' = [user_id_ EXCEPT ![c] = u]
              /\ task_req_queue_' = Append(task_req_queue_, c)
              /\ UNCHANGED <<domain_state_, room_idx_, user_id_map_, user_list_>>
  <2>1. PICK u \in UserIds :
          /\ packet_buf_[c][1] = [id |-> "kLOGIN_REQUEST", body |-> u]
          /\ user_id_map_[u] = NoSession
          /\ user_id_' = [user_id_ EXCEPT ![c] = u]
          /\ task_req_queue_' = Append(task_req_queue_, c)
          /\ UNCHANGED <<domain_state_, room_idx_, user_id_map_, user_list_>>
    BY <1>10
  <2>2. domain_state_[c] = "kNONE"
    <3>1. LoginWaits(c) /\ 1 \in DOMAIN packet_buf_[c]
      BY <1>4 DEF UsersInv
    <3> QED BY <1>5, <2>1, <3>1 DEF LoginWaits
  <2>3. LoginsInFlight(c)' = 1
    <3>1. LoginsInFlight(c)' = LoginsInFlight(c) + 1
      BY <1>2, <2>1, LoginsStep
    <3> QED BY <1>3, <3>1
  <2>4. \A x \in Sessions \ {c} : LoginsInFlight(x)' = LoginsInFlight(x)
    <3>1. \A x \in Sessions : LoginsInFlight(x)' = LoginsInFlight(x) + (IF c = x THEN 1 ELSE 0)
      BY <1>2, <2>1, LoginsStep
    <3>2. \A x \in Sessions : LoginsInFlight(x) \in Nat
      BY LoginsStep
    <3> QED BY <3>1, <3>2
  <2>5. user_id_'[c] = u /\ \A x \in Sessions \ {c} : user_id_'[x] = user_id_[x]
    BY <2>1 DEF TypeOK
  <2>6. ~LoggedIn(c)
    BY <2>2 DEF LoggedIn
  <2>7. \A x \in Sessions : LoggedIn(x)' <=> LoggedIn(x)
    BY <1>2, <2>1 DEF LoggedIn
  <2>8. \A x \in Sessions : IdKnown(x)'
    <3>1. IdKnown(c)'
      BY <2>1, <2>2, <2>3, <2>5, <2>6, <2>7 DEF IdKnown
    <3>2. \A x \in Sessions \ {c} : IdKnown(x)'
      BY <1>2, <2>1, <2>4, <2>5, <2>7 DEF UsersInv, IdKnown
    <3> QED BY <3>1, <3>2
  <2>9. \A x \in Sessions : LoginWaits(x)'
    <3>1. \A x \in Sessions \ {c} : LoginWaits(x)'
      BY <1>2, <1>5, <2>1 DEF UsersInv, LoginWaits
    <3> QED BY <1>7, <3>1
  <2>10. OneAsks'
    <3>1. AsksFor(c, u)
      <4>1. 1 \in DOMAIN packet_buf_[c]
        BY <1>4
      <4> QED BY <2>1, <4>1 DEF AsksFor
    <3>2. \A x \in Sessions, v \in UserIds : AsksFor(x, v)' => AsksFor(x, v)
      BY <1>2, <2>4, <2>5, <3>1 DEF AsksFor
    <3> QED BY <3>2, AskingLess DEF UsersInv
  <2>11. MapMatchesUsers'
    BY <2>1, <2>5, <2>6, <2>7 DEF UsersInv, MapMatchesUsers
  <2>12. /\ \A x \in Sessions : InRoom(x)' => room_idx_'[x] \in Rooms
         /\ RoomsMatchUsers'
    BY <1>2, <2>1 DEF UsersInv, InRoom, RoomsMatchUsers
  <2> QED BY <2>8, <2>9, <2>10, <2>11, <2>12 DEF UsersInv
<1>11. ASSUME UNCHANGED <<user_id_, user_id_map_, task_req_queue_>>,
              domain_state_[c] # "kNONE", domain_state_'[c] # "kNONE",
              \A x \in Sessions \ {c} : domain_state_'[x] = domain_state_[x]
       PROVE  /\ \A x \in Sessions : IdKnown(x)' /\ LoginWaits(x)'
              /\ OneAsks' /\ MapMatchesUsers'
  <2>1. \A x \in Sessions : LoggedIn(x)' <=> LoggedIn(x)
    BY <1>2, <1>11 DEF LoggedIn
  <2>2. \A x \in Sessions : IdKnown(x)'
    <3>1. LoginsInFlight(c)' = 0
      BY <1>3, <1>8, <1>11
    <3>2. IdKnown(c)'
      BY <1>11, <2>1, <3>1 DEF UsersInv, IdKnown
    <3>3. \A x \in Sessions \ {c} : IdKnown(x)'
      BY <1>2, <1>8, <1>11, <2>1 DEF UsersInv, IdKnown
    <3> QED BY <3>2, <3>3
  <2>3. \A x \in Sessions : LoginWaits(x)'
    <3>1. \A x \in Sessions \ {c} : LoginWaits(x)'
      BY <1>2, <1>5, <1>11 DEF UsersInv, LoginWaits
    <3> QED BY <1>7, <3>1
  <2>4. OneAsks'
    <3>1. \A x \in Sessions, v \in UserIds : AsksFor(x, v)' => AsksFor(x, v)
      BY <1>2, <1>8, <1>11 DEF AsksFor
    <3> QED BY <3>1, AskingLess DEF UsersInv
  <2>5. MapMatchesUsers'
    BY <1>11, <2>1 DEF UsersInv, MapMatchesUsers
  <2> QED BY <2>2, <2>3, <2>4, <2>5
<1>12. CASE \E r \in Rooms :
              /\ domain_state_[c] = "kLOGIN" /\ HasSpace(r)
              /\ EnterUser(c, r)
              /\ UNCHANGED <<user_id_, user_id_map_, task_req_queue_>>
  <2>1. PICK r \in Rooms :
          /\ domain_state_[c] = "kLOGIN"
          /\ EnterUser(c, r)
          /\ UNCHANGED <<user_id_, user_id_map_, task_req_queue_>>
    BY <1>12
  <2>2. /\ \A q \in Rooms, x \in Sessions :
             user_list_'[q][x] = IF q = r /\ x = c THEN user_list_[q][x] + 1
                                                   ELSE user_list_[q][x]
        /\ room_idx_' = [room_idx_ EXCEPT ![c] = r]
        /\ domain_state_' = [domain_state_ EXCEPT ![c] = "kROOM"]
    BY <2>1, EntersAlone
  <2>3. /\ domain_state_'[c] = "kROOM" /\ room_idx_'[c] = r
        /\ \A x \in Sessions \ {c} : /\ domain_state_'[x] = domain_state_[x]
                                     /\ room_idx_'[x] = room_idx_[x]
    BY <2>2 DEF TypeOK
  <2>4. \A x \in Sessions : InRoom(x)' => room_idx_'[x] \in Rooms
    BY <1>2, <2>3 DEF UsersInv, InRoom
  <2>5. RoomsMatchUsers'
    <3>1. SUFFICES ASSUME NEW x \in Sessions, NEW q \in Rooms
                   PROVE  user_list_'[q][x] =
                            IF InRoom(x)' /\ room_idx_'[x] = q THEN 1 ELSE 0
      BY DEF RoomsMatchUsers, InRoom
    <3>2. user_list_[q][x] = IF InRoom(x) /\ room_idx_[x] = q THEN 1 ELSE 0
      BY DEF UsersInv, RoomsMatchUsers, InRoom
    <3>3. CASE x = c
      <4>1. user_list_[q][x] = 0
        BY <2>1, <3>2, <3>3 DEF InRoom
      <4>2. user_list_'[q][x] = IF q = r THEN 1 ELSE 0
        BY <2>2, <3>3, <4>1
      <4> QED BY <1>2, <1>3, <2>3, <3>3, <4>2 DEF InRoom
    <3>4. CASE x # c
      BY <1>2, <2>2, <2>3, <3>2, <3>4 DEF InRoom
    <3> QED BY <3>3, <3>4
  <2> QED BY <1>11, <2>1, <2>3, <2>4, <2>5 DEF UsersInv
<1>13. CASE /\ domain_state_[c] = "kROOM"
            /\ LeaveUser(c)
            /\ domain_state_' = [domain_state_ EXCEPT ![c] = "kLOGIN"]
            /\ UNCHANGED <<user_id_, room_idx_, user_id_map_, task_req_queue_>>
  <2>1. InRoom(c)
    BY <1>3, <1>13 DEF InRoom
  <2>2. \A r \in Rooms, x \in Sessions :
          user_list_'[r][x] = IF x = c THEN 0 ELSE user_list_[r][x]
    BY <1>13, <2>1, LeavesAlone
  <2>3. /\ domain_state_'[c] = "kLOGIN"
        /\ \A x \in Sessions \ {c} : domain_state_'[x] = domain_state_[x]
    BY <1>13 DEF TypeOK
  <2>4. \A x \in Sessions : InRoom(x)' => room_idx_'[x] \in Rooms
    BY <1>2, <1>13, <2>3 DEF UsersInv, InRoom
  <2>5. RoomsMatchUsers'
    BY <1>2, <1>13, <2>2, <2>3 DEF UsersInv, RoomsMatchUsers
  <2> QED BY <1>11, <1>13, <2>3, <2>4, <2>5 DEF UsersInv
<1> QED BY <1>1, <1>6, <1>9, <1>10, <1>12, <1>13 DEF HandlerServed

LEMMA ConnectUsers ==
  ASSUME TypeOK, UsersInv, NEW s \in Sessions, ConnectHandler(s), s \notin live,
         packet_buf_[s] = <<>>, LoginsInFlight(s) = 0,
         \A x \in Sessions : LoginsInFlight(x)' = LoginsInFlight(x),
         \A x \in Sessions : ~Completing(x) /\ ~Completing(x)'
  PROVE  UsersInv'
<1>1. /\ domain_state_'[s] = "kNONE" /\ user_id_'[s] = NoId /\ room_idx_'[s] = NoRoom
      /\ \A x \in Sessions \ {s} : /\ domain_state_'[x] = domain_state_[x]
                                   /\ user_id_'[x] = user_id_[x]
                                   /\ room_idx_'[x] = room_idx_[x]
      /\ packet_buf_' = packet_buf_
      /\ live' = live \cup {s}
      /\ UNCHANGED <<user_id_map_, user_list_>>
  BY DEF ConnectHandler, TypeOK
<1>2. \A x \in Sessions : (LoggedIn(x)' <=> LoggedIn(x)) /\ (InRoom(x)' <=> InRoom(x))
  BY <1>1 DEF LoggedIn, InRoom
<1>3. ~LoggedIn(s) /\ ~InRoom(s)
  BY DEF LoggedIn, InRoom
<1>4. \A x \in Sessions : IdKnown(x)'
  <2>1. IdKnown(s)'
    BY <1>1, <1>2, <1>3 DEF IdKnown
  <2>2. \A x \in Sessions \ {s} : IdKnown(x)'
    BY <1>1, <1>2 DEF UsersInv, IdKnown
  <2> QED BY <2>1, <2>2
<1>5. \A x \in Sessions : LoginWaits(x)'
  <2>1. DOMAIN packet_buf_'[s] = {}
    BY <1>1
  <2>2. LoginWaits(s)'
    BY <2>1 DEF LoginWaits
  <2>3. \A x \in Sessions \ {s} : LoginWaits(x)'
    BY <1>1 DEF UsersInv, LoginWaits
  <2> QED BY <2>2, <2>3
<1>6. OneAsks'
  <2>1. \A x \in Sessions, u \in UserIds : AsksFor(x, u)' => AsksFor(x, u)
    BY <1>1 DEF AsksFor
  <2> QED BY <2>1, AskingLess DEF UsersInv
<1>7. MapMatchesUsers'
  BY <1>1, <1>2, <1>3 DEF UsersInv, MapMatchesUsers
<1>8. (\A x \in Sessions : InRoom(x)' => room_idx_'[x] \in Rooms) /\ RoomsMatchUsers'
  BY <1>1, <1>2, <1>3 DEF UsersInv, RoomsMatchUsers, InRoom
<1> QED BY <1>4, <1>5, <1>6, <1>7, <1>8 DEF UsersInv

\* A user that is not in a room is in no list, so that a session that ends is
\* in none afterwards.
LEMMA DisconnectLists ==
  ASSUME TypeOK, UsersInv, NEW s \in Sessions, DisconnectHandler(s), s \in live
  PROVE  \A r \in Rooms, x \in Sessions :
           user_list_'[r][x] = IF x = s THEN 0 ELSE user_list_[r][x]
<1>1. CASE domain_state_[s] = "kROOM"
  BY <1>1, LeavesAlone DEF DisconnectHandler, InRoom
<1>2. CASE domain_state_[s] # "kROOM"
  BY <1>2 DEF DisconnectHandler, UsersInv, RoomsMatchUsers
<1> QED BY <1>1, <1>2

LEMMA DisconnectUsers ==
  ASSUME TypeOK, UsersInv, NEW s \in Sessions, DisconnectHandler(s), s \in live,
         packet_buf_[s] = <<>>, LoginsInFlight(s) = 0,
         \A x \in Sessions : LoginsInFlight(x)' = LoginsInFlight(x),
         \A x \in Sessions : ~Completing(x) /\ ~Completing(x)'
  PROVE  UsersInv'
<1>1. /\ UNCHANGED <<room_idx_, user_id_, domain_state_, packet_buf_>>
      /\ live' = live \ {s}
      /\ user_id_map_' = [user_id_map_ EXCEPT ![user_id_[s]] = NoSession]
  BY DEF DisconnectHandler, DeleteUserInfo
<1>2. user_id_ \in [Sessions -> Ids] /\ user_id_map_ \in [Ids -> Sessions \cup {NoSession}]
  BY DEF TypeOK
<1>3. /\ user_id_map_'[user_id_[s]] = NoSession
      /\ \A u \in Ids \ {user_id_[s]} : user_id_map_'[u] = user_id_map_[u]
  BY <1>1, <1>2
<1>4. \A x \in Sessions : /\ LoggedIn(x)' <=> LoggedIn(x) /\ x # s
                          /\ InRoom(x)' <=> InRoom(x) /\ x # s
  BY <1>1 DEF LoggedIn, InRoom
<1>5. ASSUME NEW x \in Sessions, x # s, LoggedIn(x) PROVE user_id_[x] # user_id_[s]
  <2>1. CASE LoggedIn(s)
    BY <1>2, <1>5, <2>1 DEF UsersInv, MapMatchesUsers
  <2>2. CASE ~LoggedIn(s)
    <3>1. user_id_[s] = NoId
      BY <2>2 DEF LoggedIn, UsersInv, IdKnown
    <3>2. user_id_[x] \in UserIds
      BY <1>5 DEF UsersInv, IdKnown
    <3> QED BY <3>1, <3>2, NamesAssumption
  <2> QED BY <2>1, <2>2
<1>6. \A x \in Sessions : IdKnown(x)'
  <2>1. ASSUME NEW x \in Sessions, LoginsInFlight(x) > 0
        PROVE  user_id_map_'[user_id_[x]] = NoSession
    <3>1. user_id_map_[user_id_[x]] = NoSession /\ user_id_[x] \in Ids
      BY <1>2, <2>1 DEF UsersInv, IdKnown
    <3> QED BY <1>3, <3>1
  <2> QED BY <1>1, <1>4, <2>1 DEF UsersInv, IdKnown
<1>7. \A x \in Sessions : LoginWaits(x)'
  BY <1>1 DEF UsersInv, LoginWaits
<1>8. OneAsks'
  <2>1. \A x \in Sessions, u \in UserIds : AsksFor(x, u)' => AsksFor(x, u)
    BY <1>1 DEF AsksFor
  <2> QED BY <2>1, AskingLess DEF UsersInv
<1>9. MapMatchesUsers'
  <2>1. SUFFICES ASSUME NEW x \in Sessions, NEW u \in Ids
                 PROVE  user_id_map_'[u] = x <=> LoggedIn(x)' /\ user_id_[x] = u
    BY <1>1 DEF MapMatchesUsers
  <2>2. user_id_map_[u] = x <=> LoggedIn(x) /\ user_id_[x] = u
    BY DEF UsersInv, MapMatchesUsers
  <2>3. CASE u = user_id_[s]
    BY <1>3, <1>4, <1>5, <2>3, NamesAssumption
  <2>4. CASE u # user_id_[s]
    BY <1>3, <1>4, <2>2, <2>4
  <2> QED BY <2>3, <2>4
<1>10. RoomsMatchUsers'
  BY <1>1, <1>4, DisconnectLists DEF UsersInv, RoomsMatchUsers
<1>11. \A x \in Sessions : InRoom(x)' => room_idx_'[x] \in Rooms
  BY <1>1, <1>4 DEF UsersInv
<1> QED BY <1>6, <1>7, <1>8, <1>9, <1>10, <1>11 DEF UsersInv

LEMMA SystemUsers ==
  ASSUME TypeOK, TypeOK', SlotsInv, UsersInv, ServeSystemPacket
  PROVE  UsersInv'
<1>1. /\ \A x \in Sessions : LoginsInFlight(x)' = LoginsInFlight(x)
      /\ \A x \in Sessions : ~Completing(x) /\ ~Completing(x)'
      /\ SystemServed
  BY SystemSlots
<1>2. CASE UNCHANGED <<client, packet_buf_, users>>
  BY <1>1, <1>2, UsersSame
<1>3. ASSUME NEW s \in Sessions, ConnectHandler(s), s \notin live,
             packet_buf_[s] = <<>>, LoginsInFlight(s) = 0
      PROVE  UsersInv'
  BY <1>1, <1>3, ConnectUsers
<1>4. ASSUME NEW s \in Sessions, DisconnectHandler(s), s \in live,
             packet_buf_[s] = <<>>, LoginsInFlight(s) = 0
      PROVE  UsersInv'
  BY <1>1, <1>4, DisconnectUsers
<1> QED BY <1>1, <1>2, <1>3, <1>4 DEF SystemServed

\* Redis's answer registers the id for which the session asked: nobody else
\* has asked for it or taken it meanwhile.
LEMMA AnswerUsers ==
  ASSUME TypeOK, TypeOK', SlotsInv, UsersInv, ServeRedisAnswer
  PROVE  UsersInv'
<1>1. /\ UNCHANGED packet_buf_
      /\ \A x \in Sessions : ~Completing(x) /\ ~Completing(x)'
      /\ AnswerServed
  BY AnswerSlots
<1>2. CASE /\ UNCHANGED <<client, users>>
           /\ \A x \in Sessions : LoginsInFlight(x)' = LoginsInFlight(x)
  BY <1>1, <1>2, UsersSame
<1>3. ASSUME NEW s \in Sessions, NEW ok \in BOOLEAN, LoginDBResHandler(s, ok), s \in live,
             LoginsInFlight(s) = 1, LoginsInFlight(s)' = 0, packet_buf_[s] = <<>>,
             \A x \in Sessions \ {s} : LoginsInFlight(x)' = LoginsInFlight(x)
      PROVE  UsersInv'
  <2>1. /\ domain_state_[s] = "kNONE" /\ user_id_[s] \in UserIds
        /\ user_id_map_[user_id_[s]] = NoSession
    BY <1>3 DEF UsersInv, IdKnown
  <2>2. ~LoggedIn(s) /\ ~InRoom(s)
    BY <2>1 DEF LoggedIn, InRoom
  <2>3. UNCHANGED <<room_idx_, user_list_, packet_buf_, live>>
    BY <1>3 DEF LoginDBResHandler
  <2>4. LoginWaits(s)'
    <3>1. DOMAIN packet_buf_'[s] = {}
      BY <1>3, <2>3
    <3> QED BY <3>1 DEF LoginWaits
  <2>5. ASSUME \A x \in Sessions \ {s} : user_id_'[x] = user_id_[x] PROVE OneAsks'
    <3>1. \A u \in UserIds : ~AsksFor(s, u)'
      BY <1>3, <2>3 DEF AsksFor
    <3>2. \A x \in Sessions \ {s}, u \in UserIds : AsksFor(x, u)' => AsksFor(x, u)
      BY <1>3, <2>3, <2>5 DEF AsksFor
    <3>3. \A x \in Sessions, u \in UserIds : AsksFor(x, u)' => AsksFor(x, u)
      BY <3>1, <3>2
    <3> QED BY <3>3, AskingLess DEF UsersInv
  <2>6. CASE ok
    <3>1. /\ UNCHANGED user_id_
          /\ domain_state_'[s] = "kLOGIN"
          /\ \A x \in Sessions \ {s} : domain_state_'[x] = domain_state_[x]
          /\ user_id_map_' = [user_id_map_ EXCEPT ![user_id_[s]] = s]
      BY <1>3, <2>1, <2>6 DEF LoginDBResHandler, TypeOK
    <3>2. /\ user_id_map_'[user_id_[s]] = s
          /\ \A u \in Ids \ {user_id_[s]} : user_id_map_'[u] = user_id_map_[u]
      BY <2>1, <3>1 DEF TypeOK, Ids
    <3>3. /\ LoggedIn(s)'
          /\ \A x \in Sessions \ {s} : LoggedIn(x)' <=> LoggedIn(x)
          /\ \A x \in Sessions : InRoom(x)' <=> InRoom(x)
      BY <1>3, <2>2, <2>3, <3>1 DEF LoggedIn, InRoom
    <3>4. ASSUME NEW x \in Sessions, x # s, LoginsInFlight(x) > 0
          PROVE  user_id_[x] # user_id_[s]
      <4>1. AsksFor(s, user_id_[s])
        BY <1>3 DEF AsksFor
      <4>2. user_id_[x] = user_id_[s] => AsksFor(x, user_id_[s])
        BY <3>4 DEF AsksFor
      <4> QED BY <2>1, <3>4, <4>1, <4>2 DEF UsersInv, OneAsks
    <3>5. \A x \in Sessions : IdKnown(x)'
      <4>1. IdKnown(s)'
        BY <1>3, <2>1, <3>1 DEF IdKnown
      <4>2. ASSUME NEW x \in Sessions, x # s, LoginsInFlight(x) > 0
            PROVE  user_id_map_'[user_id_[x]] = NoSession
        <5>1. user_id_map_[user_id_[x]] = NoSession /\ user_id_[x] \in Ids
          BY <4>2 DEF UsersInv, IdKnown, Ids
        <5> QED BY <3>2, <3>4, <4>2, <5>1
      <4>3. \A x \in Sessions \ {s} : IdKnown(x)'
        BY <1>3, <2>3, <3>1, <3>3, <4>2 DEF UsersInv, IdKnown
      <4> QED BY <4>1, <4>3
    <3>6. \A x \in Sessions : LoginWaits(x)'
      <4>1. \A x \in Sessions \ {s} : LoginWaits(x)'
        BY <1>1, <3>1 DEF UsersInv, LoginWaits
      <4> QED BY <2>4, <4>1
    <3>7. OneAsks'
      BY <2>5, <3>1
    <3>8. MapMatchesUsers'
      <4>1. SUFFICES ASSUME NEW x \in Sessions, NEW u \in Ids
                     PROVE  user_id_map_'[u] = x <=> LoggedIn(x)' /\ user_id_[x] = u
        BY <3>1 DEF MapMatchesUsers
      <4>2. user_id_map_[u] = x <=> LoggedIn(x) /\ user_id_[x] = u
        BY DEF UsersInv, MapMatchesUsers
      <4>3. CASE u = user_id_[s]
        <5>1. x # s => ~(LoggedIn(x) /\ user_id_[x] = u)
          BY <2>1, <4>2, <4>3, NamesAssumption
        <5> QED BY <3>2, <3>3, <4>3, <5>1
      <4>4. CASE u # user_id_[s]
        BY <2>2, <3>2, <3>3, <4>2, <4>4
      <4> QED BY <4>3, <4>4
    <3>9. (\A x \in Sessions : InRoom(x)' => room_idx_'[x] \in Rooms) /\ RoomsMatchUsers'
      BY <2>3, <3>3 DEF UsersInv, RoomsMatchUsers, InRoom
    <3> QED BY <3>5, <3>6, <3>7, <3>8, <3>9 DEF UsersInv
  <2>7. CASE ~ok
    <3>1. /\ UNCHANGED <<domain_state_, user_id_map_>>
          /\ user_id_'[s] = NoId
          /\ \A x \in Sessions \ {s} : user_id_'[x] = user_id_[x]
      BY <1>3, <2>7 DEF LoginDBResHandler, TypeOK
    <3>2. \A x \in Sessions : (LoggedIn(x)' <=> LoggedIn(x)) /\ (InRoom(x)' <=> InRoom(x))
      BY <2>3, <3>1 DEF LoggedIn, InRoom
    <3>3. \A x \in Sessions : IdKnown(x)'
      <4>1. IdKnown(s)'
        BY <1>3, <2>1, <2>2, <3>1, <3>2 DEF IdKnown
      <4>2. \A x \in Sessions \ {s} : IdKnown(x)'
        BY <1>3, <2>3, <3>1, <3>2 DEF UsersInv, IdKnown
      <4> QED BY <4>1, <4>2
    <3>4. \A x \in Sessions : LoginWaits(x)'
      BY <1>1, <3>1 DEF UsersInv, LoginWaits
    <3>5. MapMatchesUsers'
      BY <2>2, <3>1, <3>2 DEF UsersInv, MapMatchesUsers
    <3>6. (\A x \in Sessions : InRoom(x)' => room_idx_'[x] \in Rooms) /\ RoomsMatchUsers'
      BY <2>3, <3>1, <3>2 DEF UsersInv, RoomsMatchUsers, InRoom
    <3> QED BY <2>5, <3>1, <3>3, <3>4, <3>5, <3>6 DEF UsersInv
  <2> QED BY <2>6, <2>7
<1> QED BY <1>1, <1>2, <1>3 DEF AnswerServed

-----------------------------------------------------------------------------
(* What the clients were told. *)

LEMMA RostersSame ==
  ASSUME RostersInv, UNCHANGED <<conn, roster, users>>
  PROVE  RostersInv'
BY DEF RostersInv, RosterKnown, InRoom, users

\* A client that connects or ends knows of nobody.
LEMMA ReportsRosters ==
  ASSUME Liberties \subseteq {"unknown"}, TypeOK, TypeOK', SlotsInv, RostersInv,
         NEW s \in Sessions, OnConnect(s) \/ OnDisconnect(s)
  PROVE  RostersInv'
<1>1. UNCHANGED users /\ (s \notin live \/ conn'[s] # "open")
  BY ReportsSlots DEF OnConnect, OnDisconnect
<1>2. /\ roster' = [roster EXCEPT ![s] = {}]
      /\ conn' = [conn EXCEPT ![s] = conn'[s]]
  BY DEF OnConnect, OnDisconnect, Calls!Connect, Calls!Disconnect, TypeOK
<1>3. /\ roster'[s] = {}
      /\ \A x \in Sessions \ {s} : roster'[x] = roster[x] /\ conn'[x] = conn[x]
  BY <1>2 DEF TypeOK
<1>4. UNCHANGED <<domain_state_, room_idx_, user_list_, live>>
  BY <1>1 DEF users
<1>5. RosterKnown(s)'
  BY <1>1, <1>3, <1>4 DEF RosterKnown, InRoom
<1>6. \A x \in Sessions \ {s} : RosterKnown(x)'
  BY <1>3, <1>4 DEF RostersInv, RosterKnown, InRoom
<1> QED BY <1>5, <1>6 DEF RostersInv

\* Only those in the room are in its list.
LEMMA MembersAreInRoom ==
  ASSUME UsersInv, NEW r \in Rooms, NEW x \in Sessions
  PROVE  x \in Members(user_list_[r]) <=> InRoom(x) /\ room_idx_[x] = r
BY DEF UsersInv, RoomsMatchUsers, Members, InRoom

\* Everyone in the room learns of a newcomer, and it learns of them.
LEMMA NewcomerKnown ==
  ASSUME TypeOK, UsersInv, RostersInv, NEW s \in Sessions, NEW r \in Rooms,
         EnterUser(s, r), conn[s] = "open", s \in live, ~InRoom(s),
         UNCHANGED <<conn, live>>
  PROVE  RostersInv'
<1>1. /\ \A q \in Rooms, x \in Sessions :
           user_list_'[q][x] = IF q = r /\ x = s THEN user_list_[q][x] + 1
                                                 ELSE user_list_[q][x]
      /\ room_idx_' = [room_idx_ EXCEPT ![s] = r]
      /\ domain_state_' = [domain_state_ EXCEPT ![s] = "kROOM"]
  BY EntersAlone
<1>2. /\ roster' = NotifyEntered(s, user_list_'[r])
      /\ user_list_ \in [Rooms -> [Sessions -> Nat]]
  BY DEF EnterUser, TypeOK
<1>3. /\ InRoom(s)' /\ room_idx_'[s] = r
      /\ \A x \in Sessions \ {s} : (InRoom(x)' <=> InRoom(x)) /\ room_idx_'[x] = room_idx_[x]
  BY <1>1 DEF InRoom, TypeOK
<1>4. Members(user_list_'[r]) = Members(user_list_[r]) \cup {s}
  <2>1. user_list_'[r][s] > 0
    BY <1>1, <1>2
  <2>2. \A x \in Sessions \ {s} : user_list_'[r][x] = user_list_[r][x]
    BY <1>1
  <2> QED BY <2>1, <2>2 DEF Members
<1>5. \A q \in Rooms \ {r} : Members(user_list_'[q]) = Members(user_list_[q])
  BY <1>1 DEF Members
<1>6. RosterKnown(s)'
  <2>1. roster'[s] = Members(user_list_'[r])
    BY <1>2 DEF NotifyEntered, Informed
  <2> QED BY <1>3, <2>1 DEF RosterKnown
<1>7. ASSUME NEW x \in Sessions, x # s, conn[x] = "open"
      PROVE  roster'[x] = IF InRoom(x) THEN Members(user_list_'[room_idx_[x]]) ELSE {}
  <2>1. roster[x] = IF InRoom(x) THEN Members(user_list_[room_idx_[x]]) ELSE {}
    BY <1>7 DEF RostersInv, RosterKnown
  <2>2. InRoom(x) => room_idx_[x] \in Rooms
    BY DEF UsersInv
  <2>3. x \in Members(user_list_'[r]) <=> InRoom(x) /\ room_idx_[x] = r
    BY <1>4, <1>7, MembersAreInRoom
  <2>4. CASE x \in Members(user_list_'[r])
    <3>1. roster'[x] = roster[x] \cup {s}
      BY <1>2, <1>7, <2>4 DEF NotifyEntered, Informed
    <3> QED BY <1>4, <2>1, <2>3, <2>4, <3>1
  <2>5. CASE x \notin Members(user_list_'[r])
    <3>1. roster'[x] = roster[x]
      BY <1>2, <1>7, <2>5 DEF NotifyEntered
    <3> QED BY <1>5, <2>1, <2>2, <2>3, <2>5, <3>1
  <2> QED BY <2>4, <2>5
<1>8. \A x \in Sessions \ {s} : RosterKnown(x)'
  BY <1>3, <1>7 DEF RosterKnown
<1> QED BY <1>6, <1>8 DEF RostersInv

\* Everyone left in the room learns that a user has gone.
LEMMA LeaverForgotten ==
  ASSUME TypeOK, UsersInv, RostersInv, NEW s \in Sessions, InRoom(s), LeaveUser(s),
         NEW x \in Sessions, x # s, conn[x] = "open"
  PROVE  NotifyLeaveUser(s, user_list_'[room_idx_[s]])[x] =
           IF InRoom(x) THEN Members(user_list_'[room_idx_[x]]) ELSE {}
<1>1. \A q \in Rooms, y \in Sessions :
        user_list_'[q][y] = IF y = s THEN 0 ELSE user_list_[q][y]
  BY LeavesAlone
<1>2. PICK h \in Rooms : h = room_idx_[s]
  BY DEF UsersInv
<1>3. \A q \in Rooms : Members(user_list_'[q]) = Members(user_list_[q]) \ {s}
  BY <1>1 DEF Members
<1>4. roster[x] = IF InRoom(x) THEN Members(user_list_[room_idx_[x]]) ELSE {}
  BY DEF RostersInv, RosterKnown
<1>5. InRoom(x) => room_idx_[x] \in Rooms
  BY DEF UsersInv
<1>6. x \in Members(user_list_'[h]) <=> InRoom(x) /\ room_idx_[x] = h
  BY <1>3, MembersAreInRoom
<1>7. CASE x \in Members(user_list_'[h])
  <2>1. NotifyLeaveUser(s, user_list_'[h])[x] = roster[x] \ {s}
    BY <1>7 DEF NotifyLeaveUser, Informed
  <2> QED BY <1>2, <1>3, <1>4, <1>6, <1>7, <2>1
<1>8. CASE x \notin Members(user_list_'[h])
  <2>1. NotifyLeaveUser(s, user_list_'[h])[x] = roster[x]
    BY <1>8 DEF NotifyLeaveUser
  <2>2. \A q \in Rooms \ {h} : s \notin Members(user_list_[q])
    BY <1>2, MembersAreInRoom
  <2>3. \A q \in Rooms \ {h} : Members(user_list_'[q]) = Members(user_list_[q])
    BY <1>3, <2>2
  <2> QED BY <1>2, <1>4, <1>5, <1>6, <1>8, <2>1, <2>3
<1> QED BY <1>7, <1>8

LEMMA HandlerRosters ==
  ASSUME TypeOK, TypeOK', PacketInHand, SlotsInv, UsersInv, RostersInv, HandleUserPacket
  PROVE  RostersInv'
<1>1. PICK c \in Sessions : c = current
  BY HandlerAnswers
<1>2. UNCHANGED <<conn, live>>
  BY HandlerAnswers
<1>3. c \in live /\ conn[c] = "open"
  BY <1>1, HandlerSlots
<1>4. HandlerServed
  BY HandlerServes
<1>5. CASE UNCHANGED <<roster, domain_state_, room_idx_, user_list_>>
  BY <1>2, <1>5 DEF RostersInv, RosterKnown, InRoom
<1>6. ASSUME NEW r \in Rooms, domain_state_[c] = "kLOGIN", EnterUser(c, r)
      PROVE  RostersInv'
  <2>1. ~InRoom(c)
    BY <1>6 DEF InRoom
  <2> QED BY <1>2, <1>3, <1>6, <2>1, NewcomerKnown
<1>7. CASE /\ domain_state_[c] = "kROOM"
           /\ LeaveUser(c)
           /\ domain_state_' = [domain_state_ EXCEPT ![c] = "kLOGIN"]
           /\ roster' = [NotifyLeaveUser(c, user_list_'[room_idx_[c]])
                           EXCEPT ![c] = Informed(c, {})]
           /\ UNCHANGED room_idx_
  <2>1. InRoom(c)
    BY <1>3, <1>7 DEF InRoom
  <2>2. ~InRoom(c)' /\ \A x \in Sessions \ {c} : InRoom(x)' <=> InRoom(x)
    BY <1>2, <1>7 DEF InRoom, TypeOK
  <2>3. RosterKnown(c)'
    <3>1. roster'[c] = {}
      BY <1>3, <1>7 DEF NotifyLeaveUser, Informed
    <3> QED BY <2>2, <3>1 DEF RosterKnown
  <2>4. ASSUME NEW x \in Sessions, x # c, conn[x] = "open"
        PROVE  roster'[x] = IF InRoom(x) THEN Members(user_list_'[room_idx_[x]]) ELSE {}
    <3>1. roster'[x] = NotifyLeaveUser(c, user_list_'[room_idx_[c]])[x]
      BY <1>7, <2>4 DEF NotifyLeaveUser
    <3> QED BY <1>7, <2>1, <2>4, <3>1, LeaverForgotten
  <2>5. \A x \in Sessions \ {c} : RosterKnown(x)'
    BY <1>2, <1>7, <2>2, <2>4 DEF RosterKnown
  <2> QED BY <2>3, <2>5 DEF RostersInv
<1> QED BY <1>1, <1>4, <1>5, <1>6, <1>7 DEF HandlerServed

LEMMA SystemRosters ==
  ASSUME TypeOK, TypeOK', SlotsInv, UsersInv, RostersInv, ServeSystemPacket
  PROVE  RostersInv'
<1>1. UNCHANGED conn /\ SystemServed
  BY SystemSlots
<1>2. CASE UNCHANGED <<client, packet_buf_, users>>
  BY <1>1, <1>2, RostersSame DEF client
<1>3. ASSUME NEW s \in Sessions, ConnectHandler(s), s \notin live PROVE RostersInv'
  <2>1. /\ UNCHANGED <<roster, user_list_>> /\ live' = live \cup {s}
        /\ domain_state_'[s] = "kNONE"
        /\ \A x \in Sessions \ {s} : /\ domain_state_'[x] = domain_state_[x]
                                     /\ room_idx_'[x] = room_idx_[x]
    BY <1>3 DEF ConnectHandler, client, TypeOK
  <2>2. ~InRoom(s) /\ \A x \in Sessions : InRoom(x)' <=> InRoom(x)
    BY <1>3, <2>1 DEF InRoom
  <2>3. RosterKnown(s)'
    BY <1>1, <2>1, <2>2 DEF RostersInv, RosterKnown
  <2>4. \A x \in Sessions \ {s} : RosterKnown(x)'
    BY <1>1, <2>1, <2>2 DEF RostersInv, RosterKnown
  <2> QED BY <2>3, <2>4 DEF RostersInv
<1>4. ASSUME NEW s \in Sessions, DisconnectHandler(s), s \in live, conn[s] # "open"
      PROVE  RostersInv'
  <2>1. UNCHANGED <<room_idx_, domain_state_>> /\ live' = live \ {s}
    BY <1>4 DEF DisconnectHandler
  <2>2. \A x \in Sessions \ {s} : InRoom(x)' <=> InRoom(x)
    BY <2>1 DEF InRoom
  <2>3. RosterKnown(s)'
    BY <1>1, <1>4 DEF RosterKnown
  <2>4. CASE domain_state_[s] = "kROOM"
    <3>1. /\ InRoom(s) /\ LeaveUser(s)
          /\ roster' = NotifyLeaveUser(s, user_list_'[room_idx_[s]])
      BY <1>4, <2>4 DEF DisconnectHandler, InRoom
    <3>2. ASSUME NEW x \in Sessions, x # s, conn[x] = "open"
          PROVE  roster'[x] = IF InRoom(x) THEN Members(user_list_'[room_idx_[x]]) ELSE {}
      BY <3>1, <3>2, LeaverForgotten
    <3>3. \A x \in Sessions \ {s} : RosterKnown(x)'
      BY <1>1, <2>1, <2>2, <3>2 DEF RosterKnown
    <3> QED BY <2>3, <3>3 DEF RostersInv
  <2>5. CASE domain_state_[s] # "kROOM"
    <3>1. UNCHANGED <<user_list_, roster>>
      BY <1>4, <2>5 DEF DisconnectHandler
    <3>2. \A x \in Sessions \ {s} : RosterKnown(x)'
      BY <1>1, <2>1, <2>2, <3>1 DEF RostersInv, RosterKnown
    <3> QED BY <2>3, <3>2 DEF RostersInv
  <2> QED BY <2>4, <2>5
<1> QED BY <1>1, <1>2, <1>3, <1>4 DEF SystemServed

LEMMA AnswerRosters ==
  ASSUME TypeOK, TypeOK', SlotsInv, UsersInv, RostersInv, ServeRedisAnswer
  PROVE  RostersInv'
<1>1. UNCHANGED conn /\ AnswerServed
  BY AnswerSlots
<1>2. CASE UNCHANGED <<client, users>>
  BY <1>1, <1>2, RostersSame DEF client
<1>3. ASSUME NEW s \in Sessions, NEW ok \in BOOLEAN, LoginDBResHandler(s, ok),
             LoginsInFlight(s) = 1
      PROVE  RostersInv'
  <2>1. UNCHANGED <<roster, room_idx_, user_list_, live>>
    BY <1>3 DEF LoginDBResHandler
  <2>2. domain_state_[s] = "kNONE"
    BY <1>3 DEF UsersInv, IdKnown
  <2>3. \A x \in Sessions : InRoom(x)' <=> InRoom(x)
    BY <1>3, <2>1, <2>2, SMTT(30) DEF LoginDBResHandler, InRoom, TypeOK
  <2> QED BY <1>1, <2>1, <2>3 DEF RostersInv, RosterKnown
<1> QED BY <1>1, <1>2, <1>3 DEF AnswerServed

-----------------------------------------------------------------------------
(* From the first state on. *)

LEMMA InitOrderly == Init => OrderlyInv
<1> SUFFICES ASSUME Init PROVE OrderlyInv
  OBVIOUS
<1>1. \A s \in Sessions : LoginsInFlight(s) = 0
  BY FS_EmptySet DEF Init, LoginsInFlight
<1>2. \A s \in Sessions : Owed(s) = 0 /\ ~Completing(s)
  BY <1>1 DEF Init, Owed, Completing
<1>3. SlotsInv
  BY <1>2 DEF Init, SlotsInv, QueueInOrder, SlotInOrder, OneRequest, ConnectQueued,
              DisconnectQueued, Queued
<1>4. \A s \in Sessions : ~LoggedIn(s) /\ ~InRoom(s)
  BY DEF Init, LoggedIn, InRoom
<1>5. OneAsks
  BY <1>1 DEF Init, OneAsks, AsksFor
<1>6. \A s \in Sessions : IdKnown(s) /\ LoginWaits(s)
  BY <1>1, <1>4 DEF Init, IdKnown, LoginWaits
<1>7. MapMatchesUsers
  BY <1>4, NamesAssumption DEF Init, MapMatchesUsers
<1>8. RoomsMatchUsers
  BY DEF Init, RoomsMatchUsers
<1>9. RostersInv
  BY DEF Init, RostersInv, RosterKnown
<1> QED BY <1>3, <1>4, <1>5, <1>6, <1>7, <1>8, <1>9 DEF OrderlyInv, UsersInv

\* Every step is a report of the network, a request, a handler, a system
\* packet, an answer of Redis, or none of these.
LEMMA StepForms ==
  ASSUME [Next]_vars
  PROVE  \/ Internal \/ HandleUserPacket \/ ServeSystemPacket \/ ServeRedisAnswer
         \/ \E s \in Sessions : OnConnect(s) \/ OnDisconnect(s) \/ EnqueuePacketData(s)
BY DEF Next, PacketProcessThread, Internal

LEMMA OrderlyStep ==
  ASSUME Liberties \subseteq {"unknown"}, TypeOK, PacketInHand, TypeOK', OrderlyInv,
         [Next]_vars
  PROVE  OrderlyInv'
<1>1. SlotsInv /\ UsersInv /\ RostersInv
  BY DEF OrderlyInv
<1>2. CASE Internal
  <2>1. UNCHANGED <<conn, roster, users>>
    BY <1>2, InternalStep DEF client
  <2> QED BY <1>1, <1>2, <2>1, InternalSlots, InternalUsers, RostersSame DEF OrderlyInv
<1>3. CASE HandleUserPacket
  BY <1>1, <1>3, HandlerSlots, HandlerUsers, HandlerRosters DEF OrderlyInv
<1>4. CASE ServeSystemPacket
  BY <1>1, <1>4, SystemSlots, SystemUsers, SystemRosters DEF OrderlyInv
<1>5. CASE ServeRedisAnswer
  BY <1>1, <1>5, AnswerSlots, AnswerUsers, AnswerRosters DEF OrderlyInv
<1>6. ASSUME NEW s \in Sessions, OnConnect(s) \/ OnDisconnect(s) PROVE OrderlyInv'
  BY <1>1, <1>6, ReportsSlots, ReportsUsers, ReportsRosters DEF OrderlyInv
<1>7. ASSUME NEW s \in Sessions, EnqueuePacketData(s) PROVE OrderlyInv'
  <2>1. UNCHANGED <<conn, roster, users>>
    BY <1>1, <1>7, RequestSlots
  <2> QED BY <1>1, <1>7, <2>1, RequestSlots, RequestUsers, RostersSame DEF OrderlyInv
<1> QED BY <1>2, <1>3, <1>4, <1>5, <1>6, <1>7, StepForms

\* The invariant of both, for the theorems below.
LEMMA OrderlyAlways ==
  ASSUME Liberties \subseteq {"unknown"}
  PROVE  Spec => [](IInv /\ OrderlyInv)
<1>1. IInv => TypeOK /\ PacketInHand
  BY DEF IInv
<1>2. TypeOK /\ PacketInHand /\ TypeOK' /\ OrderlyInv /\ [Next]_vars => OrderlyInv'
  BY OrderlyStep
<1> QED BY <1>1, <1>2, InitIInv, NextIInv, InitOrderly, PTL DEF Spec

-----------------------------------------------------------------------------
(* The content layer as ChatService. *)

\* What the service shows of the sessions changes only where their login or
\* their room does.
LEMMA ServiceSame ==
  ASSUME \A x \in Sessions : /\ LoggedIn(x)' <=> LoggedIn(x)
                             /\ LoggedIn(x) => user_id_'[x] = user_id_[x]
                             /\ InRoom(x)' <=> InRoom(x)
                             /\ InRoom(x) => room_idx_'[x] = room_idx_[x]
  PROVE  UNCHANGED <<Who, Place>>
BY DEF Who, Place, InRoom

\* A room with space for one more entry has space for one more session.
LEMMA SpaceForSession ==
  ASSUME TypeOK, UsersInv, NEW r \in Rooms, HasSpace(r)
  PROVE  Cardinality({x \in Sessions : Place[x] = r}) < kROOM_MAX_USER_CNT
<1> DEFINE In == {x \in Sessions : Place[x] = r}
           list == user_list_[r]
           first == [e \in Entries(list) |-> e[1]]
<1>1. list \in [Sessions -> Nat]
  BY DEF TypeOK
<1>2. \A x \in Sessions : x \in In <=> list[x] = 1
  BY NamesAssumption DEF UsersInv, RoomsMatchUsers, Place
<1>3. \A x \in Sessions : list[x] \in {0, 1}
  BY DEF UsersInv, RoomsMatchUsers
<1>4. \A e \in Entries(list) : e[1] \in In
  <2>1. SUFFICES ASSUME NEW x \in Sessions, NEW n \in 1 .. list[x] PROVE x \in In
    BY DEF Entries
  <2> HIDE DEF In, list
  <2> QED BY <1>2, <1>3, <2>1
<1>5. \A x \in In : <<x, 1>> \in Entries(list)
  <2>1. SUFFICES ASSUME NEW x \in Sessions, list[x] = 1 PROVE <<x, 1>> \in Entries(list)
    BY <1>2
  <2>2. <<x, 1>> \in {x} \X (1 .. list[x])
    BY <2>1
  <2> QED BY <2>2 DEF Entries
<1> HIDE DEF In
<1>6. first \in Surjection(Entries(list), In)
  <2>1. first \in [Entries(list) -> In]
    BY <1>4
  <2>2. \A x \in In : \E e \in Entries(list) : first[e] = x
    <3>1. ASSUME NEW x \in In PROVE first[<<x, 1>>] = x
      BY <1>5
    <3> QED BY <1>5, <3>1
  <2> HIDE DEF first, list
  <2> QED BY <2>1, <2>2 DEF Surjection
<1>7. IsFiniteSet(Entries(list))
  BY <1>1, EntriesFinite
<1> HIDE DEF first
<1>8. /\ Cardinality(In) <= Cardinality(Entries(list))
      /\ Cardinality(In) \in Nat /\ Cardinality(Entries(list)) \in Nat
  BY <1>6, <1>7, FS_Surjection, FS_CardinalityType
<1>9. Cardinality(Entries(list)) < kROOM_MAX_USER_CNT
  BY DEF HasSpace, UserCount
<1> HIDE DEF list
<1>10. Cardinality(In) < kROOM_MAX_USER_CNT
  BY <1>8, <1>9, BoundsAssumption
<1> QED BY <1>10 DEF In

LEMMA HandlerImplements ==
  ASSUME TypeOK, TypeOK', PacketInHand, SlotsInv, UsersInv, HandleUserPacket
  PROVE  [Service!ServiceNext]_<<Who, Place>>
<1>1. PICK c \in Sessions : c = current
  BY HandlerAnswers
<1>2. UNCHANGED live /\ c \in live /\ LoginsInFlight(c) = 0
  BY <1>1, HandlerAnswers, HandlerSlots
<1>3. HandlerServed
  BY HandlerServes
<1>4. CASE UNCHANGED <<domain_state_, user_id_, room_idx_>>
  BY <1>2, <1>4, ServiceSame DEF LoggedIn, InRoom
<1>5. ASSUME NEW u \in UserIds,
             packet_buf_[c][1] = [id |-> "kLOGIN_REQUEST", body |-> u],
             user_id_' = [user_id_ EXCEPT ![c] = u],
             UNCHANGED <<domain_state_, room_idx_>>
      PROVE  UNCHANGED <<Who, Place>>
  <2>1. domain_state_[c] = "kNONE"
    <3>1. packet_buf_[c] \in Seq(Requests) /\ packet_buf_[c] # <<>>
      BY <1>1, HandlerAnswers DEF TypeOK
    <3>2. 1 \in DOMAIN packet_buf_[c]
      BY <3>1, EmptySeq, LenProperties
    <3>3. ~Completing(c)
      BY DEF HandleUserPacket, Completing
    <3> QED BY <1>5, <3>2, <3>3 DEF UsersInv, LoginWaits
  <2>2. ~LoggedIn(c) /\ \A x \in Sessions \ {c} : user_id_'[x] = user_id_[x]
    BY <1>5, <2>1 DEF LoggedIn, TypeOK
  <2> QED BY <1>2, <1>5, <2>2, ServiceSame DEF LoggedIn, InRoom
<1>6. ASSUME NEW r \in Rooms, domain_state_[c] = "kLOGIN", HasSpace(r), EnterUser(c, r),
             UNCHANGED user_id_
      PROVE  Service!Enter(c, r)
  <2>1. /\ room_idx_' = [room_idx_ EXCEPT ![c] = r]
        /\ domain_state_' = [domain_state_ EXCEPT ![c] = "kROOM"]
    BY <1>6 DEF EnterUser
  <2>2. Who[c] # NoId
    <3>1. LoggedIn(c)
      BY <1>2, <1>6 DEF LoggedIn
    <3> QED BY <3>1, NamesAssumption DEF UsersInv, IdKnown, Who
  <2>3. Place[c] = NoRoom
    BY <1>6 DEF Place
  <2>4. Who' = Who
    <3>1. \A x \in Sessions : LoggedIn(x)' <=> LoggedIn(x)
      BY <1>2, <1>6, <2>1 DEF LoggedIn, TypeOK
    <3> QED BY <1>6, <3>1 DEF Who
  <2>5. Place' = [Place EXCEPT ![c] = r]
    <3>1. /\ c \in live /\ domain_state_'[c] = "kROOM" /\ room_idx_'[c] = r
          /\ \A x \in Sessions \ {c} : /\ domain_state_'[x] = domain_state_[x]
                                       /\ room_idx_'[x] = room_idx_[x]
      BY <1>2, <2>1 DEF TypeOK
    <3> QED BY <1>2, <3>1 DEF Place
  <2>6. Cardinality({x \in Sessions : Place[x] = r}) < kROOM_MAX_USER_CNT
    BY <1>6, SpaceForSession
  <2>7. \A S : Service!Cardinality(S) = Cardinality(S)
    BY DEF Service!Cardinality, Cardinality
  <2> QED BY <2>2, <2>3, <2>4, <2>5, <2>6, <2>7 DEF Service!Enter
<1>7. ASSUME domain_state_[c] = "kROOM",
             domain_state_' = [domain_state_ EXCEPT ![c] = "kLOGIN"],
             UNCHANGED <<user_id_, room_idx_>>
      PROVE  Service!Leave(c)
  <2>1. Place[c] # NoRoom
    <3>1. InRoom(c)
      BY <1>2, <1>7 DEF InRoom
    <3> QED BY <3>1, NamesAssumption DEF UsersInv, InRoom, Place
  <2>2. Who' = Who
    <3>1. \A x \in Sessions : LoggedIn(x)' <=> LoggedIn(x)
      BY <1>2, <1>7 DEF LoggedIn, TypeOK
    <3> QED BY <1>7, <3>1 DEF Who
  <2>3. Place' = [Place EXCEPT ![c] = NoRoom]
    BY <1>2, <1>7 DEF Place, TypeOK
  <2> QED BY <2>1, <2>2, <2>3 DEF Service!Leave
<1> QED BY <1>1, <1>3, <1>4, <1>5, <1>6, <1>7 DEF HandlerServed, Service!ServiceNext

LEMMA SystemImplements ==
  ASSUME TypeOK, TypeOK', SlotsInv, UsersInv, ServeSystemPacket
  PROVE  [Service!ServiceNext]_<<Who, Place>>
<1>1. SystemServed
  BY SystemSlots
<1>2. CASE UNCHANGED users
  BY <1>2, ServiceSame DEF users, LoggedIn, InRoom
<1>3. ASSUME NEW s \in Sessions, ConnectHandler(s), s \notin live
      PROVE  UNCHANGED <<Who, Place>>
  <2>1. /\ domain_state_'[s] = "kNONE" /\ live' = live \cup {s}
        /\ \A x \in Sessions \ {s} : /\ domain_state_'[x] = domain_state_[x]
                                     /\ user_id_'[x] = user_id_[x]
                                     /\ room_idx_'[x] = room_idx_[x]
    BY <1>3 DEF ConnectHandler, TypeOK
  <2> QED BY <1>3, <2>1, ServiceSame DEF LoggedIn, InRoom
<1>4. ASSUME NEW s \in Sessions, DisconnectHandler(s), s \in live
      PROVE  [Service!ServiceNext]_<<Who, Place>>
  <2>1. UNCHANGED <<room_idx_, user_id_, domain_state_>> /\ live' = live \ {s}
    BY <1>4 DEF DisconnectHandler
  <2>2. CASE LoggedIn(s)
    <3>1. Who[s] # NoId
      BY <2>2, NamesAssumption DEF UsersInv, IdKnown, Who
    <3>2. /\ Who' = [Who EXCEPT ![s] = NoId]
          /\ Place' = [Place EXCEPT ![s] = NoRoom]
      BY <2>1 DEF Who, Place, LoggedIn
    <3>3. Service!Drop(s)
      BY <3>1, <3>2 DEF Service!Drop
    <3> QED BY <3>3 DEF Service!ServiceNext
  <2>3. CASE ~LoggedIn(s)
    <3>1. domain_state_[s] = "kNONE"
      BY <1>4, <2>3 DEF LoggedIn
    <3> QED BY <2>1, <3>1, ServiceSame DEF LoggedIn, InRoom
  <2> QED BY <2>2, <2>3
<1> QED BY <1>1, <1>2, <1>3, <1>4 DEF SystemServed

LEMMA AnswerImplements ==
  ASSUME TypeOK, TypeOK', SlotsInv, UsersInv, ServeRedisAnswer
  PROVE  [Service!ServiceNext]_<<Who, Place>>
<1>1. AnswerServed
  BY AnswerSlots
<1>2. CASE UNCHANGED users
  BY <1>2, ServiceSame DEF users, LoggedIn, InRoom
<1>3. ASSUME NEW s \in Sessions, NEW ok \in BOOLEAN, LoginDBResHandler(s, ok), s \in live,
             LoginsInFlight(s) = 1
      PROVE  [Service!ServiceNext]_<<Who, Place>>
  <2>1. /\ domain_state_[s] = "kNONE" /\ user_id_[s] \in UserIds
        /\ user_id_map_[user_id_[s]] = NoSession
    BY <1>3 DEF UsersInv, IdKnown
  <2>2. UNCHANGED <<room_idx_, live>> /\ ~LoggedIn(s)
    BY <1>3, <2>1 DEF LoginDBResHandler, LoggedIn
  <2>3. CASE ok
    <3>1. domain_state_' = [domain_state_ EXCEPT ![s] = "kLOGIN"] /\ UNCHANGED user_id_
      BY <1>3, <2>3 DEF LoginDBResHandler
    <3>2. Who[s] = NoId
      BY <2>2 DEF Who
    <3>3. \A x \in Sessions : Who[x] # user_id_[s]
      <4>1. ASSUME NEW x \in Sessions, LoggedIn(x) PROVE user_id_[x] # user_id_[s]
        BY <2>1, <4>1, NamesAssumption DEF UsersInv, MapMatchesUsers, Ids
      <4> QED BY <2>1, <4>1, NamesAssumption DEF Who
    <3>4. Who' = [Who EXCEPT ![s] = user_id_[s]]
      <4>1. LoggedIn(s)' /\ \A x \in Sessions \ {s} : LoggedIn(x)' <=> LoggedIn(x)
        BY <1>3, <2>2, <3>1 DEF LoggedIn, TypeOK
      <4> QED BY <3>1, <4>1 DEF Who
    <3>5. Place' = Place
      <4>1. \A x \in Sessions : InRoom(x)' <=> InRoom(x)
        BY <2>1, <2>2, <3>1 DEF InRoom, TypeOK
      <4> QED BY <2>2, <4>1 DEF Place, InRoom
    <3>6. Service!LogIn(s, user_id_[s])
      BY <3>2, <3>3, <3>4, <3>5 DEF Service!LogIn
    <3> QED BY <2>1, <3>6 DEF Service!ServiceNext
  <2>4. CASE ~ok
    <3>1. /\ UNCHANGED domain_state_
          /\ \A x \in Sessions \ {s} : user_id_'[x] = user_id_[x]
      BY <1>3, <2>4 DEF LoginDBResHandler, TypeOK
    <3> QED BY <2>2, <3>1, ServiceSame DEF LoggedIn, InRoom
  <2> QED BY <2>3, <2>4
<1> QED BY <1>1, <1>2, <1>3 DEF AnswerServed

LEMMA ServiceStep ==
  ASSUME Liberties \subseteq {"unknown"}, TypeOK, PacketInHand, TypeOK', OrderlyInv,
         [Next]_vars
  PROVE  [Service!ServiceNext]_<<Who, Place>>
<1>1. SlotsInv /\ UsersInv
  BY DEF OrderlyInv
<1>2. CASE UNCHANGED users
  BY <1>2, ServiceSame DEF users, LoggedIn, InRoom
<1>3. CASE Internal
  BY <1>2, <1>3, InternalStep
<1>4. CASE \E s \in Sessions : OnConnect(s) \/ OnDisconnect(s) \/ EnqueuePacketData(s)
  BY <1>2, <1>4 DEF OnConnect, OnDisconnect, EnqueuePacketData
<1> QED BY <1>1, <1>3, <1>4, StepForms, HandlerImplements, SystemImplements,
           AnswerImplements

LEMMA InitService == Init => Service!ServiceInit
BY DEF Init, Service!ServiceInit, Who, Place, LoggedIn

-----------------------------------------------------------------------------
(* The theorems. *)

\* With orderly clients every room lists exactly the users that are in it, once
\* each, for any number of rooms, sessions and connections: no order of
\* entering, leaving and ending leaves a user behind (README.md:49-60,
\* room.cpp:22-48).
THEOREM RoomsFollowUsers ==
  ASSUME Liberties \subseteq {"unknown"}
  PROVE  Spec => []RoomsMatchUsers
<1>1. OrderlyInv => RoomsMatchUsers
  BY DEF OrderlyInv, UsersInv
<1> QED BY <1>1, OrderlyAlways, PTL

\* With orderly clients an id is registered exactly while the session that
\* logged in with it is connected (user_manager.cpp:31-66), for any number of
\* sessions that log in and end side by side. No disconnect comes here while
\* Redis is asked, and no two sessions ask for one id: either would break it
\* (packet_manager.cpp:227, 252).
THEOREM IdsFollowUsers ==
  ASSUME Liberties \subseteq {"unknown"}
  PROVE  Spec => []MapMatchesUsers
<1>1. OrderlyInv => MapMatchesUsers
  BY DEF OrderlyInv, UsersInv
<1> QED BY <1>1, OrderlyAlways, PTL

\* With orderly clients what a client was told adds up to its room's list, for
\* any number of members (room.cpp:59-117).
THEOREM RostersFollowRooms ==
  ASSUME Liberties \subseteq {"unknown"}
  PROVE  Spec => []RostersAgree
<1>1. IInv /\ OrderlyInv => RostersAgree
  <2>1. live \subseteq Sessions /\ RostersInv => RostersAgree
    BY DEF RostersInv, RosterKnown, InRoom, RostersAgree
  <2> QED BY <2>1 DEF IInv, TypeOK, OrderlyInv
<1> QED BY <1>1, OrderlyAlways, PTL

\* With orderly clients the README's word holds: no two sessions are logged in
\* with one id (README.md:77-80), and who is gone is in no room
\* (README.md:57-59). The README states no such condition; MCContentRace and
\* MCContentHangup show that the code needs it.
THEOREM ReadmeKept ==
  ASSUME Liberties \subseteq {"unknown"}
  PROVE  Spec => [](OneSessionPerId /\ NoMemberAfterDisconnect)
<1>1. IInv /\ OrderlyInv => OneSessionPerId /\ NoMemberAfterDisconnect
  <2>1. TypeOK /\ MapMatchesUsers => OneSessionPerId
    BY DEF TypeOK, MapMatchesUsers, OneSessionPerId
  <2>2. RoomsMatchUsers => NoMemberAfterDisconnect
    BY DEF RoomsMatchUsers, NoMemberAfterDisconnect
  <2> QED BY <2>1, <2>2 DEF IInv, OrderlyInv, UsersInv
<1> QED BY <1>1, OrderlyAlways, PTL

\* With orderly clients the content layer implements ChatService, for any number
\* of sessions, ids and rooms and any limit: every step of its threads logs
\* one session in with a free id, lets one that is logged in into a room with
\* space, takes one out, ends one, or shows no change.
THEOREM ContentImplementsService ==
  ASSUME Liberties \subseteq {"unknown"}
  PROVE  Spec => ImplementsService
<1>1. IInv => TypeOK /\ PacketInHand
  BY DEF IInv
<1>2. TypeOK /\ PacketInHand /\ TypeOK' /\ OrderlyInv /\ [Next]_vars =>
        [Service!ServiceNext]_<<Who, Place>>
  BY ServiceStep
<1> QED BY <1>1, <1>2, OrderlyAlways, InitService, PTL
        DEF Spec, ImplementsService, Service!ServiceSpec
=============================================================================
