------------------------ MODULE PacketManager_proofs ------------------------
(* What holds of PacketManager for every number of sessions, ids, rooms and  *)
(* requests, and whatever liberties clients and timing take.                 *)
EXTENDS PacketManager, SequenceTheorems, FiniteSetTheorems, TLAPS

\* While the packet thread is handling or completing a packet, there is one:
\* only the thread itself takes packets out of a buffer.
PacketInHand ==
  pc \in {"handle", "complete"} => current \in Sessions /\ packet_buf_[current] # <<>>

\* TypeOK and NoStrandedPacket are not inductive without PacketInHand: the
\* handlers and CompleteProcess take the head of packet_buf_[current].
IInv == TypeOK /\ PacketInHand /\ NoStrandedPacket

-----------------------------------------------------------------------------
(* The rooms and the clients: what the helpers of the handlers return. *)

\* What a client knows of a room is a set of sessions, whatever the list is.
LEMMA NotificationsType ==
  ASSUME TypeOK, NEW s \in Sessions, NEW list
  PROVE  /\ NotifyEntered(s, list) \in [Sessions -> SUBSET Sessions]
         /\ NotifyLeaveUser(s, list) \in [Sessions -> SUBSET Sessions]
         /\ Informed(s, {}) \in SUBSET Sessions
<1>1. Members(list) \in SUBSET Sessions
  BY DEF Members
<1>2. \A x \in Sessions : roster[x] \in SUBSET Sessions
  BY DEF TypeOK
<1>3. \A x \in Sessions, m \in SUBSET Sessions : Informed(x, m) \in SUBSET Sessions
  BY <1>2 DEF Informed
<1>4. NotifyEntered(s, list) \in [Sessions -> SUBSET Sessions]
  <2>1. ASSUME NEW x \in Sessions
        PROVE  (CASE x = s                            -> Informed(s, Members(list))
                  [] x # s /\ x \in Members(list)     -> Informed(x, roster[x] \cup {s})
                  [] x # s /\ x \notin Members(list)  -> roster[x]) \in SUBSET Sessions
    <3>1. roster[x] \cup {s} \in SUBSET Sessions
      BY <1>2
    <3>2. CASE x = s
      BY <3>2, <1>1, <1>3
    <3>3. CASE x # s /\ x \in Members(list)
      BY <3>3, <3>1, <1>3
    <3>4. CASE x # s /\ x \notin Members(list)
      BY <3>4, <1>2
    <3> QED BY <3>2, <3>3, <3>4
  <2> QED BY <2>1 DEF NotifyEntered
<1>5. NotifyLeaveUser(s, list) \in [Sessions -> SUBSET Sessions]
  <2>1. ASSUME NEW x \in Sessions PROVE Informed(x, roster[x] \ {s}) \in SUBSET Sessions
    <3>1. roster[x] \ {s} \in SUBSET Sessions
      BY <1>2
    <3> QED BY <3>1, <1>3
  <2> QED BY <2>1, <1>2 DEF NotifyLeaveUser
<1> QED BY <1>3, <1>4, <1>5

\* std::erase_if leaves a list of users, in whatever room the user claims to be.
LEMMA LeaveUserType ==
  ASSUME TypeOK, NEW s \in Sessions, LeaveUser(s)
  PROVE  user_list_' \in [Rooms -> [Sessions -> Nat]]
<1>1. \A r \in Rooms : WithoutUser(s, user_list_[r]) \in [Sessions -> Nat]
  BY DEF TypeOK, WithoutUser
<1> QED BY <1>1 DEF TypeOK, LeaveUser

LEMMA ReplyType ==
  ASSUME TypeOK, NEW s \in Sessions, Reply(s)
  PROVE  awaiting' \in [Sessions -> Int]
BY DEF TypeOK, Reply

-----------------------------------------------------------------------------
(* Type correctness, one lemma for each kind of step. *)

LEMMA CallbacksType ==
  ASSUME TypeOK, NEW s \in Sessions,
         OnConnect(s) \/ OnDisconnect(s) \/ EnqueuePacketData(s) \/ PushUserIndex(s)
  PROVE  TypeOK'
<1>1. CASE OnConnect(s)
  <2>1. [id |-> "kSYS_USER_CONNECT", session_index |-> s] \in SystemPackets
    BY DEF SystemPackets
  <2>2. system_packet_queue_' \in Seq(SystemPackets)
    BY <1>1, <2>1, AppendProperties DEF OnConnect, TypeOK
  <2>3. connects' \in 0 .. MaxConnects
    BY <1>1, BoundsAssumption DEF OnConnect, Calls!Connect, TypeOK
  <2> QED BY <1>1, <2>2, <2>3 DEF OnConnect, Calls!Connect, TypeOK, thread, users
<1>2. CASE OnDisconnect(s)
  <2>1. [id |-> "kSYS_USER_DISCONNECT", session_index |-> s] \in SystemPackets
    BY DEF SystemPackets
  <2>2. system_packet_queue_' \in Seq(SystemPackets)
    BY <1>2, <2>1, AppendProperties DEF OnDisconnect, TypeOK
  <2>3. conn' \in [Sessions -> {"free", "open", "closed"}]
    BY <1>2 DEF OnDisconnect, Calls!Disconnect, TypeOK
  <2>4. awaiting' \in [Sessions -> Int] /\ roster' \in [Sessions -> SUBSET Sessions]
    BY <1>2 DEF OnDisconnect, Calls!Disconnect, TypeOK
  <2> QED BY <1>2, <2>2, <2>3, <2>4
          DEF OnDisconnect, Calls!Disconnect, TypeOK, thread, users
<1>3. CASE EnqueuePacketData(s)
  <2>1. PICK n \in 1 .. (IF "pipeline" \in Liberties THEN MaxChunk ELSE 1) :
          /\ requests + n <= MaxRequests
          /\ \E packets \in [1 .. n -> Requests] :
               packet_buf_' = [packet_buf_ EXCEPT ![s] = @ \o packets]
          /\ requests' = requests + n
          /\ awaiting' = IF conn[s] = "open" THEN [awaiting EXCEPT ![s] = @ + n]
                                             ELSE awaiting
    BY <1>3 DEF EnqueuePacketData, Calls!RecvBegins
  <2>2. n \in Nat
    BY <2>1, BoundsAssumption
  <2>3. packet_buf_' \in [Sessions -> Seq(Requests)]
    <3>1. PICK packets \in [1 .. n -> Requests] :
            packet_buf_' = [packet_buf_ EXCEPT ![s] = @ \o packets]
      BY <2>1
    <3>2. packets \in Seq(Requests)
      BY <2>2, SeqDef
    <3>3. packet_buf_[s] \o packets \in Seq(Requests)
      BY <3>2, ConcatProperties DEF TypeOK
    <3> QED BY <3>1, <3>3 DEF TypeOK
  <2>4. requests' \in 0 .. MaxRequests
    BY <2>1, <2>2, BoundsAssumption DEF TypeOK
  <2>5. awaiting' \in [Sessions -> Int]
    BY <2>1, <2>2 DEF TypeOK
  <2> QED BY <1>3, <2>3, <2>4, <2>5
          DEF EnqueuePacketData, Calls!RecvBegins, TypeOK, queues, thread, users
<1>4. CASE PushUserIndex(s)
  <2>1. incoming_packet_user_index_queue_' \in Seq(Sessions)
    BY <1>4, AppendProperties DEF PushUserIndex, TypeOK
  <2> QED BY <1>4, <2>1 DEF PushUserIndex, Calls!RecvEnds, TypeOK, client, thread, users
<1> QED BY <1>1, <1>2, <1>3, <1>4

LEMMA HandleType ==
  ASSUME TypeOK, PacketInHand, HandleUserPacket
  PROVE  TypeOK'
<1> DEFINE packet == Head(packet_buf_[current])
<1>1. pc = "handle" /\ current \in Sessions /\ packet_buf_[current] # <<>>
  BY DEF HandleUserPacket, PacketInHand
<1>2. packet \in Requests
  BY <1>1, HeadTailProperties DEF TypeOK
<1>3. UNCHANGED <<conn, receiving, requests, connects, packet_buf_,
                  incoming_packet_user_index_queue_, system_packet_queue_,
                  task_res_queue_, current, live>> /\ pc' = "complete"
  BY DEF HandleUserPacket, network
<1>4. CASE packet.id = "kLOGIN_REQUEST"
  <2>1. packet.body \in UserIds /\ LoginHandler(current, packet.body)
    BY <1>2, <1>4 DEF Requests, HandleUserPacket
  <2>2. user_id_' \in [Sessions -> Ids]
    BY <1>1, <2>1 DEF LoginHandler, AskRedis, TypeOK, Ids
  <2>3. task_req_queue_' \in Seq(Sessions)
    <3>1. task_req_queue_' \in {task_req_queue_, Append(task_req_queue_, current)}
      BY <2>1 DEF LoginHandler, AskRedis
    <3>2. task_req_queue_ \in Seq(Sessions)
      BY DEF TypeOK
    <3> QED BY <1>1, <3>1, <3>2, AppendProperties
  <2>4. awaiting' \in [Sessions -> Int]
    BY <1>1, <2>1, ReplyType DEF LoginHandler, AskRedis, TypeOK
  <2> QED BY <1>3, <2>1, <2>2, <2>3, <2>4 DEF LoginHandler, TypeOK
<1>5. CASE packet.id = "kROOM_ENTER_REQUEST"
  <2>1. packet.body \in Rooms \cup {NoRoom} /\ EnterRoomHandler(current, packet.body)
    BY <1>2, <1>5 DEF Requests, HandleUserPacket
  <2>2. awaiting' \in [Sessions -> Int]
    BY <1>1, <2>1, ReplyType DEF EnterRoomHandler
  <2>3. CASE EnterUser(current, packet.body) /\ packet.body \in Rooms
    <3>1. roster' \in [Sessions -> SUBSET Sessions]
      BY <1>1, <2>3, NotificationsType DEF EnterUser
    <3>2. user_list_' \in [Rooms -> [Sessions -> Nat]]
      BY <1>1, <2>3, SMTT(30) DEF EnterUser, TypeOK
    <3>3. /\ room_idx_' \in [Sessions -> Rooms \cup {NoRoom}]
          /\ domain_state_' \in [Sessions -> {"kNONE", "kLOGIN", "kROOM"}]
      BY <1>1, <2>3 DEF EnterUser, TypeOK
    <3> QED BY <1>3, <2>1, <2>2, <3>1, <3>2, <3>3 DEF EnterRoomHandler, TypeOK
  <2>4. CASE UNCHANGED <<user_list_, room_idx_, domain_state_, roster>>
    BY <1>3, <2>1, <2>2, <2>4 DEF EnterRoomHandler, TypeOK
  <2> QED BY <2>1, <2>3, <2>4 DEF EnterRoomHandler
<1>6. CASE packet.id = "kROOM_LEAVE_REQUEST"
  <2>1. LeaveRoomHandler(current)
    BY <1>6 DEF HandleUserPacket
  <2>2. awaiting' \in [Sessions -> Int]
    BY <1>1, <2>1, ReplyType DEF LeaveRoomHandler
  <2>3. CASE domain_state_[current] = "kROOM"
    <3>1. user_list_' \in [Rooms -> [Sessions -> Nat]]
      BY <1>1, <2>1, <2>3, LeaveUserType DEF LeaveRoomHandler
    <3>2. domain_state_' \in [Sessions -> {"kNONE", "kLOGIN", "kROOM"}]
      <4>1. domain_state_' = [domain_state_ EXCEPT ![current] = "kLOGIN"]
        BY <2>1, <2>3 DEF LeaveRoomHandler
      <4> QED BY <4>1 DEF TypeOK
    <3>3. roster' \in [Sessions -> SUBSET Sessions]
      <4> DEFINE told == NotifyLeaveUser(current, user_list_'[room_idx_[current]])
      <4>1. told \in [Sessions -> SUBSET Sessions]
        BY <1>1, NotificationsType
      <4>2. roster' = [told EXCEPT ![current] = Informed(current, {})]
        BY <2>1, <2>3 DEF LeaveRoomHandler
      <4>3. Informed(current, {}) \in SUBSET Sessions
        BY <1>1, NotificationsType
      <4> HIDE DEF told
      <4> QED BY <4>1, <4>2, <4>3
    <3> QED BY <1>3, <2>1, <2>2, <3>1, <3>2, <3>3 DEF LeaveRoomHandler, TypeOK
  <2>4. CASE domain_state_[current] # "kROOM"
    BY <1>3, <2>1, <2>2, <2>4 DEF LeaveRoomHandler, TypeOK
  <2> QED BY <2>3, <2>4
<1>7. CASE packet.id = "kROOM_CHAT_REQUEST"
  <2>1. RoomChatHandler(current)
    BY <1>7 DEF HandleUserPacket
  <2>2. awaiting' \in [Sessions -> Int]
    BY <1>1, <2>1, ReplyType DEF RoomChatHandler
  <2> QED BY <1>3, <2>1, <2>2 DEF RoomChatHandler, TypeOK
<1>8. packet.id \in {"kLOGIN_REQUEST", "kROOM_ENTER_REQUEST", "kROOM_LEAVE_REQUEST",
                    "kROOM_CHAT_REQUEST"}
  BY <1>2 DEF Requests, HandleUserPacket, HasHandler
<1> QED BY <1>4, <1>5, <1>6, <1>7, <1>8

LEMMA SystemType ==
  ASSUME TypeOK, ServeSystemPacket
  PROVE  TypeOK'
<1> DEFINE packet == Head(system_packet_queue_)
<1>1. /\ pc' = "redis"
      /\ UNCHANGED <<conn, receiving, requests, connects,
                     incoming_packet_user_index_queue_, task_req_queue_,
                     task_res_queue_, current>>
  BY DEF ServeSystemPacket, network
<1>2. CASE system_packet_queue_ = <<>>
  BY <1>1, <1>2 DEF ServeSystemPacket, TypeOK, client, users
<1>3. CASE system_packet_queue_ # <<>>
  <2>1. packet.session_index \in Sessions /\ system_packet_queue_' \in Seq(SystemPackets)
    <3>1. packet \in SystemPackets /\ Tail(system_packet_queue_) \in Seq(SystemPackets)
      BY <1>3, HeadTailProperties DEF TypeOK
    <3>2. system_packet_queue_' = Tail(system_packet_queue_)
      BY <1>3 DEF ServeSystemPacket
    <3> QED BY <3>1, <3>2 DEF SystemPackets
  <2> DEFINE s == packet.session_index
  <2>2. s \in Sessions
    BY <2>1
  <2>3. ConnectHandler(s) \/ DisconnectHandler(s)
    BY <1>3 DEF ServeSystemPacket
  <2> HIDE DEF s
  <2>4. CASE ConnectHandler(s)
    <3>1. packet_buf_' \in [Sessions -> Seq(Requests)]
      BY <2>2, <2>4, EmptySeq DEF ConnectHandler, TypeOK
    <3> QED BY <1>1, <2>1, <2>2, <2>4, <3>1 DEF ConnectHandler, TypeOK, Ids, client
  <2>5. CASE DisconnectHandler(s)
    <3>1. user_id_map_' \in [Ids -> Sessions \cup {NoSession}]
      BY <2>5 DEF DisconnectHandler, DeleteUserInfo, TypeOK
    <3>2. user_list_' \in [Rooms -> [Sessions -> Nat]]
      BY <2>2, <2>5, LeaveUserType DEF DisconnectHandler, TypeOK
    <3>3. roster' \in [Sessions -> SUBSET Sessions]
      BY <2>2, <2>5, NotificationsType, SMTT(30) DEF DisconnectHandler, TypeOK
    <3> QED BY <1>1, <2>1, <2>5, <3>1, <3>2, <3>3 DEF DisconnectHandler, TypeOK
  <2> QED BY <2>3, <2>4, <2>5
<1> QED BY <1>2, <1>3

LEMMA AnswerType ==
  ASSUME TypeOK, ServeRedisAnswer
  PROVE  TypeOK'
<1> DEFINE answer == Head(task_res_queue_)
<1>1. /\ pc' = "user"
      /\ UNCHANGED <<conn, receiving, requests, connects,
                     incoming_packet_user_index_queue_, system_packet_queue_,
                     task_req_queue_, current>>
  BY DEF ServeRedisAnswer, network
<1>2. CASE task_res_queue_ = <<>>
  BY <1>1, <1>2 DEF ServeRedisAnswer, TypeOK, client, users
<1>3. CASE task_res_queue_ # <<>>
  <2>1. /\ answer.user_idx \in Sessions
        /\ answer.ok \in BOOLEAN
        /\ task_res_queue_' \in Seq(Answers)
    <3>1. answer \in Answers /\ Tail(task_res_queue_) \in Seq(Answers)
      BY <1>3, HeadTailProperties DEF TypeOK
    <3>2. task_res_queue_' = Tail(task_res_queue_)
      BY <1>3 DEF ServeRedisAnswer
    <3> QED BY <3>1, <3>2 DEF Answers
  <2> DEFINE s == answer.user_idx
             ok == answer.ok
  <2>2. s \in Sessions /\ LoginDBResHandler(s, ok)
    BY <1>3, <2>1 DEF ServeRedisAnswer
  <2> HIDE DEF s, ok
  <2>3. awaiting' \in [Sessions -> Int]
    BY <2>2, ReplyType DEF LoginDBResHandler
  <2>4. user_id_' \in [Sessions -> Ids]
    BY <2>2 DEF LoginDBResHandler, TypeOK, Ids
  <2>5. /\ domain_state_' \in [Sessions -> {"kNONE", "kLOGIN", "kROOM"}]
        /\ user_id_map_' \in [Ids -> Sessions \cup {NoSession}]
    <3>1. user_id_[s] \in Ids
      BY <2>2 DEF TypeOK
    <3>2. CASE ok
      <4> DEFINE entry == IF user_id_map_[user_id_[s]] = NoSession
                            THEN s ELSE user_id_map_[user_id_[s]]
      <4>1. user_id_map_' = [user_id_map_ EXCEPT ![user_id_[s]] = entry]
        BY <2>2, <3>2 DEF LoginDBResHandler
      <4>2. entry \in Sessions \cup {NoSession}
        BY <2>2, <3>1 DEF TypeOK
      <4>3. domain_state_' \in [Sessions -> {"kNONE", "kLOGIN", "kROOM"}]
        BY <2>2, <3>2 DEF LoginDBResHandler, TypeOK
      <4> HIDE DEF entry
      <4> QED BY <4>1, <4>2, <4>3 DEF TypeOK
    <3>3. CASE ~ok
      BY <2>2, <3>3 DEF LoginDBResHandler, TypeOK
    <3> QED BY <3>2, <3>3
  <2> QED BY <1>1, <2>1, <2>2, <2>3, <2>4, <2>5 DEF LoginDBResHandler, TypeOK
<1> QED BY <1>2, <1>3

LEMMA ThreadType ==
  ASSUME TypeOK, PacketInHand, PacketProcessThread
  PROVE  TypeOK'
<1>1. CASE NoUserIndex
  BY <1>1 DEF NoUserIndex, TypeOK, network, client, queues, users
<1>2. CASE DequeuePacket
  <2>1. Head(incoming_packet_user_index_queue_) \in Sessions
    BY <1>2, HeadTailProperties DEF DequeuePacket, TypeOK
  <2>2. incoming_packet_user_index_queue_' \in Seq(Sessions)
    BY <1>2, HeadTailProperties DEF DequeuePacket, TypeOK
  <2>3. pc' \in {"system", "handle"} /\ current' \in Sessions \cup {NoSession}
    BY <1>2, <2>1 DEF DequeuePacket, TypeOK
  <2> QED BY <1>2, <2>2, <2>3 DEF DequeuePacket, TypeOK, network, client, users
<1>3. CASE HandleUserPacket
  BY <1>3, HandleType
<1>4. CASE NoHandler
  BY <1>4 DEF NoHandler, TypeOK, network, client, queues, users
<1>5. CASE CompleteProcess
  <2>1. current \in Sessions /\ packet_buf_[current] # <<>>
    BY <1>5 DEF CompleteProcess, PacketInHand
  <2>2. packet_buf_' \in [Sessions -> Seq(Requests)]
    <3>1. Tail(packet_buf_[current]) \in Seq(Requests)
      BY <2>1, HeadTailProperties DEF TypeOK
    <3> QED BY <1>5, <2>1, <3>1 DEF CompleteProcess, TypeOK
  <2>3. incoming_packet_user_index_queue_' \in Seq(Sessions)
    <3>1. incoming_packet_user_index_queue_' \in
            {incoming_packet_user_index_queue_,
             Append(incoming_packet_user_index_queue_, current)}
      BY <1>5 DEF CompleteProcess, ListAgain
    <3>2. incoming_packet_user_index_queue_ \in Seq(Sessions)
      BY DEF TypeOK
    <3> QED BY <2>1, <3>1, <3>2, AppendProperties
  <2> QED BY <1>5, <2>2, <2>3 DEF CompleteProcess, TypeOK, network, client, users
<1>6. CASE ServeSystemPacket
  BY <1>6, SystemType
<1>7. CASE ServeRedisAnswer
  BY <1>7, AnswerType
<1> QED BY <1>1, <1>2, <1>3, <1>4, <1>5, <1>6, <1>7 DEF PacketProcessThread

LEMMA RedisType ==
  ASSUME TypeOK, RedisLoginHandler
  PROVE  TypeOK'
<1>1. Head(task_req_queue_) \in Sessions /\ Tail(task_req_queue_) \in Seq(Sessions)
  BY HeadTailProperties DEF RedisLoginHandler, TypeOK
<1>2. task_res_queue_' \in Seq(Answers)
  <2>1. PICK ok \in BOOLEAN : task_res_queue_' =
          Append(task_res_queue_, [user_idx |-> Head(task_req_queue_), ok |-> ok])
    BY DEF RedisLoginHandler
  <2>2. [user_idx |-> Head(task_req_queue_), ok |-> ok] \in Answers
    BY <1>1, <2>1 DEF Answers
  <2> QED BY <2>1, <2>2, AppendProperties DEF TypeOK
<1> QED BY <1>1, <1>2 DEF RedisLoginHandler, TypeOK, network, client, thread, users

LEMMA StutterType ==
  ASSUME TypeOK, UNCHANGED vars
  PROVE  TypeOK'
BY DEF TypeOK, vars, network, client, queues, thread, users

LEMMA InitType == Init => TypeOK
<1> SUFFICES ASSUME Init PROVE TypeOK
  OBVIOUS
<1>1. /\ requests \in 0 .. MaxRequests
      /\ connects \in 0 .. MaxConnects
  BY BoundsAssumption DEF Init
<1>2. packet_buf_ \in [Sessions -> Seq(Requests)]
  BY EmptySeq DEF Init
<1>3. /\ incoming_packet_user_index_queue_ \in Seq(Sessions)
      /\ system_packet_queue_ \in Seq(SystemPackets)
      /\ task_req_queue_ \in Seq(Sessions)
      /\ task_res_queue_ \in Seq(Answers)
  BY EmptySeq DEF Init
<1> QED BY <1>1, <1>2, <1>3 DEF Init, TypeOK, Ids

-----------------------------------------------------------------------------
(* The packet in hand and the lost wakeup. *)

\* A session stays listed when an index is appended, and when one that is
\* not its own is taken from the front.
LEMMA ListedAppend ==
  ASSUME incoming_packet_user_index_queue_ \in Seq(Sessions),
         NEW s \in Sessions, NEW x \in Sessions,
         incoming_packet_user_index_queue_' =
           Append(incoming_packet_user_index_queue_, x)
  PROVE  Listed(s)' <=> Listed(s) \/ s = x
<1> DEFINE q == incoming_packet_user_index_queue_
<1>1. /\ Len(q) \in Nat
      /\ DOMAIN q = 1 .. Len(q)
      /\ DOMAIN Append(q, x) = 1 .. Len(q) + 1
      /\ \A i \in 1 .. Len(q) : Append(q, x)[i] = q[i]
      /\ Append(q, x)[Len(q) + 1] = x
  BY AppendProperties, LenProperties
<1> HIDE DEF q
<1>2. Listed(s)' <=> \E i \in 1 .. Len(q) + 1 : Append(q, x)[i] = s
  BY <1>1 DEF Listed, q
<1>3. Listed(s) <=> \E i \in 1 .. Len(q) : q[i] = s
  BY <1>1 DEF Listed, q
<1> QED BY <1>1, <1>2, <1>3

LEMMA ListedTail ==
  ASSUME incoming_packet_user_index_queue_ \in Seq(Sessions),
         incoming_packet_user_index_queue_ # <<>>,
         NEW s \in Sessions, s # Head(incoming_packet_user_index_queue_),
         incoming_packet_user_index_queue_' = Tail(incoming_packet_user_index_queue_),
         Listed(s)
  PROVE  Listed(s)'
<1> DEFINE q == incoming_packet_user_index_queue_
<1>1. PICK i \in 1 .. Len(q) : q[i] = s
  BY LenProperties DEF Listed
<1>2. /\ Tail(q) \in Seq(Sessions)
      /\ Len(Tail(q)) = Len(q) - 1
      /\ \A j \in 1 .. Len(Tail(q)) : Tail(q)[j] = q[j + 1]
  BY HeadTailProperties
<1>3. i # 1
  BY <1>1
<1>4. i - 1 \in 1 .. Len(Tail(q)) /\ Tail(q)[i - 1] = s
  BY <1>1, <1>2, <1>3, LenProperties
<1>5. DOMAIN Tail(q) = 1 .. Len(Tail(q))
  BY <1>2, LenProperties
<1> QED BY <1>4, <1>5 DEF Listed

LEMMA ListedSame ==
  ASSUME UNCHANGED incoming_packet_user_index_queue_, NEW s \in Sessions
  PROVE  Listed(s)' <=> Listed(s)
BY DEF Listed

\* The callbacks only ever add: packets to a buffer, indices to the queue.
LEMMA CallbacksKeep ==
  ASSUME IInv, NEW s \in Sessions,
         OnConnect(s) \/ OnDisconnect(s) \/ EnqueuePacketData(s) \/ PushUserIndex(s)
  PROVE  PacketInHand' /\ NoStrandedPacket'
<1>1. CASE OnConnect(s) \/ OnDisconnect(s)
  <2>1. UNCHANGED <<receiving, packet_buf_, incoming_packet_user_index_queue_, pc, current>>
    BY <1>1 DEF OnConnect, Calls!Connect, OnDisconnect, Calls!Disconnect, thread
  <2> QED BY <2>1, ListedSame DEF IInv, PacketInHand, NoStrandedPacket
<1>2. CASE EnqueuePacketData(s)
  <2>1. /\ UNCHANGED <<incoming_packet_user_index_queue_, pc, current>>
        /\ receiving' = [receiving EXCEPT ![s] = TRUE]
        /\ ~receiving[s]
    BY <1>2 DEF EnqueuePacketData, Calls!RecvBegins, queues, thread
  <2>2. PICK n \in 1 .. (IF "pipeline" \in Liberties THEN MaxChunk ELSE 1) :
          \E packets \in [1 .. n -> Requests] :
            packet_buf_' = [packet_buf_ EXCEPT ![s] = @ \o packets]
    BY <1>2 DEF EnqueuePacketData, Calls!RecvBegins
  <2>3. PICK packets \in [1 .. n -> Requests] :
          packet_buf_' = [packet_buf_ EXCEPT ![s] = @ \o packets]
    BY <2>2
  <2>4. packets \in Seq(Requests)
    <3>1. n \in Nat
      BY <2>2, BoundsAssumption
    <3> QED BY <3>1, SeqDef
  <2>5. packet_buf_ \in [Sessions -> Seq(Requests)] /\ receiving \in [Sessions -> BOOLEAN]
    BY DEF IInv, TypeOK
  <2>6. packet_buf_[s] # <<>> => packet_buf_'[s] # <<>>
    <3>1. packet_buf_[s] \in Seq(Requests)
      BY <2>5
    <3>2. packet_buf_'[s] = packet_buf_[s] \o packets
      BY <2>3, <2>5
    <3> QED BY <2>4, <3>1, <3>2, ConcatSimplifications
  <2>7. \A x \in Sessions \ {s} : packet_buf_'[x] = packet_buf_[x]
    BY <2>3, <2>5
  <2>8. PacketInHand'
    BY <2>1, <2>6, <2>7 DEF IInv, PacketInHand
  <2>9. NoStrandedPacket'
    <3>1. receiving'[s] /\ \A x \in Sessions \ {s} : receiving'[x] = receiving[x]
      BY <2>1, <2>5
    <3> QED BY <2>1, <2>7, <3>1, ListedSame DEF IInv, NoStrandedPacket
  <2> QED BY <2>8, <2>9
<1>3. CASE PushUserIndex(s)
  <2>1. /\ UNCHANGED <<packet_buf_, pc, current>>
        /\ receiving' = [receiving EXCEPT ![s] = FALSE]
        /\ incoming_packet_user_index_queue_' =
             Append(incoming_packet_user_index_queue_, s)
    BY <1>3 DEF PushUserIndex, Calls!RecvEnds, thread
  <2>2. /\ incoming_packet_user_index_queue_ \in Seq(Sessions)
        /\ receiving \in [Sessions -> BOOLEAN]
    BY DEF IInv, TypeOK
  <2>3. \A x \in Sessions : Listed(x)' <=> Listed(x) \/ x = s
    BY <2>1, <2>2, ListedAppend
  <2>4. \A x \in Sessions \ {s} : receiving'[x] = receiving[x]
    BY <2>1, <2>2
  <2> QED BY <2>1, <2>3, <2>4 DEF IInv, PacketInHand, NoStrandedPacket
<1> QED BY <1>1, <1>2, <1>3

\* The packet thread takes an index only to serve it, and lists a user again
\* before it lets go of it.
LEMMA ThreadKeeps ==
  ASSUME IInv, PacketProcessThread
  PROVE  PacketInHand' /\ NoStrandedPacket'
<1> USE DEF IInv
<1>1. /\ packet_buf_ \in [Sessions -> Seq(Requests)]
      /\ incoming_packet_user_index_queue_ \in Seq(Sessions)
  BY DEF TypeOK
<1>2. CASE NoUserIndex \/ ServeRedisAnswer
  <2>1. /\ UNCHANGED <<receiving, incoming_packet_user_index_queue_, current>>
        /\ packet_buf_' = packet_buf_
        /\ pc \in {"user", "redis"} /\ pc' \in {"system", "user"}
    BY <1>2 DEF NoUserIndex, ServeRedisAnswer, LoginDBResHandler, network, queues
  <2> QED BY <2>1, ListedSame DEF PacketInHand, NoStrandedPacket
<1>3. CASE DequeuePacket
  <2> DEFINE x == Head(incoming_packet_user_index_queue_)
  <2>1. /\ pc = "user"
        /\ incoming_packet_user_index_queue_ # <<>>
        /\ incoming_packet_user_index_queue_' = Tail(incoming_packet_user_index_queue_)
        /\ UNCHANGED <<receiving, packet_buf_>>
        /\ \/ packet_buf_[x] = <<>> /\ pc' = "system"
           \/ packet_buf_[x] # <<>> /\ pc' = "handle" /\ current' = x
    BY <1>3 DEF DequeuePacket, network
  <2>2. x \in Sessions
    BY <1>1, <2>1, HeadTailProperties
  <2>3. ASSUME NEW s \in Sessions, s # x, Listed(s) PROVE Listed(s)'
    BY <1>1, <2>1, <2>3, ListedTail
  <2> HIDE DEF x
  <2>4. PacketInHand'
    BY <2>1, <2>2 DEF PacketInHand
  <2>5. NoStrandedPacket'
    BY <2>1, <2>2, <2>3 DEF NoStrandedPacket
  <2> QED BY <2>4, <2>5
<1>4. CASE HandleUserPacket
  <2>1. /\ UNCHANGED <<receiving, packet_buf_, incoming_packet_user_index_queue_, current>>
        /\ pc = "handle" /\ pc' = "complete"
    BY <1>4 DEF HandleUserPacket, network
  <2> QED BY <2>1, ListedSame DEF PacketInHand, NoStrandedPacket
<1>5. CASE NoHandler
  <2>1. /\ UNCHANGED <<receiving, packet_buf_, incoming_packet_user_index_queue_>>
        /\ pc = "handle" /\ pc' = "system"
        /\ ~HasHandler(Head(packet_buf_[current]))
    BY <1>5 DEF NoHandler, network, queues
  <2> QED BY <2>1, ListedSame DEF PacketInHand, NoStrandedPacket
<1>6. CASE CompleteProcess
  <2>1. /\ UNCHANGED receiving
        /\ pc = "complete" /\ pc' = "system"
        /\ packet_buf_' = [packet_buf_ EXCEPT ![current] = Tail(@)]
        /\ incoming_packet_user_index_queue_' =
             IF Tail(packet_buf_[current]) # <<>>
               THEN Append(incoming_packet_user_index_queue_, current)
               ELSE incoming_packet_user_index_queue_
    BY <1>6 DEF CompleteProcess, ListAgain, network
  <2>2. current \in Sessions
    BY <2>1 DEF PacketInHand
  <2>3. /\ packet_buf_'[current] = Tail(packet_buf_[current])
        /\ \A s \in Sessions \ {current} : packet_buf_'[s] = packet_buf_[s]
    BY <1>1, <2>1, <2>2
  <2>4. PacketInHand'
    BY <2>1 DEF PacketInHand
  <2>5. CASE Tail(packet_buf_[current]) # <<>>
    <3>1. \A s \in Sessions : Listed(s)' <=> Listed(s) \/ s = current
      BY <1>1, <2>1, <2>2, <2>5, ListedAppend
    <3> QED BY <2>1, <2>3, <2>4, <3>1 DEF NoStrandedPacket
  <2>6. CASE Tail(packet_buf_[current]) = <<>>
    <3>1. \A s \in Sessions : Listed(s)' <=> Listed(s)
      BY <2>1, <2>6, ListedSame
    <3> QED BY <2>1, <2>3, <2>4, <2>6, <3>1 DEF NoStrandedPacket
  <2> QED BY <2>5, <2>6
<1>7. CASE ServeSystemPacket
  <2>1. /\ UNCHANGED <<receiving, incoming_packet_user_index_queue_, current>>
        /\ pc = "system" /\ pc' = "redis"
    BY <1>7 DEF ServeSystemPacket, network
  <2>2. \A s \in Sessions : packet_buf_'[s] \in {packet_buf_[s], <<>>}
    <3>1. CASE packet_buf_' = packet_buf_
      BY <3>1
    <3>2. CASE \E s : packet_buf_' = [packet_buf_ EXCEPT ![s] = <<>>]
      BY <1>1, <3>2
    <3>3. \/ packet_buf_' = packet_buf_
          \/ \E s : packet_buf_' = [packet_buf_ EXCEPT ![s] = <<>>]
      BY <1>7 DEF ServeSystemPacket, ConnectHandler, DisconnectHandler
    <3> QED BY <3>1, <3>2, <3>3
  <2> QED BY <2>1, <2>2, ListedSame DEF PacketInHand, NoStrandedPacket
<1> QED BY <1>2, <1>3, <1>4, <1>5, <1>6, <1>7 DEF PacketProcessThread

LEMMA RedisKeeps ==
  ASSUME IInv, RedisLoginHandler \/ UNCHANGED vars
  PROVE  PacketInHand' /\ NoStrandedPacket'
<1>1. UNCHANGED <<receiving, packet_buf_, incoming_packet_user_index_queue_, pc, current>>
  BY DEF RedisLoginHandler, vars, network, queues, thread
<1> QED BY <1>1, ListedSame DEF IInv, PacketInHand, NoStrandedPacket

-----------------------------------------------------------------------------
(* The theorems. *)

LEMMA InitIInv == Init => IInv
<1> SUFFICES ASSUME Init PROVE IInv
  OBVIOUS
<1>1. PacketInHand
  BY DEF Init, PacketInHand
<1>2. NoStrandedPacket
  BY DEF Init, NoStrandedPacket
<1> QED BY <1>1, <1>2, InitType DEF IInv

LEMMA NextIInv == IInv /\ [Next]_vars => IInv'
<1> SUFFICES ASSUME IInv, [Next]_vars PROVE IInv'
  OBVIOUS
<1>1. TypeOK /\ PacketInHand
  BY DEF IInv
<1>2. CASE \E s \in Sessions :
            OnConnect(s) \/ OnDisconnect(s) \/ EnqueuePacketData(s) \/ PushUserIndex(s)
  BY <1>1, <1>2, CallbacksType, CallbacksKeep DEF IInv
<1>3. CASE PacketProcessThread
  BY <1>1, <1>3, ThreadType, ThreadKeeps DEF IInv
<1>4. CASE RedisLoginHandler
  BY <1>1, <1>4, RedisType, RedisKeeps DEF IInv
<1>5. CASE UNCHANGED vars
  BY <1>1, <1>5, StutterType, RedisKeeps DEF IInv
<1> QED BY <1>2, <1>3, <1>4, <1>5 DEF Next

\* The indices, ids, rooms and packets the content layer keeps are always
\* ones that exist: no step follows a user_id_, room_idx_ or user index out
\* of its range.
THEOREM TypeCorrect == Spec => []TypeOK
<1>1. IInv => TypeOK
  BY DEF IInv
<1> QED BY <1>1, InitIInv, NextIInv, PTL DEF Spec

\* No wakeup is lost, for any number of sessions and packets and under every
\* liberty: a user with a packet that can be handled is listed, about to be
\* listed, or being served (packet_manager.cpp:49-60, 123-127, 146-164).
THEOREM NoPacketStranded == Spec => []NoStrandedPacket
<1>1. IInv => NoStrandedPacket
  BY DEF IInv
<1> QED BY <1>1, InitIInv, NextIInv, PTL DEF Spec

-----------------------------------------------------------------------------
(* A room's limit. *)

\* A vector of users has finitely many entries.
LEMMA EntriesFinite ==
  ASSUME NEW list \in [Sessions -> Nat]
  PROVE  IsFiniteSet(Entries(list))
<1> DEFINE f == [x \in Sessions |-> {x} \X (1 .. list[x])]
           Parts == {{x} \X (1 .. list[x]) : x \in Sessions}
<1>1. f \in Surjection(Sessions, Parts)
  BY DEF Surjection
<1>2. IsFiniteSet(Parts)
  BY <1>1, SessionsAssumption, FS_Surjection
<1>3. ASSUME NEW x \in Sessions PROVE IsFiniteSet({x} \X (1 .. list[x]))
  <2>1. IsFiniteSet({x})
    BY FS_Singleton
  <2>2. IsFiniteSet(1 .. list[x])
    BY FS_Interval
  <2> QED BY <2>1, <2>2, FS_Product
<1>4. \A T \in Parts : IsFiniteSet(T)
  BY <1>3
<1> HIDE DEF Parts
<1>5. IsFiniteSet(UNION Parts)
  BY <1>2, <1>4, FS_UNION
<1> QED BY <1>5 DEF Entries, Parts

\* push_back makes user_list_.size() one larger.
LEMMA CountWhenEntered ==
  ASSUME NEW list \in [Sessions -> Nat], NEW s \in Sessions
  PROVE  UserCount([list EXCEPT ![s] = @ + 1]) = UserCount(list) + 1
<1> DEFINE longer == [list EXCEPT ![s] = @ + 1]
           entry == <<s, list[s] + 1>>
<1>1. entry \notin Entries(list)
  BY DEF Entries
<1>2. Entries(longer) = Entries(list) \cup {entry}
  <2>1. ASSUME NEW x \in Sessions, x # s
        PROVE  {x} \X (1 .. longer[x]) = {x} \X (1 .. list[x])
    BY <2>1
  <2>2. {s} \X (1 .. longer[s]) = ({s} \X (1 .. list[s])) \cup {entry}
    <3>1. longer[s] = list[s] + 1 /\ list[s] \in Nat
      OBVIOUS
    <3>2. 1 .. list[s] + 1 = (1 .. list[s]) \cup {list[s] + 1}
      BY <3>1
    <3> QED BY <3>1, <3>2
  <2> HIDE DEF longer, entry
  <2> QED BY <2>1, <2>2 DEF Entries
<1> HIDE DEF entry
<1> QED BY <1>1, <1>2, EntriesFinite, FS_AddElement DEF UserCount

\* A vector none of whose users are listed more often is no longer.
LEMMA CountWhenErased ==
  ASSUME NEW list \in [Sessions -> Nat], NEW shorter \in [Sessions -> Nat],
         \A x \in Sessions : shorter[x] <= list[x]
  PROVE  /\ UserCount(shorter) <= UserCount(list)
         /\ UserCount(shorter) \in Nat
<1>1. Entries(shorter) \subseteq Entries(list)
  BY DEF Entries
<1> QED BY <1>1, EntriesFinite, FS_Subset, FS_CardinalityType DEF UserCount

\* Only a handler that found the room to have space lengthens its list.
LEMMA ListsStepwise ==
  ASSUME TypeOK, PacketInHand, [Next]_vars
  PROVE  \/ UNCHANGED user_list_
         \/ \E s \in Sessions, r \in Rooms :
              /\ HasSpace(r)
              /\ user_list_' = [user_list_ EXCEPT ![r][s] = @ + 1]
         \/ \E s \in Sessions : LeaveUser(s)
<1>1. CASE \E s \in Sessions :
            OnConnect(s) \/ OnDisconnect(s) \/ EnqueuePacketData(s) \/ PushUserIndex(s)
  BY <1>1 DEF OnConnect, OnDisconnect, EnqueuePacketData, PushUserIndex, users
<1>2. CASE HandleUserPacket
  <2>1. current \in Sessions
    BY <1>2 DEF HandleUserPacket, PacketInHand
  <2>2. Head(packet_buf_[current]) \in Requests
    BY <1>2, <2>1, HeadTailProperties DEF HandleUserPacket, PacketInHand, TypeOK
  <2> DEFINE packet == Head(packet_buf_[current])
  <2>3. CASE packet.id = "kROOM_ENTER_REQUEST"
    <3>1. EnterRoomHandler(current, packet.body) /\ packet.body \in Rooms \cup {NoRoom}
      BY <1>2, <2>2, <2>3 DEF HandleUserPacket, Requests
    <3>2. CASE domain_state_[current] = "kLOGIN" /\ packet.body # NoRoom /\ HasSpace(packet.body)
      <4>1. packet.body \in Rooms /\ EnterUser(current, packet.body)
        BY <3>1, <3>2 DEF EnterRoomHandler
      <4> HIDE DEF packet
      <4>2. user_list_' = [user_list_ EXCEPT ![packet.body][current] = @ + 1]
        BY <4>1 DEF EnterUser
      <4> QED BY <2>1, <3>2, <4>1, <4>2
    <3>3. CASE ~(domain_state_[current] = "kLOGIN" /\ packet.body # NoRoom /\ HasSpace(packet.body))
      BY <3>1, <3>3 DEF EnterRoomHandler
    <3> QED BY <3>2, <3>3
  <2>4. CASE packet.id = "kROOM_LEAVE_REQUEST"
    BY <1>2, <2>1, <2>4 DEF HandleUserPacket, LeaveRoomHandler
  <2>5. CASE packet.id = "kLOGIN_REQUEST"
    BY <1>2, <2>5 DEF HandleUserPacket, LoginHandler
  <2>6. CASE packet.id = "kROOM_CHAT_REQUEST"
    BY <1>2, <2>6 DEF HandleUserPacket, RoomChatHandler
  <2> QED BY <1>2, <2>2, <2>3, <2>4, <2>5, <2>6
          DEF Requests, HandleUserPacket, HasHandler
<1>3. CASE ServeSystemPacket
  <2>1. CASE system_packet_queue_ = <<>>
    BY <1>3, <2>1 DEF ServeSystemPacket, users
  <2>2. CASE system_packet_queue_ # <<>>
    <3> DEFINE packet == Head(system_packet_queue_)
    <3>1. packet \in SystemPackets
      BY <2>2, HeadTailProperties DEF TypeOK
    <3>2. ConnectHandler(packet.session_index) \/ DisconnectHandler(packet.session_index)
      BY <1>3, <2>2 DEF ServeSystemPacket
    <3> QED BY <3>1, <3>2 DEF ConnectHandler, DisconnectHandler, SystemPackets
  <2> QED BY <2>1, <2>2
<1>4. CASE ServeRedisAnswer
  BY <1>4 DEF ServeRedisAnswer, LoginDBResHandler, users
<1>5. CASE NoUserIndex \/ DequeuePacket \/ NoHandler \/ CompleteProcess
  BY <1>5 DEF NoUserIndex, DequeuePacket, NoHandler, CompleteProcess, users
<1>6. CASE RedisLoginHandler \/ UNCHANGED vars
  BY <1>6 DEF RedisLoginHandler, vars, users
<1> QED BY <1>1, <1>2, <1>3, <1>4, <1>5, <1>6 DEF Next, PacketProcessThread

LEMMA OverfullStep ==
  ASSUME TypeOK, PacketInHand, RoomNotOverfull, [Next]_vars
  PROVE  RoomNotOverfull'
<1>1. \A r \in Rooms : user_list_[r] \in [Sessions -> Nat]
  BY DEF TypeOK
<1>2. \A r \in Rooms : UserCount(user_list_[r]) \in Nat
  BY <1>1, EntriesFinite, FS_CardinalityType DEF UserCount
<1>3. CASE UNCHANGED user_list_
  BY <1>3 DEF RoomNotOverfull, UserCount, Entries
<1>4. CASE \E s \in Sessions, r \in Rooms :
              /\ HasSpace(r)
              /\ user_list_' = [user_list_ EXCEPT ![r][s] = @ + 1]
  <2>1. PICK s \in Sessions, r \in Rooms :
          /\ HasSpace(r)
          /\ user_list_' = [user_list_ EXCEPT ![r][s] = @ + 1]
    BY <1>4
  <2>2. user_list_'[r] = [user_list_[r] EXCEPT ![s] = @ + 1]
    <3>1. user_list_ \in [Rooms -> [Sessions -> Nat]]
      BY DEF TypeOK
    <3> QED BY <2>1, <3>1
  <2>3. \A q \in Rooms \ {r} : user_list_'[q] = user_list_[q]
    BY <2>1 DEF TypeOK
  <2>4. UserCount(user_list_'[r]) = UserCount(user_list_[r]) + 1
    BY <1>1, <2>2, CountWhenEntered
  <2>5. UserCount(user_list_[r]) < kROOM_MAX_USER_CNT
    BY <2>1 DEF HasSpace
  <2>6. UserCount(user_list_'[r]) <= kROOM_MAX_USER_CNT
    BY <1>2, <2>4, <2>5, BoundsAssumption
  <2> QED BY <2>3, <2>6 DEF RoomNotOverfull, UserCount, Entries
<1>5. CASE \E s \in Sessions : LeaveUser(s)
  <2>1. PICK s \in Sessions : LeaveUser(s)
    BY <1>5
  <2>2. ASSUME NEW r \in Rooms
        PROVE  UserCount(user_list_'[r]) <= kROOM_MAX_USER_CNT
    <3>1. user_list_'[r] \in {user_list_[r], WithoutUser(s, user_list_[r])}
      BY <2>1 DEF LeaveUser, TypeOK
    <3>2. /\ WithoutUser(s, user_list_[r]) \in [Sessions -> Nat]
          /\ \A x \in Sessions : WithoutUser(s, user_list_[r])[x] <= user_list_[r][x]
      BY <1>1 DEF WithoutUser
    <3>3. UserCount(WithoutUser(s, user_list_[r])) <= UserCount(user_list_[r])
      BY <1>1, <3>2, CountWhenErased
    <3>4. UserCount(WithoutUser(s, user_list_[r])) \in Nat
      BY <1>1, <3>2, CountWhenErased
    <3>5. UserCount(user_list_[r]) <= kROOM_MAX_USER_CNT
      BY DEF RoomNotOverfull
    <3> QED BY <1>2, <3>1, <3>3, <3>4, <3>5, BoundsAssumption
  <2> QED BY <2>2 DEF RoomNotOverfull, UserCount, Entries
<1> QED BY <1>3, <1>4, <1>5, ListsStepwise

LEMMA InitNotOverfull == Init => RoomNotOverfull
<1> SUFFICES ASSUME Init, NEW r \in Rooms
             PROVE  UserCount(user_list_[r]) <= kROOM_MAX_USER_CNT
  BY DEF RoomNotOverfull
<1>1. Entries(user_list_[r]) = {}
  BY DEF Init, Entries
<1> QED BY <1>1, FS_EmptySet, BoundsAssumption DEF UserCount

\* No sequence of requests, disconnects and late answers, under whatever
\* liberties, lists more entries in a room than its limit, even if one user is
\* listed more than once (room.cpp:24-29).
THEOREM RoomsStayWithinLimit == Spec => []RoomNotOverfull
<1>1. IInv => TypeOK /\ PacketInHand
  BY DEF IInv
<1> QED BY <1>1, InitIInv, NextIInv, InitNotOverfull, OverfullStep, PTL DEF Spec

-----------------------------------------------------------------------------
(* How many logins are under way. *)

\* How many entries of a queue are in V.
Count(q, V) == Cardinality({i \in DOMAIN q : q[i] \in V})

LEMMA CountType ==
  ASSUME NEW T, NEW q \in Seq(T), NEW V
  PROVE  /\ IsFiniteSet({i \in DOMAIN q : q[i] \in V})
         /\ Count(q, V) \in Nat
<1>1. DOMAIN q = 1 .. Len(q) /\ Len(q) \in Nat
  BY LenProperties
<1>2. IsFiniteSet(1 .. Len(q))
  BY <1>1, FS_Interval
<1>3. IsFiniteSet({i \in DOMAIN q : q[i] \in V})
  BY <1>1, <1>2, FS_Subset
<1> QED BY <1>3, FS_CardinalityType DEF Count

\* What is appended is counted.
LEMMA CountAppend ==
  ASSUME NEW T, NEW q \in Seq(T), NEW x \in T, NEW V
  PROVE  Count(Append(q, x), V) = Count(q, V) + (IF x \in V THEN 1 ELSE 0)
<1> DEFINE before == {i \in DOMAIN q : q[i] \in V}
           after  == {i \in DOMAIN Append(q, x) : Append(q, x)[i] \in V}
<1>1. /\ Len(q) \in Nat
      /\ DOMAIN q = 1 .. Len(q)
      /\ DOMAIN Append(q, x) = 1 .. Len(q) + 1
      /\ \A i \in 1 .. Len(q) : Append(q, x)[i] = q[i]
      /\ Append(q, x)[Len(q) + 1] = x
  BY AppendProperties, LenProperties
<1>2. after = before \cup (IF x \in V THEN {Len(q) + 1} ELSE {})
  <2>1. 1 .. Len(q) + 1 = (1 .. Len(q)) \cup {Len(q) + 1}
    BY <1>1
  <2> QED BY <1>1, <2>1
<1>3. Len(q) + 1 \notin before
  BY <1>1
<1>4. IsFiniteSet(before) /\ Cardinality(before) \in Nat
  BY CountType DEF Count
<1>5. Count(q, V) = Cardinality(before) /\ Count(Append(q, x), V) = Cardinality(after)
  BY DEF Count
<1> HIDE DEF before, after
<1>6. CASE x \in V
  <2>1. Cardinality(before \cup {Len(q) + 1}) = Cardinality(before) + 1
    BY <1>3, <1>4, FS_AddElement
  <2> QED BY <1>2, <1>5, <1>6, <2>1
<1>7. CASE x \notin V
  <2>1. after = before
    BY <1>2, <1>7
  <2> QED BY <1>4, <1>5, <1>7, <2>1
<1> QED BY <1>6, <1>7

\* What is taken from the front is counted no more.
LEMMA CountTail ==
  ASSUME NEW T, NEW q \in Seq(T), NEW V, q # <<>>
  PROVE  Count(q, V) = Count(Tail(q), V) + (IF Head(q) \in V THEN 1 ELSE 0)
<1> DEFINE before == {i \in DOMAIN q : q[i] \in V}
           after  == {i \in DOMAIN Tail(q) : Tail(q)[i] \in V}
           moved  == {i \in before : i # 1}
           f      == [i \in after |-> i + 1]
<1>1. /\ Len(q) \in Nat \ {0}
      /\ DOMAIN q = 1 .. Len(q)
      /\ Tail(q) \in Seq(T)
      /\ DOMAIN Tail(q) = 1 .. Len(q) - 1
      /\ \A i \in 1 .. Len(q) - 1 : Tail(q)[i] = q[i + 1]
      /\ Head(q) = q[1]
  <2>1. Len(q) \in Nat /\ DOMAIN q = 1 .. Len(q) /\ (Len(q) = 0 => q = <<>>)
    BY LenProperties, EmptySeq
  <2>2. /\ Tail(q) \in Seq(T)
        /\ Len(Tail(q)) = Len(q) - 1
        /\ \A i \in 1 .. Len(Tail(q)) : Tail(q)[i] = q[i + 1]
        /\ Head(q) = q[1]
    BY HeadTailProperties
  <2>3. DOMAIN Tail(q) = 1 .. Len(Tail(q))
    BY <2>2, LenProperties
  <2> QED BY <2>1, <2>2, <2>3
<1>2. f \in Bijection(after, moved)
  <2>1. f \in [after -> moved]
    BY <1>1
  <2>2. \A i, j \in after : f[i] = f[j] => i = j
    BY <1>1
  <2>3. \A k \in moved : \E i \in after : f[i] = k
    <3>1. TAKE k \in moved
    <3>2. k - 1 \in after /\ f[k - 1] = k
      BY <1>1
    <3> QED BY <3>2
  <2>4. f \in Injection(after, moved)
    BY <2>1, <2>2 DEF Injection, IsInjective
  <2>5. f \in Surjection(after, moved)
    BY <2>1, <2>3 DEF Surjection
  <2> QED BY <2>4, <2>5 DEF Bijection
<1>3. IsFiniteSet(after) /\ IsFiniteSet(before) /\ Cardinality(after) \in Nat
  BY <1>1, CountType DEF Count
<1>4. IsFiniteSet(moved) /\ Cardinality(moved) = Cardinality(after)
  <2>1. ExistsBijection(after, moved)
    BY <1>2 DEF ExistsBijection
  <2> HIDE DEF after, moved
  <2> QED BY <1>3, <2>1, FS_Bijection
<1>5. before = moved \cup (IF Head(q) \in V THEN {1} ELSE {})
  BY <1>1
<1>6. 1 \notin moved
  OBVIOUS
<1>7. Count(q, V) = Cardinality(before) /\ Count(Tail(q), V) = Cardinality(after)
  BY DEF Count
<1> HIDE DEF before, after, moved
<1>8. CASE Head(q) \in V
  <2>1. Cardinality(moved \cup {1}) = Cardinality(moved) + 1
    BY <1>4, <1>6, FS_AddElement
  <2> QED BY <1>4, <1>5, <1>7, <1>8, <2>1
<1>9. CASE Head(q) \notin V
  <2>1. before = moved
    BY <1>5, <1>9
  <2> QED BY <1>3, <1>4, <1>7, <1>9, <2>1
<1> QED BY <1>8, <1>9

AnswersFor(s) == {a \in Answers : a.user_idx = s}

LEMMA LoginsCounted ==
  ASSUME TypeOK, NEW s \in Sessions
  PROVE  /\ LoginsInFlight(s) = Count(task_req_queue_, {s})
                                  + Count(task_res_queue_, AnswersFor(s))
         /\ LoginsInFlight(s) \in Nat
<1>1. \A i \in DOMAIN task_res_queue_ : task_res_queue_[i] \in Answers
  BY ElementOfSeq DEF TypeOK
<1>2. {i \in DOMAIN task_res_queue_ : task_res_queue_[i].user_idx = s}
        = {i \in DOMAIN task_res_queue_ : task_res_queue_[i] \in AnswersFor(s)}
  BY <1>1 DEF AnswersFor
<1>3. {i \in DOMAIN task_req_queue_ : task_req_queue_[i] = s}
        = {i \in DOMAIN task_req_queue_ : task_req_queue_[i] \in {s}}
  OBVIOUS
<1>4. LoginsInFlight(s) = Count(task_req_queue_, {s})
                            + Count(task_res_queue_, AnswersFor(s))
  BY <1>2, <1>3 DEF LoginsInFlight, Count
<1>5. task_req_queue_ \in Seq(Sessions) /\ task_res_queue_ \in Seq(Answers)
  BY DEF TypeOK
<1>6. Count(task_req_queue_, {s}) \in Nat /\ Count(task_res_queue_, AnswersFor(s)) \in Nat
  BY <1>5, CountType
<1> QED BY <1>4, <1>6

\* A login is under way from when it is asked for to when it is answered,
\* also while Redis's worker has taken it from one queue to the other.
LEMMA LoginsStep ==
  ASSUME TypeOK, TypeOK', NEW s \in Sessions
  PROVE  /\ LoginsInFlight(s) \in Nat /\ LoginsInFlight(s)' \in Nat
         /\ UNCHANGED <<task_req_queue_, task_res_queue_>> =>
              LoginsInFlight(s)' = LoginsInFlight(s)
         /\ \A x \in Sessions :
              /\ task_req_queue_' = Append(task_req_queue_, x)
              /\ UNCHANGED task_res_queue_
              => LoginsInFlight(s)' = LoginsInFlight(s) + (IF x = s THEN 1 ELSE 0)
         /\ RedisLoginHandler => LoginsInFlight(s)' = LoginsInFlight(s)
         /\ /\ task_res_queue_ # <<>>
            /\ task_res_queue_' = Tail(task_res_queue_)
            /\ UNCHANGED task_req_queue_
            => LoginsInFlight(s) = LoginsInFlight(s)'
                 + (IF Head(task_res_queue_).user_idx = s THEN 1 ELSE 0)
<1> DEFINE asked    == Count(task_req_queue_, {s})
           answered == Count(task_res_queue_, AnswersFor(s))
<1>1. LoginsInFlight(s) = asked + answered
  BY LoginsCounted
<1>2. LoginsInFlight(s)' = asked' + answered'
  <2>1. (LoginsInFlight(s) = asked + answered)'
    BY LoginsCounted, PTL
  <2> QED BY <2>1
<1>3. task_req_queue_ \in Seq(Sessions) /\ task_res_queue_ \in Seq(Answers)
  BY DEF TypeOK
<1>4. asked \in Nat /\ answered \in Nat /\ asked' \in Nat /\ answered' \in Nat
  <2>1. task_req_queue_' \in Seq(Sessions) /\ task_res_queue_' \in Seq(Answers)
    BY DEF TypeOK
  <2> QED BY <1>3, <2>1, CountType
<1>5. UNCHANGED <<task_req_queue_, task_res_queue_>> =>
        asked' = asked /\ answered' = answered
  BY DEF Count
<1>6. ASSUME NEW x \in Sessions,
             task_req_queue_' = Append(task_req_queue_, x), UNCHANGED task_res_queue_
      PROVE  asked' = asked + (IF x = s THEN 1 ELSE 0) /\ answered' = answered
  BY <1>3, <1>6, CountAppend
<1>7. ASSUME RedisLoginHandler
      PROVE  asked' + answered' = asked + answered
  <2>1. PICK ok \in BOOLEAN :
          /\ task_req_queue_ # <<>>
          /\ task_req_queue_' = Tail(task_req_queue_)
          /\ task_res_queue_' =
               Append(task_res_queue_, [user_idx |-> Head(task_req_queue_), ok |-> ok])
    BY <1>7 DEF RedisLoginHandler
  <2> DEFINE x == Head(task_req_queue_)
             answer == [user_idx |-> x, ok |-> ok]
  <2>2. x \in Sessions
    BY <1>3, <2>1, HeadTailProperties
  <2>3. answer \in Answers /\ (answer \in AnswersFor(s) <=> x = s)
    BY <2>2 DEF Answers, AnswersFor
  <2>4. asked = asked' + (IF x = s THEN 1 ELSE 0)
    BY <1>3, <2>1, CountTail
  <2>5. answered' = answered + (IF x = s THEN 1 ELSE 0)
    <3>1. answered' = answered + (IF answer \in AnswersFor(s) THEN 1 ELSE 0)
      BY <1>3, <2>1, <2>3, CountAppend
    <3> QED BY <2>3, <3>1
  <2> HIDE DEF asked, answered, x
  <2> QED BY <1>4, <2>4, <2>5
<1>8. ASSUME task_res_queue_ # <<>>, task_res_queue_' = Tail(task_res_queue_),
             UNCHANGED task_req_queue_
      PROVE  /\ asked' = asked
             /\ answered = answered' + (IF Head(task_res_queue_).user_idx = s THEN 1 ELSE 0)
  <2>1. Head(task_res_queue_) \in Answers
    BY <1>3, <1>8, HeadTailProperties
  <2>2. Head(task_res_queue_) \in AnswersFor(s) <=> Head(task_res_queue_).user_idx = s
    BY <2>1 DEF AnswersFor
  <2>3. answered = answered' + (IF Head(task_res_queue_) \in AnswersFor(s) THEN 1 ELSE 0)
    BY <1>3, <1>8, CountTail
  <2>4. asked' = asked
    BY <1>8 DEF Count
  <2> QED BY <2>2, <2>3, <2>4
<1> HIDE DEF asked, answered
<1>9. UNCHANGED <<task_req_queue_, task_res_queue_>> =>
        LoginsInFlight(s)' = LoginsInFlight(s)
  BY <1>1, <1>2, <1>5
<1>10. ASSUME NEW x \in Sessions,
              task_req_queue_' = Append(task_req_queue_, x), UNCHANGED task_res_queue_
       PROVE  LoginsInFlight(s)' = LoginsInFlight(s) + (IF x = s THEN 1 ELSE 0)
  <2>1. asked' = asked + (IF x = s THEN 1 ELSE 0) /\ answered' = answered
    BY <1>6, <1>10
  <2> QED BY <1>1, <1>2, <1>4, <2>1
<1>11. RedisLoginHandler => LoginsInFlight(s)' = LoginsInFlight(s)
  BY <1>1, <1>2, <1>7
<1>12. ASSUME task_res_queue_ # <<>>, task_res_queue_' = Tail(task_res_queue_),
              UNCHANGED task_req_queue_
       PROVE  LoginsInFlight(s) = LoginsInFlight(s)'
                + (IF Head(task_res_queue_).user_idx = s THEN 1 ELSE 0)
  <2>1. /\ asked' = asked
        /\ answered = answered' + (IF Head(task_res_queue_).user_idx = s THEN 1 ELSE 0)
    BY <1>8, <1>12
  <2> QED BY <1>1, <1>2, <1>4, <2>1
<1>13. LoginsInFlight(s) \in Nat /\ LoginsInFlight(s)' \in Nat
  <2>1. \A m, n \in Nat : m + n \in Nat
    OBVIOUS
  <2> QED BY <1>1, <1>2, <1>4, <2>1
<1> QED BY <1>9, <1>10, <1>11, <1>12, <1>13

-----------------------------------------------------------------------------
(* The answers clients wait for. *)

Connected(s) == [id |-> "kSYS_USER_CONNECT", session_index |-> s]

\* The only system packet queued for s is its CONNECT.
OnlyConnectQueued(s) ==
  \E i \in DOMAIN system_packet_queue_ :
    /\ system_packet_queue_[i] = Connected(s)
    /\ \A j \in DOMAIN system_packet_queue_ :
         system_packet_queue_[j].session_index = s => j = i

\* Nothing has happened to a connection that waits for its CONNECT.
Fresh(s) ==
  /\ OnlyConnectQueued(s)
  /\ awaiting[s] = 0
  /\ ~receiving[s]
  /\ ~Listed(s)
  /\ LoginsInFlight(s) = 0
  /\ current # s

Completing(s) == pc = "complete" /\ current = s

Owed(s) ==
  Len(packet_buf_[s]) + LoginsInFlight(s) - (IF Completing(s) THEN 1 ELSE 0)

\* AnswersOwed is not inductive: what a connection finds when its CONNECT is
\* served depends on what was left over from the slot's last connection.
Accounts(s) ==
  conn[s] = "open" =>
    \/ Fresh(s)
    \/ ~SystemPacketQueued(s) /\ awaiting[s] = Owed(s)

AnswersInv == \A s \in Sessions : Accounts(s)

LEMMA QueuedForAnother ==
  ASSUME system_packet_queue_ \in Seq(SystemPackets), NEW s \in Sessions,
         NEW p \in SystemPackets, p.session_index # s,
         system_packet_queue_' = Append(system_packet_queue_, p)
  PROVE  /\ SystemPacketQueued(s)' <=> SystemPacketQueued(s)
         /\ OnlyConnectQueued(s) => OnlyConnectQueued(s)'
<1> DEFINE q == system_packet_queue_
<1>1. /\ Len(q) \in Nat
      /\ DOMAIN q = 1 .. Len(q)
      /\ DOMAIN Append(q, p) = 1 .. Len(q) + 1
      /\ \A i \in 1 .. Len(q) : Append(q, p)[i] = q[i]
      /\ Append(q, p)[Len(q) + 1] = p
  BY AppendProperties, LenProperties
<1>2. 1 .. Len(q) + 1 = (1 .. Len(q)) \cup {Len(q) + 1}
  BY <1>1
<1> QED BY <1>1, <1>2 DEF SystemPacketQueued, OnlyConnectQueued, Connected

LEMMA ConnectQueuedAlone ==
  ASSUME system_packet_queue_ \in Seq(SystemPackets), NEW s \in Sessions,
         ~SystemPacketQueued(s),
         system_packet_queue_' = Append(system_packet_queue_, Connected(s))
  PROVE  OnlyConnectQueued(s)'
<1> DEFINE q == system_packet_queue_
<1>1. Connected(s) \in SystemPackets /\ Connected(s).session_index = s
  BY DEF Connected, SystemPackets
<1>2. /\ Len(q) \in Nat
      /\ DOMAIN q = 1 .. Len(q)
      /\ DOMAIN Append(q, Connected(s)) = 1 .. Len(q) + 1
      /\ \A i \in 1 .. Len(q) : Append(q, Connected(s))[i] = q[i]
      /\ Append(q, Connected(s))[Len(q) + 1] = Connected(s)
  BY <1>1, AppendProperties, LenProperties
<1>3. \A i \in 1 .. Len(q) : q[i].session_index # s
  BY <1>2 DEF SystemPacketQueued
<1>4. Len(q) + 1 \in 1 .. Len(q) + 1
      /\ \A j \in 1 .. Len(q) + 1 : j \in 1 .. Len(q) \/ j = Len(q) + 1
  BY <1>2
<1>5. DOMAIN q' = 1 .. Len(q) + 1 /\ q' = Append(q, Connected(s))
  BY <1>2
<1>6. \A j \in DOMAIN q' : q'[j].session_index = s => j = Len(q) + 1
  BY <1>2, <1>3, <1>4, <1>5
<1> HIDE DEF q
<1>7. q'[Len(q) + 1] = Connected(s) /\ Len(q) + 1 \in DOMAIN q'
  BY <1>2, <1>4, <1>5
<1>8. Connected(s)' = Connected(s)
  BY DEF Connected
<1> QED BY <1>6, <1>7, <1>8 DEF OnlyConnectQueued, q

\* What the packet thread has left to serve when it has taken a system packet.
LEMMA SystemPacketTaken ==
  ASSUME system_packet_queue_ \in Seq(SystemPackets), system_packet_queue_ # <<>>,
         system_packet_queue_' = Tail(system_packet_queue_), NEW s \in Sessions
  PROVE  /\ Head(system_packet_queue_) \in SystemPackets
         /\ Head(system_packet_queue_).session_index # s =>
              /\ SystemPacketQueued(s)' <=> SystemPacketQueued(s)
              /\ OnlyConnectQueued(s) => OnlyConnectQueued(s)'
         /\ Head(system_packet_queue_).session_index = s =>
              /\ SystemPacketQueued(s)
              /\ OnlyConnectQueued(s) =>
                   /\ Head(system_packet_queue_) = Connected(s)
                   /\ ~SystemPacketQueued(s)'
<1> DEFINE q == system_packet_queue_
<1>1. /\ Len(q) \in Nat \ {0}
      /\ DOMAIN q = 1 .. Len(q)
      /\ DOMAIN Tail(q) = 1 .. Len(q) - 1
      /\ \A i \in 1 .. Len(q) - 1 : Tail(q)[i] = q[i + 1]
      /\ Head(q) = q[1] /\ Head(q) \in SystemPackets
  <2>1. Len(q) \in Nat /\ DOMAIN q = 1 .. Len(q) /\ (Len(q) = 0 => q = <<>>)
    BY LenProperties, EmptySeq
  <2>2. /\ Tail(q) \in Seq(SystemPackets)
        /\ Len(Tail(q)) = Len(q) - 1
        /\ \A i \in 1 .. Len(Tail(q)) : Tail(q)[i] = q[i + 1]
        /\ Head(q) = q[1] /\ Head(q) \in SystemPackets
    BY HeadTailProperties
  <2>3. DOMAIN Tail(q) = 1 .. Len(Tail(q))
    BY <2>2, LenProperties
  <2> QED BY <2>1, <2>2, <2>3
<1>2. \A i \in 1 .. Len(q) : i = 1 \/ (i - 1 \in 1 .. Len(q) - 1 /\ Tail(q)[i - 1] = q[i])
  BY <1>1
<1>3. \A i \in 1 .. Len(q) - 1 : i + 1 \in 1 .. Len(q) /\ i + 1 # 1 /\ Tail(q)[i] = q[i + 1]
  BY <1>1
<1>4. 1 \in 1 .. Len(q)
  BY <1>1
<1>5. DOMAIN q' = 1 .. Len(q) - 1 /\ q' = Tail(q)
  BY <1>1
<1>6. SystemPacketQueued(s) <=> \E i \in 1 .. Len(q) : q[i].session_index = s
  BY <1>1 DEF SystemPacketQueued
<1>7. SystemPacketQueued(s)' <=> \E i \in 1 .. Len(q) - 1 : Tail(q)[i].session_index = s
  BY <1>5 DEF SystemPacketQueued
<1>8. Connected(s)' = Connected(s) /\ Connected(s).session_index = s
  BY DEF Connected
<1>9. OnlyConnectQueued(s) <=>
        \E i \in 1 .. Len(q) :
          q[i] = Connected(s) /\ \A j \in 1 .. Len(q) : q[j].session_index = s => j = i
  BY <1>1 DEF OnlyConnectQueued
<1>10. OnlyConnectQueued(s)' <=>
         \E i \in 1 .. Len(q) - 1 :
           /\ Tail(q)[i] = Connected(s)
           /\ \A j \in 1 .. Len(q) - 1 : Tail(q)[j].session_index = s => j = i
  BY <1>5, <1>8 DEF OnlyConnectQueued
<1> DEFINE n == Len(q) - 1
<1>11. ASSUME Head(q).session_index # s, OnlyConnectQueued(s) PROVE OnlyConnectQueued(s)'
  <2>1. PICK i \in 1 .. Len(q) :
          q[i] = Connected(s) /\ \A j \in 1 .. Len(q) : q[j].session_index = s => j = i
    BY <1>9, <1>11
  <2>2. i # 1
    BY <1>1, <1>8, <1>11, <2>1
  <2>3. i - 1 \in 1 .. Len(q) - 1 /\ Tail(q)[i - 1] = Connected(s)
    BY <1>2, <2>1, <2>2
  <2>4. \A j \in 1 .. Len(q) - 1 : Tail(q)[j].session_index = s => j = i - 1
    <3>1. TAKE j \in 1 .. Len(q) - 1
    <3>2. j + 1 \in 1 .. Len(q) /\ Tail(q)[j] = q[j + 1]
      BY <1>3
    <3>3. Tail(q)[j].session_index = s => j + 1 = i
      BY <2>1, <3>2
    <3>4. j + 1 = i => j = i - 1
      BY <2>1, <3>1
    <3> QED BY <3>3, <3>4
  <2> QED BY <1>10, <2>3, <2>4
<1> HIDE DEF q
<1>12. Head(q).session_index # s => (SystemPacketQueued(s)' <=> SystemPacketQueued(s))
  BY <1>1, <1>2, <1>3, <1>6, <1>7
<1>13. Head(q).session_index = s => SystemPacketQueued(s)
  BY <1>1, <1>4, <1>6
<1>14. Head(q).session_index = s /\ OnlyConnectQueued(s) =>
         Head(q) = Connected(s) /\ ~SystemPacketQueued(s)'
  BY <1>1, <1>3, <1>4, <1>7, <1>9
<1> QED BY <1>1, <1>11, <1>12, <1>13, <1>14 DEF q

\* A step that does not touch a session leaves its accounts as they were.
LEMMA Undisturbed ==
  ASSUME NEW s \in Sessions, Accounts(s),
         conn'[s] = conn[s], awaiting'[s] = awaiting[s], receiving'[s] = receiving[s],
         packet_buf_'[s] = packet_buf_[s], LoginsInFlight(s)' = LoginsInFlight(s),
         Listed(s)' => Listed(s), current # s => current' # s,
         Completing(s)' <=> Completing(s),
         SystemPacketQueued(s)' <=> SystemPacketQueued(s),
         OnlyConnectQueued(s) => OnlyConnectQueued(s)'
  PROVE  Accounts(s)'
BY DEF Accounts, Fresh, Owed

\* A handler answers its request, or hands it to Redis.
LEMMA HandlerAnswers ==
  ASSUME TypeOK, PacketInHand, HandleUserPacket
  PROVE  /\ pc = "handle" /\ pc' = "complete"
         /\ current \in Sessions /\ packet_buf_[current] # <<>>
         /\ UNCHANGED <<conn, receiving, packet_buf_, incoming_packet_user_index_queue_,
                        system_packet_queue_, task_res_queue_, current, live>>
         /\ \/ Reply(current) /\ UNCHANGED task_req_queue_
            \/ task_req_queue_' = Append(task_req_queue_, current) /\ UNCHANGED awaiting
<1>1. /\ pc = "handle" /\ pc' = "complete"
      /\ current \in Sessions /\ packet_buf_[current] # <<>>
      /\ UNCHANGED <<conn, receiving, packet_buf_, incoming_packet_user_index_queue_,
                     system_packet_queue_, task_res_queue_, current, live>>
  BY DEF HandleUserPacket, PacketInHand, network
<1> DEFINE packet == Head(packet_buf_[current])
<1>2. packet \in Requests
  BY <1>1, HeadTailProperties DEF TypeOK
<1>3. packet.id \in {"kLOGIN_REQUEST", "kROOM_ENTER_REQUEST", "kROOM_LEAVE_REQUEST",
                    "kROOM_CHAT_REQUEST"}
  BY <1>2 DEF Requests, HandleUserPacket, HasHandler
<1>4. \/ LoginHandler(current, packet.body)
      \/ EnterRoomHandler(current, packet.body)
      \/ LeaveRoomHandler(current)
      \/ RoomChatHandler(current)
  BY <1>3 DEF HandleUserPacket
<1>5. \/ Reply(current) /\ UNCHANGED task_req_queue_
      \/ task_req_queue_' = Append(task_req_queue_, current) /\ UNCHANGED awaiting
  BY <1>4 DEF LoginHandler, AskRedis, EnterRoomHandler, LeaveRoomHandler, RoomChatHandler
<1> QED BY <1>1, <1>5

\* What Reply does to the counts.
LEMMA ReplyCounts ==
  ASSUME TypeOK, NEW s \in Sessions, Reply(s), NEW x \in Sessions
  PROVE  awaiting'[x] = IF x = s /\ conn[s] = "open" THEN awaiting[x] - 1 ELSE awaiting[x]
BY DEF TypeOK, Reply

LEMMA CallbacksAccount ==
  ASSUME "early" \notin Liberties, "backlog" \notin Liberties,
         TypeOK, TypeOK', AnswersInv, NEW s \in Sessions,
         OnConnect(s) \/ OnDisconnect(s) \/ EnqueuePacketData(s) \/ PushUserIndex(s)
  PROVE  AnswersInv'
<1>0. SUFFICES ASSUME NEW x \in Sessions PROVE Accounts(x)'
  BY DEF AnswersInv
<1>1. Accounts(x)
  BY DEF AnswersInv
<1>2. UNCHANGED <<task_req_queue_, task_res_queue_, pc, current>>
  BY DEF OnConnect, OnDisconnect, EnqueuePacketData, PushUserIndex, queues, thread
<1>3. LoginsInFlight(x)' = LoginsInFlight(x) /\ (Completing(x)' <=> Completing(x))
  BY <1>2, LoginsStep DEF Completing
<1>4. system_packet_queue_ \in Seq(SystemPackets)
  BY DEF TypeOK
<1>5. CASE OnConnect(s)
  <2>1. /\ ~receiving[s] /\ Quiet(s)
        /\ UNCHANGED <<receiving, packet_buf_, incoming_packet_user_index_queue_>>
        /\ conn' = [conn EXCEPT ![s] = "open"]
        /\ awaiting' = [awaiting EXCEPT ![s] = 0]
        /\ system_packet_queue_' = Append(system_packet_queue_, Connected(s))
    BY <1>5 DEF OnConnect, Calls!Connect, Connected
  <2>2. Listed(x)' <=> Listed(x)
    BY <2>1, ListedSame
  <2>3. CASE x = s
    <3>1. OnlyConnectQueued(s)'
      BY <1>4, <2>1, ConnectQueuedAlone DEF Quiet
    <3>2. awaiting'[s] = 0
      BY <2>1 DEF TypeOK
    <3> QED BY <1>2, <1>3, <2>1, <2>2, <2>3, <3>1, <3>2 DEF Accounts, Fresh, Quiet
  <2>4. CASE x # s
    <3>1. Connected(s) \in SystemPackets /\ Connected(s).session_index # x
      BY <2>4 DEF Connected, SystemPackets
    <3>2. /\ SystemPacketQueued(x)' <=> SystemPacketQueued(x)
          /\ OnlyConnectQueued(x) => OnlyConnectQueued(x)'
      BY <1>4, <2>1, <3>1, QueuedForAnother
    <3>3. conn'[x] = conn[x] /\ awaiting'[x] = awaiting[x]
      BY <2>1, <2>4 DEF TypeOK
    <3> QED BY <1>1, <1>2, <1>3, <2>1, <2>2, <3>2, <3>3, Undisturbed
  <2> QED BY <2>3, <2>4
<1>6. CASE OnDisconnect(s)
  <2> DEFINE p == [id |-> "kSYS_USER_DISCONNECT", session_index |-> s]
  <2>1. /\ UNCHANGED <<receiving, packet_buf_, incoming_packet_user_index_queue_>>
        /\ \E c \in {"closed", "free"} : conn' = [conn EXCEPT ![s] = c]
        /\ awaiting' = [awaiting EXCEPT ![s] = 0]
        /\ system_packet_queue_' = Append(system_packet_queue_, p)
    BY <1>6 DEF OnDisconnect, Calls!Disconnect
  <2>2. Listed(x)' <=> Listed(x)
    BY <2>1, ListedSame
  <2>3. CASE x = s
    <3>1. conn'[s] # "open"
      BY <2>1 DEF TypeOK
    <3> QED BY <2>3, <3>1 DEF Accounts
  <2>4. CASE x # s
    <3>1. p \in SystemPackets /\ p.session_index # x
      BY <2>4 DEF SystemPackets
    <3> HIDE DEF p
    <3>2. /\ SystemPacketQueued(x)' <=> SystemPacketQueued(x)
          /\ OnlyConnectQueued(x) => OnlyConnectQueued(x)'
      BY <1>4, <2>1, <3>1, QueuedForAnother
    <3>3. conn'[x] = conn[x] /\ awaiting'[x] = awaiting[x]
      BY <2>1, <2>4 DEF TypeOK
    <3> QED BY <1>1, <1>2, <1>3, <2>1, <2>2, <3>2, <3>3, Undisturbed
  <2> QED BY <2>3, <2>4
<1>7. CASE EnqueuePacketData(s)
  <2>1. /\ UNCHANGED <<conn, incoming_packet_user_index_queue_, system_packet_queue_>>
        /\ receiving' = [receiving EXCEPT ![s] = TRUE]
        /\ conn[s] = "open" => ~SystemPacketQueued(s)
    BY <1>7 DEF EnqueuePacketData, Calls!RecvBegins, queues
  <2>2. PICK n \in 1 .. (IF "pipeline" \in Liberties THEN MaxChunk ELSE 1) :
          /\ \E packets \in [1 .. n -> Requests] :
               packet_buf_' = [packet_buf_ EXCEPT ![s] = @ \o packets]
          /\ awaiting' = IF conn[s] = "open" THEN [awaiting EXCEPT ![s] = @ + n]
                                             ELSE awaiting
    BY <1>7 DEF EnqueuePacketData, Calls!RecvBegins
  <2>3. PICK packets \in [1 .. n -> Requests] :
          packet_buf_' = [packet_buf_ EXCEPT ![s] = @ \o packets]
    BY <2>2
  <2>4. /\ SystemPacketQueued(x)' <=> SystemPacketQueued(x)
        /\ OnlyConnectQueued(x) <=> OnlyConnectQueued(x)'
        /\ Listed(x)' <=> Listed(x)
    BY <2>1 DEF SystemPacketQueued, OnlyConnectQueued, Connected, Listed
  <2>5. CASE x = s /\ conn[s] = "open"
    <3>1. n \in Nat /\ packets \in Seq(Requests)
      <4>1. n \in Nat
        BY <2>2, BoundsAssumption
      <4> QED BY <4>1, SeqDef
    <3>2. Len(packets) = n
      BY <3>1, LenProperties
    <3>3. Len(packet_buf_'[s]) = Len(packet_buf_[s]) + n /\ Len(packet_buf_[s]) \in Nat
      <4>1. packet_buf_[s] \in Seq(Requests)
        BY DEF TypeOK
      <4>2. packet_buf_'[s] = packet_buf_[s] \o packets
        BY <2>3 DEF TypeOK
      <4>3. Len(packet_buf_[s] \o packets) = Len(packet_buf_[s]) + Len(packets)
        BY <3>1, <4>1, ConcatProperties
      <4>4. Len(packet_buf_[s]) \in Nat
        BY <4>1, LenProperties
      <4> QED BY <3>2, <4>2, <4>3, <4>4
    <3>4. awaiting'[s] = awaiting[s] + n /\ awaiting[s] \in Int
      BY <2>2, <2>5 DEF TypeOK
    <3>5. ~SystemPacketQueued(s) /\ awaiting[s] = Owed(s)
      <4>1. OnlyConnectQueued(s) => SystemPacketQueued(s)
        BY DEF OnlyConnectQueued, SystemPacketQueued, Connected
      <4> QED BY <1>1, <2>1, <2>5, <4>1 DEF Accounts, Fresh
    <3>6. LoginsInFlight(s) \in Nat
      BY LoginsCounted
    <3> DEFINE done == IF Completing(s) THEN 1 ELSE 0
    <3>7. done' = done /\ done \in Int
      BY <1>3, <2>5
    <3>8. Owed(s) = Len(packet_buf_[s]) + LoginsInFlight(s) - done
      BY DEF Owed
    <3>9. Owed(s)' = Len(packet_buf_'[s]) + LoginsInFlight(s)' - done'
      BY DEF Owed
    <3> HIDE DEF done
    <3>10. awaiting'[s] = Owed(s)'
      BY <1>3, <2>5, <3>1, <3>3, <3>4, <3>5, <3>6, <3>7, <3>8, <3>9
    <3> QED BY <2>4, <2>5, <3>5, <3>10 DEF Accounts
  <2>6. CASE x = s /\ conn[s] # "open"
    BY <2>1, <2>6 DEF Accounts
  <2>7. CASE x # s
    <3>1. /\ receiving'[x] = receiving[x] /\ awaiting'[x] = awaiting[x]
          /\ packet_buf_'[x] = packet_buf_[x]
      BY <2>1, <2>2, <2>3, <2>7 DEF TypeOK
    <3> QED BY <1>1, <1>2, <1>3, <2>1, <2>4, <3>1, Undisturbed
  <2> QED BY <2>5, <2>6, <2>7
<1>8. CASE PushUserIndex(s)
  <2>1. /\ UNCHANGED <<conn, awaiting, packet_buf_, system_packet_queue_>>
        /\ receiving[s]
        /\ receiving' = [receiving EXCEPT ![s] = FALSE]
        /\ incoming_packet_user_index_queue_' =
             Append(incoming_packet_user_index_queue_, s)
    BY <1>8 DEF PushUserIndex, Calls!RecvEnds, client
  <2>2. incoming_packet_user_index_queue_ \in Seq(Sessions)
    BY DEF TypeOK
  <2>3. Listed(x)' <=> Listed(x) \/ x = s
    BY <2>1, <2>2, ListedAppend
  <2>4. /\ SystemPacketQueued(x)' <=> SystemPacketQueued(x)
        /\ OnlyConnectQueued(x) <=> OnlyConnectQueued(x)'
    BY <2>1 DEF SystemPacketQueued, OnlyConnectQueued, Connected
  <2>5. CASE x = s
    <3>1. Owed(s)' = Owed(s)
      BY <1>3, <2>1, <2>5 DEF Owed
    <3> QED BY <1>1, <2>1, <2>4, <2>5, <3>1 DEF Accounts, Fresh
  <2>6. CASE x # s
    <3>1. receiving'[x] = receiving[x]
      BY <2>1, <2>6 DEF TypeOK
    <3> QED BY <1>1, <1>2, <1>3, <2>1, <2>3, <2>4, <2>6, <3>1, Undisturbed
  <2> QED BY <2>5, <2>6
<1> QED BY <1>5, <1>6, <1>7, <1>8

LEMMA HandlerAccounts ==
  ASSUME TypeOK, TypeOK', PacketInHand, AnswersInv, HandleUserPacket
  PROVE  AnswersInv'
<1> SUFFICES ASSUME NEW x \in Sessions PROVE Accounts(x)'
  BY DEF AnswersInv
<1>1. Accounts(x)
  BY DEF AnswersInv
<1>2. /\ pc = "handle" /\ pc' = "complete"
      /\ current \in Sessions /\ packet_buf_[current] # <<>>
      /\ UNCHANGED <<conn, receiving, packet_buf_, incoming_packet_user_index_queue_,
                     system_packet_queue_, task_res_queue_, current>>
      /\ \/ Reply(current) /\ UNCHANGED task_req_queue_
         \/ task_req_queue_' = Append(task_req_queue_, current) /\ UNCHANGED awaiting
  BY HandlerAnswers
<1>3. /\ SystemPacketQueued(x)' <=> SystemPacketQueued(x)
      /\ OnlyConnectQueued(x)' <=> OnlyConnectQueued(x)
      /\ Listed(x)' <=> Listed(x)
  BY <1>2 DEF SystemPacketQueued, OnlyConnectQueued, Connected, Listed
<1>4. CASE x # current
  <2>1. awaiting'[x] = awaiting[x]
    BY <1>2, <1>4, ReplyCounts
  <2>2. LoginsInFlight(x)' = LoginsInFlight(x)
    <3>1. LoginsInFlight(x) \in Nat
      BY LoginsCounted
    <3>2. CASE UNCHANGED task_req_queue_
      BY <1>2, <3>2, LoginsStep
    <3>3. CASE task_req_queue_' = Append(task_req_queue_, current)
      <4>1. LoginsInFlight(x)' = LoginsInFlight(x) + (IF current = x THEN 1 ELSE 0)
        BY <1>2, <3>3, LoginsStep
      <4> QED BY <1>4, <3>1, <4>1
    <3> QED BY <1>2, <3>2, <3>3
  <2>3. Completing(x)' <=> Completing(x)
    BY <1>2, <1>4 DEF Completing
  <2> QED BY <1>1, <1>2, <1>3, <2>1, <2>2, <2>3, Undisturbed
<1>5. CASE x = current /\ conn[x] = "open"
  <2>1. ~SystemPacketQueued(x) /\ awaiting[x] = Owed(x)
    BY <1>1, <1>5 DEF Accounts, Fresh
  <2>2. ~Completing(x) /\ Completing(x)'
    BY <1>2, <1>5 DEF Completing
  <2>3. awaiting[x] = Len(packet_buf_[x]) + LoginsInFlight(x)
    <3>1. LoginsInFlight(x) \in Nat /\ Len(packet_buf_[x]) \in Nat
      BY LoginsCounted, LenProperties DEF TypeOK
    <3> QED BY <2>1, <2>2, <3>1 DEF Owed
  <2>4. Owed(x)' = Len(packet_buf_[x]) + LoginsInFlight(x)' - 1
    BY <1>2, <2>2 DEF Owed
  <2>5. awaiting'[x] - LoginsInFlight(x)' = awaiting[x] - LoginsInFlight(x) - 1
    <3>1. LoginsInFlight(x) \in Nat /\ awaiting[x] \in Int
      BY LoginsCounted DEF TypeOK
    <3>2. CASE Reply(current) /\ UNCHANGED task_req_queue_
      <4>1. awaiting'[x] = awaiting[x] - 1
        BY <1>2, <1>5, <3>2, ReplyCounts
      <4>2. LoginsInFlight(x)' = LoginsInFlight(x)
        BY <1>2, <3>2, LoginsStep
      <4> QED BY <3>1, <4>1, <4>2
    <3>3. CASE task_req_queue_' = Append(task_req_queue_, current) /\ UNCHANGED awaiting
      <4>1. LoginsInFlight(x)' = LoginsInFlight(x) + 1
        BY <1>2, <1>5, <3>3, LoginsStep
      <4> QED BY <3>1, <3>3, <4>1
    <3> QED BY <1>2, <3>2, <3>3
  <2>6. /\ LoginsInFlight(x) \in Nat /\ LoginsInFlight(x)' \in Nat
        /\ Len(packet_buf_[x]) \in Nat /\ awaiting'[x] \in Int
    BY LoginsStep, LenProperties DEF TypeOK
  <2>7. awaiting'[x] = Owed(x)'
    <3>1. \A a \in Int, k, l, n \in Nat : a - k = (n + l) - l - 1 => a = n + k - 1
      OBVIOUS
    <3> QED BY <2>3, <2>4, <2>5, <2>6, <3>1
  <2> QED BY <1>3, <2>1, <2>7 DEF Accounts
<1>6. CASE conn[x] # "open"
  BY <1>2, <1>6 DEF Accounts
<1> QED BY <1>4, <1>5, <1>6

LEMMA CompleteAccounts ==
  ASSUME TypeOK, TypeOK', PacketInHand, AnswersInv, CompleteProcess
  PROVE  AnswersInv'
<1> SUFFICES ASSUME NEW x \in Sessions PROVE Accounts(x)'
  BY DEF AnswersInv
<1>1. Accounts(x)
  BY DEF AnswersInv
<1>2. /\ pc = "complete" /\ pc' = "system"
      /\ current \in Sessions /\ packet_buf_[current] # <<>> /\ current' = NoSession
      /\ packet_buf_' = [packet_buf_ EXCEPT ![current] = Tail(@)]
      /\ incoming_packet_user_index_queue_' \in
           {incoming_packet_user_index_queue_,
            Append(incoming_packet_user_index_queue_, current)}
      /\ UNCHANGED <<conn, receiving, awaiting, system_packet_queue_,
                     task_req_queue_, task_res_queue_>>
  BY DEF CompleteProcess, PacketInHand, ListAgain, network, client
<1>3. /\ SystemPacketQueued(x)' <=> SystemPacketQueued(x)
      /\ OnlyConnectQueued(x)' <=> OnlyConnectQueued(x)
  BY <1>2 DEF SystemPacketQueued, OnlyConnectQueued, Connected
<1>4. LoginsInFlight(x)' = LoginsInFlight(x)
  BY <1>2, LoginsStep
<1>5. CASE x # current
  <2>1. Listed(x)' <=> Listed(x)
    <3>1. incoming_packet_user_index_queue_ \in Seq(Sessions)
      BY DEF TypeOK
    <3>2. CASE UNCHANGED incoming_packet_user_index_queue_
      BY <3>2, ListedSame
    <3>3. CASE incoming_packet_user_index_queue_' =
                 Append(incoming_packet_user_index_queue_, current)
      BY <1>2, <1>5, <3>1, <3>3, ListedAppend
    <3> QED BY <1>2, <3>2, <3>3
  <2>2. packet_buf_'[x] = packet_buf_[x]
    BY <1>2, <1>5 DEF TypeOK
  <2>3. (Completing(x)' <=> Completing(x)) /\ current' # x
    BY <1>2, <1>5, NamesAssumption DEF Completing
  <2> QED BY <1>1, <1>2, <1>3, <1>4, <2>1, <2>2, <2>3, Undisturbed
<1>6. CASE x = current /\ conn[x] = "open"
  <2>1. ~SystemPacketQueued(x) /\ awaiting[x] = Owed(x)
    BY <1>1, <1>6 DEF Accounts, Fresh
  <2>2. Completing(x) /\ ~Completing(x)'
    BY <1>2, <1>6 DEF Completing
  <2>3. Len(packet_buf_'[x]) = Len(packet_buf_[x]) - 1 /\ Len(packet_buf_[x]) \in Nat
    <3>1. packet_buf_[x] \in Seq(Requests) /\ packet_buf_[x] # <<>>
      BY <1>2, <1>6 DEF TypeOK
    <3>2. packet_buf_'[x] = Tail(packet_buf_[x])
      BY <1>2, <1>6 DEF TypeOK
    <3> QED BY <3>1, <3>2, HeadTailProperties, LenProperties
  <2>4. LoginsInFlight(x) \in Nat
    BY LoginsCounted
  <2>5. Owed(x) = Len(packet_buf_[x]) + LoginsInFlight(x) - 1
    BY <2>2 DEF Owed
  <2>6. Owed(x)' = Len(packet_buf_'[x]) + LoginsInFlight(x)' - 0
    BY <2>2 DEF Owed
  <2>7. Owed(x)' = Owed(x)
    BY <1>4, <2>3, <2>4, <2>5, <2>6
  <2> QED BY <1>2, <1>3, <2>1, <2>7 DEF Accounts
<1>7. CASE conn[x] # "open"
  BY <1>2, <1>7 DEF Accounts
<1> QED BY <1>5, <1>6, <1>7

LEMMA SystemAccounts ==
  ASSUME TypeOK, TypeOK', AnswersInv, ServeSystemPacket
  PROVE  AnswersInv'
<1> SUFFICES ASSUME NEW x \in Sessions PROVE Accounts(x)'
  BY DEF AnswersInv
<1>1. Accounts(x)
  BY DEF AnswersInv
<1>2. /\ pc = "system" /\ pc' = "redis"
      /\ UNCHANGED <<conn, receiving, incoming_packet_user_index_queue_,
                     task_req_queue_, task_res_queue_, current>>
  BY DEF ServeSystemPacket, network
<1>3. /\ LoginsInFlight(x)' = LoginsInFlight(x)
      /\ Listed(x)' <=> Listed(x)
      /\ ~Completing(x) /\ ~Completing(x)'
  BY <1>2, LoginsStep, ListedSame DEF Completing
<1>4. CASE system_packet_queue_ = <<>>
  <2>1. UNCHANGED <<system_packet_queue_, awaiting, packet_buf_>>
    BY <1>4 DEF ServeSystemPacket, client
  <2>2. /\ SystemPacketQueued(x)' <=> SystemPacketQueued(x)
        /\ OnlyConnectQueued(x)' <=> OnlyConnectQueued(x)
    BY <2>1 DEF SystemPacketQueued, OnlyConnectQueued, Connected
  <2> QED BY <1>1, <1>2, <1>3, <2>1, <2>2, Undisturbed
<1>5. CASE system_packet_queue_ # <<>>
  <2> DEFINE p == Head(system_packet_queue_)
  <2>1. /\ system_packet_queue_' = Tail(system_packet_queue_)
        /\ p.id = "kSYS_USER_CONNECT" => ConnectHandler(p.session_index)
        /\ p.id # "kSYS_USER_CONNECT" => DisconnectHandler(p.session_index)
    BY <1>5 DEF ServeSystemPacket
  <2>2. system_packet_queue_ \in Seq(SystemPackets)
    BY DEF TypeOK
  <2>3. p \in SystemPackets
    BY <1>5, <2>1, <2>2, SystemPacketTaken
  <2>4. UNCHANGED awaiting
    BY <2>1 DEF ConnectHandler, DisconnectHandler, client
  <2>5. CASE p.session_index # x
    <3>1. packet_buf_'[x] = packet_buf_[x]
      BY <2>1, <2>5 DEF ConnectHandler, DisconnectHandler, TypeOK
    <3>2. /\ SystemPacketQueued(x)' <=> SystemPacketQueued(x)
          /\ OnlyConnectQueued(x) => OnlyConnectQueued(x)'
      BY <1>5, <2>1, <2>2, <2>5, SystemPacketTaken
    <3> QED BY <1>1, <1>2, <1>3, <2>4, <3>1, <3>2, Undisturbed
  <2>6. CASE p.session_index = x /\ conn[x] = "open"
    <3>1. Fresh(x)
      <4>1. SystemPacketQueued(x)
        BY <1>5, <2>1, <2>2, <2>6, SystemPacketTaken
      <4> QED BY <1>1, <2>6, <4>1 DEF Accounts
    <3>2. p = Connected(x) /\ ~SystemPacketQueued(x)'
      BY <1>5, <2>1, <2>2, <2>6, <3>1, SystemPacketTaken DEF Fresh
    <3>3. packet_buf_'[x] = <<>>
      BY <2>1, <2>6, <3>2, SMTT(30) DEF ConnectHandler, TypeOK, Connected
    <3>4. Owed(x)' = Len(packet_buf_'[x]) + LoginsInFlight(x)' - 0
      BY <1>3 DEF Owed
    <3>5. Owed(x)' = 0
      <4>1. Len(<<>>) = 0
        BY EmptySeq
      <4> QED BY <1>3, <3>1, <3>3, <3>4, <4>1 DEF Fresh
    <3> QED BY <2>4, <3>1, <3>2, <3>5 DEF Accounts, Fresh
  <2>7. CASE conn[x] # "open"
    BY <1>2, <2>7 DEF Accounts
  <2> QED BY <2>5, <2>6, <2>7
<1> QED BY <1>4, <1>5

LEMMA AnswerAccounts ==
  ASSUME TypeOK, TypeOK', AnswersInv, ServeRedisAnswer
  PROVE  AnswersInv'
<1> SUFFICES ASSUME NEW x \in Sessions PROVE Accounts(x)'
  BY DEF AnswersInv
<1>1. Accounts(x)
  BY DEF AnswersInv
<1>2. /\ pc = "redis" /\ pc' = "user"
      /\ UNCHANGED <<conn, receiving, packet_buf_, incoming_packet_user_index_queue_,
                     system_packet_queue_, task_req_queue_, current>>
  BY DEF ServeRedisAnswer, network, LoginDBResHandler
<1>3. /\ Listed(x)' <=> Listed(x)
      /\ ~Completing(x) /\ ~Completing(x)'
      /\ SystemPacketQueued(x)' <=> SystemPacketQueued(x)
      /\ OnlyConnectQueued(x)' <=> OnlyConnectQueued(x)
  BY <1>2 DEF Completing, SystemPacketQueued, OnlyConnectQueued, Connected, Listed
<1>4. CASE task_res_queue_ = <<>>
  <2>1. UNCHANGED <<task_res_queue_, awaiting>>
    BY <1>4 DEF ServeRedisAnswer, client
  <2>2. LoginsInFlight(x)' = LoginsInFlight(x)
    BY <1>2, <2>1, LoginsStep
  <2> QED BY <1>1, <1>2, <1>3, <2>1, <2>2, Undisturbed
<1>5. CASE task_res_queue_ # <<>>
  <2> DEFINE s == Head(task_res_queue_).user_idx
  <2>1. s \in Sessions
    <3>1. Head(task_res_queue_) \in Answers
      BY <1>5, HeadTailProperties DEF TypeOK
    <3> QED BY <3>1 DEF Answers
  <2>2. Reply(s) /\ task_res_queue_' = Tail(task_res_queue_)
    BY <1>5 DEF ServeRedisAnswer, LoginDBResHandler
  <2>3. LoginsInFlight(x) = LoginsInFlight(x)' + (IF s = x THEN 1 ELSE 0)
    BY <1>2, <1>5, <2>2, LoginsStep
  <2> HIDE DEF s
  <2>4. LoginsInFlight(x) \in Nat /\ LoginsInFlight(x)' \in Nat
    BY LoginsStep
  <2>5. CASE s # x
    <3>1. awaiting'[x] = awaiting[x]
      BY <2>1, <2>2, <2>5, ReplyCounts
    <3>2. LoginsInFlight(x)' = LoginsInFlight(x)
      BY <2>3, <2>4, <2>5
    <3> QED BY <1>1, <1>2, <1>3, <3>1, <3>2, Undisturbed
  <2>6. CASE s = x /\ conn[x] = "open"
    <3>1. LoginsInFlight(x) = LoginsInFlight(x)' + 1
      BY <2>3, <2>6
    <3>2. ~SystemPacketQueued(x) /\ awaiting[x] = Owed(x)
      <4>1. LoginsInFlight(x) # 0
        BY <2>4, <3>1
      <4> QED BY <1>1, <2>6, <4>1 DEF Accounts, Fresh
    <3>3. awaiting'[x] = awaiting[x] - 1
      BY <2>1, <2>2, <2>6, ReplyCounts
    <3>4. Owed(x) = Len(packet_buf_[x]) + LoginsInFlight(x) - 0
      BY <1>3 DEF Owed
    <3>5. Owed(x)' = Len(packet_buf_[x]) + LoginsInFlight(x)' - 0
      BY <1>2, <1>3 DEF Owed
    <3>6. Len(packet_buf_[x]) \in Nat
      BY LenProperties DEF TypeOK
    <3>7. awaiting'[x] = Owed(x)'
      BY <2>4, <3>1, <3>2, <3>3, <3>4, <3>5, <3>6
    <3> QED BY <1>3, <3>2, <3>7 DEF Accounts
  <2>7. CASE conn[x] # "open"
    BY <1>2, <2>7 DEF Accounts
  <2> QED BY <2>5, <2>6, <2>7
<1> QED BY <1>4, <1>5

LEMMA AnswersStep ==
  ASSUME "early" \notin Liberties, "backlog" \notin Liberties,
         TypeOK, TypeOK', PacketInHand, AnswersInv, [Next]_vars
  PROVE  AnswersInv'
<1>1. CASE \E s \in Sessions :
            OnConnect(s) \/ OnDisconnect(s) \/ EnqueuePacketData(s) \/ PushUserIndex(s)
  BY <1>1, CallbacksAccount
<1>2. CASE HandleUserPacket
  BY <1>2, HandlerAccounts
<1>3. CASE CompleteProcess
  BY <1>3, CompleteAccounts
<1>4. CASE ServeSystemPacket
  BY <1>4, SystemAccounts
<1>5. CASE ServeRedisAnswer
  BY <1>5, AnswerAccounts
<1>6. CASE NoUserIndex \/ DequeuePacket \/ NoHandler \/ RedisLoginHandler \/ UNCHANGED vars
  <2> SUFFICES ASSUME NEW x \in Sessions PROVE Accounts(x)'
    BY DEF AnswersInv
  <2>1. Accounts(x)
    BY DEF AnswersInv
  <2>2. UNCHANGED <<conn, receiving, awaiting, packet_buf_, system_packet_queue_>>
    BY <1>6 DEF NoUserIndex, DequeuePacket, NoHandler, RedisLoginHandler, vars,
                network, client, queues
  <2>3. /\ SystemPacketQueued(x)' <=> SystemPacketQueued(x)
        /\ OnlyConnectQueued(x)' <=> OnlyConnectQueued(x)
    BY <2>2 DEF SystemPacketQueued, OnlyConnectQueued, Connected
  <2>4. LoginsInFlight(x)' = LoginsInFlight(x)
    <3>1. RedisLoginHandler \/ UNCHANGED <<task_req_queue_, task_res_queue_>>
      BY <1>6 DEF NoUserIndex, DequeuePacket, NoHandler, vars, queues
    <3> QED BY <3>1, LoginsStep
  <2>5. Completing(x)' <=> Completing(x)
    BY <1>6 DEF NoUserIndex, DequeuePacket, NoHandler, RedisLoginHandler, vars,
                thread, Completing
  <2>6. CASE DequeuePacket
    <3> DEFINE s == Head(incoming_packet_user_index_queue_)
    <3>1. /\ incoming_packet_user_index_queue_ \in Seq(Sessions)
          /\ incoming_packet_user_index_queue_ # <<>>
          /\ incoming_packet_user_index_queue_' = Tail(incoming_packet_user_index_queue_)
          /\ current' \in {current, s}
      BY <2>6 DEF DequeuePacket, TypeOK
    <3>2. Listed(x)' => Listed(x)
      <4>1. ASSUME Listed(x)' PROVE Listed(x)
        <5> DEFINE q == incoming_packet_user_index_queue_
        <5>1. /\ Tail(q) \in Seq(Sessions)
              /\ Len(Tail(q)) = Len(q) - 1
              /\ \A j \in 1 .. Len(Tail(q)) : Tail(q)[j] = q[j + 1]
          BY <3>1, HeadTailProperties
        <5>2. PICK i \in 1 .. Len(q) - 1 : Tail(q)[i] = x
          <6>1. DOMAIN Tail(q) = 1 .. Len(q) - 1
            BY <5>1, LenProperties
          <6> QED BY <3>1, <4>1, <6>1 DEF Listed
        <5>3. i + 1 \in 1 .. Len(q) /\ q[i + 1] = x
          BY <3>1, <5>1, <5>2, LenProperties
        <5>4. DOMAIN q = 1 .. Len(q)
          BY <3>1, LenProperties
        <5> QED BY <5>3, <5>4 DEF Listed
      <4> QED BY <4>1
    <3>3. Listed(s)
      <4>1. /\ Head(incoming_packet_user_index_queue_) = incoming_packet_user_index_queue_[1]
            /\ 1 \in DOMAIN incoming_packet_user_index_queue_
        BY <3>1, HeadTailProperties, LenProperties, EmptySeq
      <4> QED BY <4>1 DEF Listed
    <3> HIDE DEF s
    <3>4. CASE x = s
      <4>1. ~Fresh(x)
        BY <3>3, <3>4 DEF Fresh
      <4>2. Owed(x)' = Owed(x)
        BY <2>2, <2>4, <2>5 DEF Owed
      <4> QED BY <2>1, <2>2, <2>3, <4>1, <4>2 DEF Accounts
    <3>5. CASE x # s
      <4>1. current # x => current' # x
        BY <3>1, <3>5
      <4> QED BY <2>1, <2>2, <2>3, <2>4, <2>5, <3>2, <4>1, Undisturbed
    <3> QED BY <3>4, <3>5
  <2>7. CASE ~DequeuePacket
    <3>1. UNCHANGED incoming_packet_user_index_queue_
          /\ current' \in {current, NoSession}
      BY <1>6, <2>7 DEF NoUserIndex, NoHandler, RedisLoginHandler, vars, queues, thread
    <3>2. current # x => current' # x
      BY <3>1, NamesAssumption
    <3> QED BY <2>1, <2>2, <2>3, <2>4, <2>5, <3>1, <3>2, ListedSame, Undisturbed
  <2> QED BY <2>6, <2>7
<1> QED BY <1>1, <1>2, <1>3, <1>4, <1>5, <1>6 DEF Next, PacketProcessThread

LEMMA InitAnswers == Init => AnswersInv
BY DEF Init, AnswersInv, Accounts

\* Unless a packet can be early or a slot be reused while something is queued
\* for it, a client is owed exactly one answer for each request, through
\* pipelining, repeated logins, races for an id, hang-ups and connections that
\* end unreported: no handler and no late answer of Redis adds or takes one.
THEOREM EachRequestAnsweredOnce ==
  ASSUME "early" \notin Liberties, "backlog" \notin Liberties
  PROVE  Spec => []AnswersOwed
<1>1. IInv => TypeOK /\ PacketInHand
  BY DEF IInv
<1>2. TypeOK /\ PacketInHand /\ AnswersInv /\ TypeOK' /\ [Next]_vars => AnswersInv'
  BY AnswersStep
<1>3. TypeOK /\ AnswersInv => AnswersOwed
  <2>1. \A s \in Sessions : OnlyConnectQueued(s) => SystemPacketQueued(s)
    BY DEF OnlyConnectQueued, SystemPacketQueued, Connected
  <2>2. ASSUME AnswersInv, NEW s \in Sessions, conn[s] = "open", ~SystemPacketQueued(s)
        PROVE  awaiting[s] = Owed(s)
    BY <2>1, <2>2 DEF AnswersInv, Accounts, Fresh
  <2>3. live \subseteq Sessions => (AnswersInv => AnswersOwed)
    BY <2>2 DEF AnswersOwed, Owed, Completing
  <2> QED BY <2>3 DEF TypeOK
<1> QED BY <1>1, <1>2, <1>3, InitIInv, NextIInv, InitAnswers, PTL DEF Spec
=============================================================================
