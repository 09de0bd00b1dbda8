--------------------------- MODULE PacketManager ---------------------------
(* The content layer of the chat server (Content/): the packet thread, the   *)
(* queues it serves, the users, their ids, the rooms and the Redis worker,   *)
(* driven by the three callbacks of the network layer, which come in the     *)
(* order of Callbacks.                                                       *)
(*                                                                           *)
(* Threads. The packet thread owns users, ids and rooms; every turn of its   *)
(* loop serves one user packet, then one system packet, then one answer of   *)
(* Redis. IOCP workers run OnConnect, OnRecv and OnDisconnect; OnRecv is two *)
(* steps, the packet bytes and then the user's index. The Redis worker       *)
(* turns login tasks into answers.                                           *)
(*                                                                           *)
(* Data. A packet is a record, a user's packet_buf_ a sequence of whole      *)
(* packets that never overflows; a room's user_list_ is how many times each  *)
(* user is in the vector. `live`, `awaiting` and `roster` are not state of   *)
(* the server: they record what its packets have told the clients.           *)
(*                                                                           *)
(* An operator whose comment starts with "Slip:" is no part of the code: it  *)
(* is a plausible mistake in the definition that follows, kept to show that  *)
(* the properties notice it.                                                 *)
EXTENDS Integers, Sequences, FiniteSets

CONSTANTS
  Sessions,             \* session indices, which are also the user indices
  UserIds,
  Rooms,
  NoId,                 \* the empty user_id_
  NoSession,            \* -1, no user has this id
  NoRoom,               \* -1, and any room_number_ that is no room's
  kROOM_MAX_USER_CNT,
  MaxChunk,             \* packets one receive can bring
  MaxRequests,          \* bound: packets received in all
  MaxConnects,          \* bound: connections accepted in all
  Liberties             \* what clients and timing may do, see below

(* Without liberties a client waits for the server to have set it up, sends  *)
(* one request at a time, logs in once, hangs up between requests, no two    *)
(* sessions ask for one id at once, a disconnect is reported once, and a     *)
(* slot is reused after everything queued for it is done. Each lifts one:    *)
(*   "early"     a packet may arrive before CONNECT is processed             *)
(*   "pipeline"  requests may be sent before earlier ones are answered       *)
(*   "relogin"   a logged-in user may send another login                     *)
(*   "race"      an id may be asked for while another session's is pending   *)
(*   "hangup"    a connection may end while requests are unanswered          *)
(*   "double"    the network may report one disconnect twice                 *)
(*   "silent"    a connection may end without any report                     *)
(*   "backlog"   a slot may be reused while packets for it are still queued  *)
(*   "unknown"   a packet may have an id without a handler                   *)
AllLiberties == {"early", "pipeline", "relogin", "race", "hangup", "double",
                 "silent", "backlog", "unknown"}

ASSUME LibertiesAssumption == Liberties \subseteq AllLiberties
ASSUME NamesAssumption ==
  /\ NoId \notin UserIds
  /\ NoSession \notin Sessions
  /\ NoRoom \notin Rooms
ASSUME SessionsAssumption == IsFiniteSet(Sessions)
ASSUME BoundsAssumption ==
  /\ kROOM_MAX_USER_CNT \in Nat
  /\ MaxChunk \in Nat \ {0}
  /\ MaxRequests \in Nat
  /\ MaxConnects \in Nat

VARIABLES
  conn,            \* what was reported of a slot: free, open or closed
  receiving,       \* an IOCP worker is between the two steps of OnRecv
  requests,        \* counts packets received
  connects,        \* counts connections
  packet_buf_,     \* per user, whole packets not yet completed
  incoming_packet_user_index_queue_,
  system_packet_queue_,
  task_req_queue_, \* logins for Redis: the asking session
  task_res_queue_, \* Redis's answers
  pc,              \* where the packet thread is in its loop
  current,         \* the user whose packet it is handling
  domain_state_,
  user_id_,
  room_idx_,
  user_id_map_,
  user_list_,      \* per room, how many times each user is listed
  live,            \* sessions between CONNECT and DISCONNECT processed
  awaiting,        \* answers a connection's client waits for
  roster           \* the room members a connection's client knows of

network == <<conn, receiving, requests, connects>>
client  == <<awaiting, roster>>
queues  == <<incoming_packet_user_index_queue_, system_packet_queue_,
             task_req_queue_, task_res_queue_>>
thread  == <<pc, current>>
users   == <<domain_state_, user_id_, room_idx_, user_id_map_, user_list_, live>>
vars    == <<network, client, packet_buf_, queues, thread, users>>

Ids == UserIds \cup {NoId}

\* What clients send: PACKET_HEADER.id_ and the field the handler reads.
Requests ==
  [id: {"kLOGIN_REQUEST"}, body: UserIds]
    \cup [id: {"kROOM_ENTER_REQUEST"}, body: Rooms \cup {NoRoom}]
    \cup [id: {"kROOM_LEAVE_REQUEST", "kROOM_CHAT_REQUEST", "unknown"},
          body: {NoRoom}]

SystemPackets ==
  [id: {"kSYS_USER_CONNECT", "kSYS_USER_DISCONNECT"}, session_index: Sessions]

Answers == [user_idx: Sessions, ok: BOOLEAN]

\* packet_handlers_ has an entry for it.
HasHandler(packet) == packet.id # "unknown"

-----------------------------------------------------------------------------
(* What is queued for a session. *)

Listed(s) ==
  \E i \in DOMAIN incoming_packet_user_index_queue_ :
    incoming_packet_user_index_queue_[i] = s

SystemPacketQueued(s) ==
  \E i \in DOMAIN system_packet_queue_ :
    system_packet_queue_[i].session_index = s

LoginsInFlight(s) ==
  Cardinality({i \in DOMAIN task_req_queue_ : task_req_queue_[i] = s})
    + Cardinality({i \in DOMAIN task_res_queue_ : task_res_queue_[i].user_idx = s})

\* Session s has asked for id u and has not been answered.
AsksFor(s, u) ==
  \/ \E i \in DOMAIN packet_buf_[s] :
       packet_buf_[s][i] = [id |-> "kLOGIN_REQUEST", body |-> u]
  \/ user_id_[s] = u /\ LoginsInFlight(s) > 0

Quiet(s) ==
  /\ ~Listed(s)
  /\ ~SystemPacketQueued(s)
  /\ LoginsInFlight(s) = 0
  /\ current # s

-----------------------------------------------------------------------------
(* What reaches a client: packets to a slot without a connection are lost. *)

Reply(s) ==
  awaiting' = IF conn[s] = "open" THEN [awaiting EXCEPT ![s] = @ - 1] ELSE awaiting

Informed(x, members) == IF conn[x] = "open" THEN members ELSE roster[x]

-----------------------------------------------------------------------------
(* The network's callbacks (chat_server.cpp:66-104). *)

Calls == INSTANCE Callbacks

OnConnect(s) ==
  /\ Calls!Connect(s)
  /\ "silent" \in Liberties \/ conn[s] # "open"
  /\ connects < MaxConnects
  /\ "backlog" \in Liberties \/ Quiet(s)
  /\ connects' = connects + 1
  /\ awaiting' = [awaiting EXCEPT ![s] = 0]
  /\ roster' = [roster EXCEPT ![s] = {}]
  /\ system_packet_queue_' =
       Append(system_packet_queue_, [id |-> "kSYS_USER_CONNECT", session_index |-> s])
  /\ UNCHANGED <<requests, packet_buf_,
                 incoming_packet_user_index_queue_, task_req_queue_,
                 task_res_queue_, thread, users>>

\* A connection ends: the worker that sees it fail calls OnDisconnect, and
\* under "double" a second worker does the same for its own completion.
OnDisconnect(s) ==
  /\ Calls!Disconnect(s)
  /\ conn[s] = "open" => "hangup" \in Liberties \/ awaiting[s] = 0
  /\ conn[s] = "closed" => "double" \in Liberties
  /\ awaiting' = [awaiting EXCEPT ![s] = 0]
  /\ roster' = [roster EXCEPT ![s] = {}]
  /\ system_packet_queue_' =
       Append(system_packet_queue_, [id |-> "kSYS_USER_DISCONNECT", session_index |-> s])
  /\ UNCHANGED <<requests, connects, packet_buf_,
                 incoming_packet_user_index_queue_, task_req_queue_,
                 task_res_queue_, thread, users>>

MaySend(s, packet) ==
  /\ "unknown" \in Liberties \/ HasHandler(packet)
  /\ packet.id = "kLOGIN_REQUEST" =>
       /\ "relogin" \in Liberties \/ domain_state_[s] = "kNONE"
       /\ "race" \in Liberties \/ \A x \in Sessions \ {s} : ~AsksFor(x, packet.body)

\* EnqueuePacket, first step. A session has one receive outstanding, so no
\* two workers are here for one session; a receive may bring several packets,
\* and a worker may bring it after another one has reported the disconnect.
EnqueuePacketData(s) ==
  /\ Calls!RecvBegins(s)
  /\ "hangup" \in Liberties \/ conn[s] = "open"
  /\ "early" \in Liberties \/ conn[s] = "closed" \/ ~SystemPacketQueued(s)
  /\ "pipeline" \in Liberties \/ awaiting[s] = 0
  /\ \E n \in 1 .. (IF "pipeline" \in Liberties THEN MaxChunk ELSE 1) :
       /\ requests + n <= MaxRequests
       /\ \E packets \in [1 .. n -> Requests] :
            /\ \A i \in 1 .. n : MaySend(s, packets[i])
            /\ packet_buf_' = [packet_buf_ EXCEPT ![s] = @ \o packets]
       /\ requests' = requests + n
       /\ awaiting' = IF conn[s] = "open" THEN [awaiting EXCEPT ![s] = @ + n]
                                          ELSE awaiting
  /\ UNCHANGED <<connects, roster, queues, thread, users>>

\* EnqueuePacket, second step.
PushUserIndex(s) ==
  /\ Calls!RecvEnds(s)
  /\ incoming_packet_user_index_queue_' =
       Append(incoming_packet_user_index_queue_, s)
  /\ UNCHANGED <<requests, connects, client, packet_buf_,
                 system_packet_queue_, task_req_queue_, task_res_queue_,
                 thread, users>>

-----------------------------------------------------------------------------
(* Rooms (room.cpp, room_manager.cpp). *)

Members(list) == {x \in Sessions : list[x] > 0}

\* user_list_.size(): <<x, n>> is the n-th entry of user x.
Entries(list) == UNION {{x} \X (1 .. list[x]) : x \in Sessions}

UserCount(list) == Cardinality(Entries(list))

\* Slip: announces the newcomer without sending it the list.
NotifyNewUserOnly(s, list) ==
  [x \in Sessions |->
     IF x \in Members(list) THEN Informed(x, roster[x] \cup {s}) ELSE roster[x]]

\* NotifyNewUser to the others in the list, NotifyUserList to the newcomer.
NotifyEntered(s, list) ==
  [x \in Sessions |->
     CASE x = s                            -> Informed(s, Members(list))
       [] x # s /\ x \in Members(list)     -> Informed(x, roster[x] \cup {s})
       [] x # s /\ x \notin Members(list)  -> roster[x]]

NotifyLeaveUser(s, list) ==
  [x \in Sessions |->
     IF x \in Members(list) \ {s} THEN Informed(x, roster[x] \ {s}) ELSE roster[x]]

\* Slip: the room is one larger.
HasSpaceForOneMore(r) == UserCount(user_list_[r]) <= kROOM_MAX_USER_CNT

HasSpace(r) == UserCount(user_list_[r]) < kROOM_MAX_USER_CNT

EnterUser(s, r) ==
  /\ user_list_' = [user_list_ EXCEPT ![r][s] = @ + 1]
  /\ room_idx_' = [room_idx_ EXCEPT ![s] = r]
  /\ domain_state_' = [domain_state_ EXCEPT ![s] = "kROOM"]
  /\ roster' = NotifyEntered(s, user_list_'[r])

\* Slip: the predicate of erase_if is the wrong way round.
OnlyUser(s, list) ==
  [x \in Sessions |-> IF user_id_[x] # user_id_[s] THEN 0 ELSE list[x]]

\* Slip: counts down without looking whether the user is listed.
CountedDown(s, list) ==
  [x \in Sessions |-> IF user_id_[x] = user_id_[s] THEN list[x] - 1 ELSE list[x]]

\* std::erase_if: everyone with this user's id goes.
WithoutUser(s, list) ==
  [x \in Sessions |-> IF user_id_[x] = user_id_[s] THEN 0 ELSE list[x]]

LeaveUser(s) ==
  user_list_' = [user_list_ EXCEPT ![room_idx_[s]] = WithoutUser(s, @)]

-----------------------------------------------------------------------------
(* The handlers (packet_manager.cpp:175-341). *)

ConnectHandler(s) ==
  /\ room_idx_' = [room_idx_ EXCEPT ![s] = NoRoom]
  /\ user_id_' = [user_id_ EXCEPT ![s] = NoId]
  /\ domain_state_' = [domain_state_ EXCEPT ![s] = "kNONE"]
  /\ packet_buf_' = [packet_buf_ EXCEPT ![s] = <<>>]
  /\ live' = live \cup {s}
  /\ UNCHANGED <<user_id_map_, user_list_, client>>

\* Slip: only a user in a room is forgotten.
ForgetIfInRoom(s) ==
  IF domain_state_[s] = "kROOM" THEN [user_id_map_ EXCEPT ![user_id_[s]] = NoSession]
                                ELSE user_id_map_

\* UserManager::DeleteUserInfo, by id.
DeleteUserInfo(s) == [user_id_map_ EXCEPT ![user_id_[s]] = NoSession]

DisconnectHandler(s) ==
  /\ IF domain_state_[s] = "kROOM"
       THEN /\ LeaveUser(s)
            /\ roster' = NotifyLeaveUser(s, user_list_'[room_idx_[s]])
       ELSE UNCHANGED <<user_list_, roster>>
  /\ user_id_map_' = DeleteUserInfo(s)
  /\ live' = live \ {s}
  /\ UNCHANGED <<room_idx_, user_id_, domain_state_, packet_buf_, awaiting>>

\* Slip: nobody looks whether the id is taken.
NeverLoggedIn(u) == TRUE

\* UserManager::FindUserIndexByID(u) == -1.
NotLoggedIn(u) == user_id_map_[u] = NoSession

\* Slip: answers the login, although Redis's answer will be sent on as well.
AskRedisAndReply(s, u) ==
  /\ user_id_' = [user_id_ EXCEPT ![s] = u]
  /\ task_req_queue_' = Append(task_req_queue_, s)
  /\ Reply(s)

\* The id is taken down at once, before Redis has confirmed it.
AskRedis(s, u) ==
  /\ user_id_' = [user_id_ EXCEPT ![s] = u]
  /\ task_req_queue_' = Append(task_req_queue_, s)
  /\ UNCHANGED awaiting

\* The limit on users (packet_manager.cpp:219) is never reached: no code
\* changes current_user_cnt_.
LoginHandler(s, u) ==
  /\ IF NotLoggedIn(u)
       THEN AskRedis(s, u)
       ELSE /\ Reply(s)
            /\ UNCHANGED <<user_id_, task_req_queue_>>
  /\ UNCHANGED <<roster, domain_state_, room_idx_, user_id_map_, user_list_>>

EnterRoomHandler(s, r) ==
  /\ IF domain_state_[s] = "kLOGIN" /\ r # NoRoom /\ HasSpace(r)
       THEN EnterUser(s, r)
       ELSE UNCHANGED <<user_list_, room_idx_, domain_state_, roster>>
  /\ Reply(s)
  /\ UNCHANGED <<user_id_, user_id_map_, task_req_queue_>>

\* A successful answer tells the client that it is in no room.
LeaveRoomHandler(s) ==
  /\ IF domain_state_[s] = "kROOM"
       THEN /\ LeaveUser(s)
            /\ domain_state_' = [domain_state_ EXCEPT ![s] = "kLOGIN"]
            /\ roster' = [NotifyLeaveUser(s, user_list_'[room_idx_[s]])
                            EXCEPT ![s] = Informed(s, {})]
       ELSE UNCHANGED <<user_list_, domain_state_, roster>>
  /\ Reply(s)
  /\ UNCHANGED <<user_id_, room_idx_, user_id_map_, task_req_queue_>>

\* The text of a chat goes to the room's members and changes no state.
RoomChatHandler(s) ==
  /\ Reply(s)
  /\ UNCHANGED <<roster, domain_state_, user_id_, room_idx_, user_id_map_,
                 user_list_, task_req_queue_>>

\* SetUserLogin registers the id the user has NOW; unordered_map::insert
\* leaves an entry that is there already as it is.
LoginDBResHandler(s, ok) ==
  /\ IF ok
       THEN /\ domain_state_' = [domain_state_ EXCEPT ![s] = "kLOGIN"]
            /\ user_id_map_' = [user_id_map_ EXCEPT
                 ![user_id_[s]] = IF @ = NoSession THEN s ELSE @]
            /\ UNCHANGED user_id_
       ELSE /\ user_id_' = [user_id_ EXCEPT ![s] = NoId]
            /\ UNCHANGED <<domain_state_, user_id_map_>>
  /\ Reply(s)
  /\ UNCHANGED <<roster, room_idx_, user_list_, packet_buf_, live>>

-----------------------------------------------------------------------------
(* The packet thread (packet_manager.cpp:72-100). *)

\* try_pop finds no index.
NoUserIndex ==
  /\ pc = "user"
  /\ incoming_packet_user_index_queue_ = <<>>
  /\ pc' = "system"
  /\ UNCHANGED <<network, client, packet_buf_, queues, current, users>>

\* DequeuePacket: an index, and the first packet of its user if there is one.
DequeuePacket ==
  /\ pc = "user"
  /\ incoming_packet_user_index_queue_ # <<>>
  /\ LET s == Head(incoming_packet_user_index_queue_)
     IN IF packet_buf_[s] = <<>>
          THEN pc' = "system" /\ UNCHANGED current
          ELSE pc' = "handle" /\ current' = s
  /\ incoming_packet_user_index_queue_' = Tail(incoming_packet_user_index_queue_)
  /\ UNCHANGED <<network, client, packet_buf_, system_packet_queue_,
                 task_req_queue_, task_res_queue_, users>>

\* ProcessPacket of a user packet: the handler.
HandleUserPacket ==
  /\ pc = "handle"
  /\ LET packet == Head(packet_buf_[current])
     IN /\ HasHandler(packet)
        /\ CASE packet.id = "kLOGIN_REQUEST"      -> LoginHandler(current, packet.body)
             [] packet.id = "kROOM_ENTER_REQUEST" -> EnterRoomHandler(current, packet.body)
             [] packet.id = "kROOM_LEAVE_REQUEST" -> LeaveRoomHandler(current)
             [] packet.id = "kROOM_CHAT_REQUEST"  -> RoomChatHandler(current)
  /\ pc' = "complete"
  /\ UNCHANGED <<network, packet_buf_, incoming_packet_user_index_queue_,
                 system_packet_queue_, task_res_queue_, current, live>>

\* Without a handler the packet stays, and stays first in its buffer.
NoHandler ==
  /\ pc = "handle"
  /\ ~HasHandler(Head(packet_buf_[current]))
  /\ pc' = "system"
  /\ current' = NoSession
  /\ UNCHANGED <<network, client, packet_buf_, queues, users>>

\* Slip: the user is not listed again for the packets it has left.
NotListedAgain(s) == UNCHANGED incoming_packet_user_index_queue_

ListAgain(s) ==
  incoming_packet_user_index_queue_' =
    IF Tail(packet_buf_[s]) # <<>> THEN Append(incoming_packet_user_index_queue_, s)
                                   ELSE incoming_packet_user_index_queue_

\* CompleteProcess: the packet leaves the buffer, and what is left is listed.
CompleteProcess ==
  /\ pc = "complete"
  /\ packet_buf_' = [packet_buf_ EXCEPT ![current] = Tail(@)]
  /\ ListAgain(current)
  /\ pc' = "system"
  /\ current' = NoSession
  /\ UNCHANGED <<network, client, system_packet_queue_, task_req_queue_,
                 task_res_queue_, users>>

ServeSystemPacket ==
  /\ pc = "system"
  /\ IF system_packet_queue_ = <<>>
       THEN UNCHANGED <<system_packet_queue_, client, packet_buf_, users>>
       ELSE LET packet == Head(system_packet_queue_)
            IN /\ IF packet.id = "kSYS_USER_CONNECT"
                    THEN ConnectHandler(packet.session_index)
                    ELSE DisconnectHandler(packet.session_index)
               /\ system_packet_queue_' = Tail(system_packet_queue_)
  /\ pc' = "redis"
  /\ UNCHANGED <<network, incoming_packet_user_index_queue_, task_req_queue_,
                 task_res_queue_, current>>

ServeRedisAnswer ==
  /\ pc = "redis"
  /\ IF task_res_queue_ = <<>>
       THEN UNCHANGED <<task_res_queue_, client, packet_buf_, users>>
       ELSE /\ LoginDBResHandler(Head(task_res_queue_).user_idx, Head(task_res_queue_).ok)
            /\ task_res_queue_' = Tail(task_res_queue_)
  /\ pc' = "user"
  /\ UNCHANGED <<network, incoming_packet_user_index_queue_, system_packet_queue_,
                 task_req_queue_, current>>

PacketProcessThread ==
  \/ NoUserIndex
  \/ DequeuePacket
  \/ HandleUserPacket
  \/ NoHandler
  \/ CompleteProcess
  \/ ServeSystemPacket
  \/ ServeRedisAnswer

-----------------------------------------------------------------------------
\* RedisManager::LoginHandler on the one Redis worker. Redis knows the id and
\* the password or it does not, or does not answer: ok or not.
RedisLoginHandler ==
  /\ task_req_queue_ # <<>>
  /\ \E ok \in BOOLEAN :
       task_res_queue_' =
         Append(task_res_queue_, [user_idx |-> Head(task_req_queue_), ok |-> ok])
  /\ task_req_queue_' = Tail(task_req_queue_)
  /\ UNCHANGED <<network, client, packet_buf_, incoming_packet_user_index_queue_,
                 system_packet_queue_, thread, users>>

Init ==
  /\ conn = [s \in Sessions |-> "free"]
  /\ receiving = [s \in Sessions |-> FALSE]
  /\ requests = 0
  /\ connects = 0
  /\ packet_buf_ = [s \in Sessions |-> <<>>]
  /\ incoming_packet_user_index_queue_ = <<>>
  /\ system_packet_queue_ = <<>>
  /\ task_req_queue_ = <<>>
  /\ task_res_queue_ = <<>>
  /\ pc = "user"
  /\ current = NoSession
  /\ domain_state_ = [s \in Sessions |-> "kNONE"]
  /\ user_id_ = [s \in Sessions |-> NoId]
  /\ room_idx_ = [s \in Sessions |-> NoRoom]
  /\ user_id_map_ = [u \in Ids |-> NoSession]
  /\ user_list_ = [r \in Rooms |-> [s \in Sessions |-> 0]]
  /\ live = {}
  /\ awaiting = [s \in Sessions |-> 0]
  /\ roster = [s \in Sessions |-> {}]

Next ==
  \/ \E s \in Sessions :
       OnConnect(s) \/ OnDisconnect(s) \/ EnqueuePacketData(s) \/ PushUserIndex(s)
  \/ PacketProcessThread
  \/ RedisLoginHandler

\* The packet thread and the Redis worker loop for ever, a worker inside
\* OnRecv returns. Clients and the network owe nothing.
Fairness ==
  /\ WF_vars(PacketProcessThread)
  /\ WF_vars(RedisLoginHandler)
  /\ \A s \in Sessions : WF_vars(PushUserIndex(s))

Spec == Init /\ [][Next]_vars /\ Fairness

-----------------------------------------------------------------------------
TypeOK ==
  /\ conn \in [Sessions -> {"free", "open", "closed"}]
  /\ receiving \in [Sessions -> BOOLEAN]
  /\ requests \in 0 .. MaxRequests
  /\ connects \in 0 .. MaxConnects
  /\ packet_buf_ \in [Sessions -> Seq(Requests)]
  /\ incoming_packet_user_index_queue_ \in Seq(Sessions)
  /\ system_packet_queue_ \in Seq(SystemPackets)
  /\ task_req_queue_ \in Seq(Sessions)
  /\ task_res_queue_ \in Seq(Answers)
  /\ pc \in {"user", "handle", "complete", "system", "redis"}
  /\ current \in Sessions \cup {NoSession}
  /\ domain_state_ \in [Sessions -> {"kNONE", "kLOGIN", "kROOM"}]
  /\ user_id_ \in [Sessions -> Ids]
  /\ room_idx_ \in [Sessions -> Rooms \cup {NoRoom}]
  /\ user_id_map_ \in [Ids -> Sessions \cup {NoSession}]
  /\ user_list_ \in [Rooms -> [Sessions -> Nat]]
  /\ live \in SUBSET Sessions
  /\ awaiting \in [Sessions -> Int]
  /\ roster \in [Sessions -> SUBSET Sessions]
-----------------------------------------------------------------------------
(* What holds whatever clients and timing do. *)

\* No wakeup is lost between the IOCP workers that append to a user's buffer
\* and the packet thread that empties it: a user whose next packet can be
\* handled is listed, about to be listed by a worker, or being handled
\* (packet_manager.cpp:49-60, 123-127, 146-164).
NoStrandedPacket ==
  \A s \in Sessions :
    packet_buf_[s] # <<>> /\ HasHandler(Head(packet_buf_[s])) =>
      Listed(s) \/ receiving[s] \/ (current = s /\ pc \in {"handle", "complete"})

\* A room never lists more than its limit, however often one user is in it
\* (room.cpp:24-29).
RoomNotOverfull ==
  \A r \in Rooms : UserCount(user_list_[r]) <= kROOM_MAX_USER_CNT

(* What holds when no packet is early and slots are reused late, even with   *)
(* pipelining, lost connections and repeated disconnects.                    *)

\* From when CONNECT is served to the end of its connection, the answers a client
\* waits for are exactly those the server still owes it: a request whose packet is
\* not completed, or a login that is with Redis. None is answered twice, and
\* none is forgotten.
AnswersOwed ==
  \A s \in live : conn[s] = "open" /\ ~SystemPacketQueued(s) =>
    awaiting[s] = Len(packet_buf_[s]) + LoginsInFlight(s)
                    - (IF pc = "complete" /\ current = s THEN 1 ELSE 0)

\* Every request a connection sends is answered, unless the connection ends
\* or a packet without a handler stays in front of it (packet_manager.cpp:131).
Blocked(s) == \E i \in DOMAIN packet_buf_[s] : ~HasHandler(packet_buf_[s][i])

EveryRequestAnswered ==
  \A s \in Sessions :
    conn[s] = "open" /\ awaiting[s] > 0
      ~> conn[s] # "open" \/ awaiting[s] = 0 \/ Blocked(s)

(* What holds without liberties. *)

LoggedIn(s) == s \in live /\ domain_state_[s] # "kNONE"

\* A session is in a room's list, once, exactly when it is connected and its
\* user believes to be in that room; a session that ended is in no room
\* (README.md:49-60, room.cpp:22-48).
RoomsMatchUsers ==
  \A s \in Sessions, r \in Rooms :
    user_list_[r][s] =
      IF s \in live /\ domain_state_[s] = "kROOM" /\ room_idx_[s] = r THEN 1 ELSE 0

\* An id is registered exactly while the session that logged in with it is
\* connected, so that it can be used again afterwards and by nobody else
\* before (user_manager.cpp:31-66).
MapMatchesUsers ==
  \A s \in Sessions, u \in Ids :
    user_id_map_[u] = s <=> LoggedIn(s) /\ user_id_[s] = u

\* A client that puts the notifications it received together knows exactly
\* the members of its room: nobody it was not told of is there, and nobody it
\* was told of is gone (room.cpp:59-117).
RostersAgree ==
  \A s \in live : conn[s] = "open" =>
    roster[s] = IF domain_state_[s] = "kROOM" THEN Members(user_list_[room_idx_[s]])
                                              ELSE {}

\* The content layer implements ChatService: no interleaving of callbacks,
\* Redis answers and packets lets one id be used twice, an unconfirmed user
\* into a room, a user into two rooms or a room over its limit.
Who == [s \in Sessions |-> IF LoggedIn(s) THEN user_id_[s] ELSE NoId]

Place == [s \in Sessions |->
            IF s \in live /\ domain_state_[s] = "kROOM" THEN room_idx_[s] ELSE NoRoom]

Service ==
  INSTANCE ChatService WITH Capacity <- kROOM_MAX_USER_CNT, who <- Who, place <- Place

ImplementsService == Service!ServiceSpec

(* What the README says and one liberty is enough to break. *)

\* README.md:77-80: a login with the id of a user that is connected fails.
OneSessionPerId ==
  \A s, t \in Sessions :
    LoggedIn(s) /\ LoggedIn(t) /\ user_id_[s] = user_id_[t] => s = t

\* README.md:57-59: a disconnected user's data is removed from its room.
NoMemberAfterDisconnect ==
  \A s \in Sessions, r \in Rooms :
    s \notin live /\ ~SystemPacketQueued(s) => user_list_[r][s] = 0
=============================================================================
