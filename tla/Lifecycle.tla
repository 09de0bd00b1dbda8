----------------------------- MODULE Lifecycle -----------------------------
(* Starting and stopping the server: main (host.cpp) goes through            *)
(* ChatServer::Start, waits for a key and goes through ChatServer::Terminate,*)
(* while the threads it has made already run. A session is here no more than *)
(* its way to a first packet, see Network for the rest; the packet thread    *)
(* serves its queues in any order, see PacketManager.                        *)
(*                                                                           *)
(* The flags are plain bools another thread writes. Every loop makes a call  *)
(* the compiler cannot see through, so it reads its flag each time round.    *)
(*                                                                           *)
(* An operator whose comment starts with "Slip:" is no part of the code: it  *)
(* is a plausible mistake in the definition that follows, kept to show that  *)
(* the properties notice it.                                                 *)
EXTENDS Integers

CONSTANTS
  Workers,     \* worker_thread_list_
  SlotCnt,     \* kMAX_SESSION_CNT and kMAX_USER_CNT
  MaxPackets,  \* bound: packets the clients send in all
  Failing      \* the steps of main that may fail

ASSUME StartAssumption ==
  /\ SlotCnt \in Nat \ {0}
  /\ MaxPackets \in Nat
  /\ Failing \subseteq {"init_listen", "create_iocp", "bind", "listen", "register",
                        "connect_redis"}
  /\ Workers \cap {"accepter", "sender", "packet", "redis"} = {}

VARIABLES
  main,            \* where main is
  pc, on,          \* where every other thread is, and on which slot
  running,         \* the flags is_worker_running_, ... of the threads and the server
  listen_socket_,
  session_list_,   \* null, ready or deleted
  iocp_,
  terminates,      \* terminate messages in the completion port
  slot,            \* how far a session is
  users,           \* user_obj_pool_.size()
  managers_set,    \* p_ref_redis_manager_ and the others
  incoming, tasks, results,   \* packets and Redis tasks queued, for each slot
  packets          \* count

memory  == <<listen_socket_, session_list_, iocp_, users, managers_set>>
threads == <<pc, on>>
queues  == <<incoming, tasks, results>>
vars    == <<main, threads, running, memory, terminates, slot, queues, packets>>

Slots == 0 .. SlotCnt - 1
NetworkThreads == Workers \cup {"accepter", "sender"}
Threads == NetworkThreads \cup {"packet", "redis"}
Flags == {"worker", "accepter", "sender", "packet", "redis", "server"}

Init ==
  /\ main = "start"
  /\ pc = [t \in Threads |-> "unborn"]
  /\ on = [t \in Threads |-> 0]
  /\ running = [f \in Flags |-> f \in {"worker", "accepter", "sender"}]
  /\ listen_socket_ = "none"
  /\ session_list_ = "null"
  /\ iocp_ = "none"
  /\ terminates = 0
  /\ slot = [s \in Slots |-> "free"]
  /\ users = 0
  /\ managers_set = FALSE
  /\ incoming = [s \in Slots |-> 0]
  /\ tasks = [s \in Slots |-> 0]
  /\ results = [s \in Slots |-> 0]
  /\ packets = 0

Main(step, next) == main = step /\ main' = next
Goto(t, step) == pc' = [pc EXCEPT ![t] = step]
Flag(f, value) == running' = [running EXCEPT ![f] = value]
Plus(queue, s) == [queue EXCEPT ![s] = @ + 1]
Minus(queue, s) == [queue EXCEPT ![s] = @ - 1]

-----------------------------------------------------------------------------
(* ChatServer::Start. *)

StartServer ==
  /\ Main("start", "init_listen")
  /\ Flag("server", TRUE)
  /\ UNCHANGED <<threads, memory, terminates, slot, queues, packets>>

\* A step that fails ends Start. is_server_running_ stays set, and the host
\* waits for its key as if the server had started.
StartFails(step) ==
  /\ step \in Failing
  /\ Main(step, "host")
  /\ UNCHANGED <<threads, running, memory, terminates, slot, queues, packets>>

InitListenSocket ==
  /\ Main("init_listen", "init_sessions")
  /\ listen_socket_' = "made"
  /\ UNCHANGED <<threads, running, session_list_, iocp_, users, managers_set,
                 terminates, slot, queues, packets>>

InitSessionPool ==
  /\ Main("init_sessions", "create_iocp")
  /\ session_list_' = "ready"
  /\ UNCHANGED <<threads, running, listen_socket_, iocp_, users, managers_set,
                 terminates, slot, queues, packets>>

CreateIOCP ==
  /\ Main("create_iocp", "create_workers")
  /\ iocp_' = "open"
  /\ UNCHANGED <<threads, running, listen_socket_, session_list_, users,
                 managers_set, terminates, slot, queues, packets>>

\* The threads run from here on: before the socket listens, before there are
\* users and before the packet thread.
CreateWorkerThread ==
  \E w \in Workers :
    /\ pc[w] = "unborn"
    /\ Main("create_workers", IF \A v \in Workers \ {w} : pc[v] # "unborn"
                                THEN "create_accepter" ELSE "create_workers")
    /\ Goto(w, "loop")
    /\ UNCHANGED <<on, running, memory, terminates, slot, queues, packets>>

CreateAccepterThread ==
  /\ Main("create_accepter", "create_sender")
  /\ Goto("accepter", "loop")
  /\ UNCHANGED <<on, running, memory, terminates, slot, queues, packets>>

CreateSenderThread ==
  /\ Main("create_sender", "bind")
  /\ Goto("sender", "loop")
  /\ UNCHANGED <<on, running, memory, terminates, slot, queues, packets>>

\* bind, listen, and the listen socket's entry in the completion port.
BindAndListen ==
  /\ \/ Main("bind", "listen") /\ listen_socket_' = "bound"
     \/ Main("listen", "register") /\ listen_socket_' = "listening"
     \/ Main("register", "set_managers") /\ listen_socket_' = "registered"
  /\ UNCHANGED <<threads, running, session_list_, iocp_, users, managers_set,
                 terminates, slot, queues, packets>>

SetManagers ==
  /\ Main("set_managers", "make_users")
  /\ managers_set' = TRUE
  /\ UNCHANGED <<threads, running, listen_socket_, session_list_, iocp_, users,
                 terminates, slot, queues, packets>>

\* Slip: the loop runs once more.
OneUserMore == users = SlotCnt

LastUser == users + 1 = SlotCnt

\* UserManager::Init, one user at a time; rooms and handlers are made with
\* the last one.
MakeUser ==
  /\ Main("make_users", IF LastUser THEN "run_packet" ELSE "make_users")
  /\ users' = users + 1
  /\ UNCHANGED <<threads, running, listen_socket_, session_list_, iocp_,
                 managers_set, terminates, slot, queues, packets>>

\* The packet thread starts with is_thread_running_ = false and sets it itself.
RunPacketThread ==
  /\ Main("run_packet", "connect_redis")
  /\ Goto("packet", "born")
  /\ UNCHANGED <<on, running, memory, terminates, slot, queues, packets>>

\* RedisManager::Init. Its failure is not looked at, see StartFails.
ConnectRedis ==
  /\ Main("connect_redis", "run_redis")
  /\ UNCHANGED <<threads, running, memory, terminates, slot, queues, packets>>

\* RedisManager::Run sets the flag before it makes the thread.
RunRedis ==
  /\ Main("run_redis", "host")
  /\ Flag("redis", TRUE)
  /\ Goto("redis", "born")
  /\ UNCHANGED <<on, memory, terminates, slot, queues, packets>>

-----------------------------------------------------------------------------
(* The host, and ChatServer::Terminate. *)

KeyPressed ==
  /\ running["server"]
  /\ Main("host", "post")
  /\ UNCHANGED <<threads, running, memory, terminates, slot, queues, packets>>

\* Nothing is posted to a completion port that was not made.
PostTerminateMsg ==
  /\ Main("post", "stop_workers")
  /\ terminates' = IF iocp_ = "open" THEN terminates + 1 ELSE terminates
  /\ UNCHANGED <<threads, running, memory, slot, queues, packets>>

Joined(ts) == \A t \in ts : pc[t] \in {"unborn", "ended"}

\* Slip: as if the sender needed no join.
NotJoined(ts) == ts = {"sender"} \/ Joined(ts)

\* joinable() and join() for each of the threads.
Joins(ts) == Joined(ts)

\* DestroyWorkerThread, DestroyAccepterThread and DestroySenderThread.
DestroyThread ==
  /\ \/ Main("stop_workers", "join_workers") /\ Flag("worker", FALSE)
     \/ Main("join_workers", "stop_accepter") /\ Joins(Workers) /\ UNCHANGED running
     \/ Main("stop_accepter", "close_listen") /\ Flag("accepter", FALSE)
     \/ Main("join_accepter", "stop_sender") /\ Joins({"accepter"}) /\ UNCHANGED running
     \/ Main("stop_sender", "join_sender") /\ Flag("sender", FALSE)
     \/ Main("join_sender", "delete_sessions") /\ Joins({"sender"}) /\ UNCHANGED running
  /\ UNCHANGED <<threads, memory, terminates, slot, queues, packets>>

\* Requests that are pending on the socket are aborted; no worker is left to
\* be told.
CloseListenSocket ==
  /\ Main("close_listen", "join_accepter")
  /\ listen_socket_' = "closed"
  /\ UNCHANGED <<threads, running, session_list_, iocp_, users, managers_set,
                 terminates, slot, queues, packets>>

DeleteSessions ==
  /\ Main("delete_sessions", "close_iocp")
  /\ session_list_' = IF session_list_ = "ready" THEN "deleted" ELSE session_list_
  /\ UNCHANGED <<threads, running, listen_socket_, iocp_, users, managers_set,
                 terminates, slot, queues, packets>>

CloseIOCP ==
  /\ Main("close_iocp", "stop_redis")
  /\ iocp_' = IF iocp_ = "open" THEN "closed" ELSE iocp_
  /\ UNCHANGED <<threads, running, listen_socket_, session_list_, users,
                 managers_set, terminates, slot, queues, packets>>

\* PacketManager::Terminate: p_ref_redis_manager_ has no value if Start did not
\* come as far as SetManagers, and anything may come of the call.
StopRedis ==
  /\ \/ managers_set /\ Main("stop_redis", "join_redis") /\ Flag("redis", FALSE)
     \/ ~managers_set /\ Main("stop_redis", "undefined") /\ UNCHANGED running
     \/ Main("join_redis", "stop_packet") /\ Joins({"redis"}) /\ UNCHANGED running
  /\ UNCHANGED <<threads, memory, terminates, slot, queues, packets>>

\* The flag is reset in Terminate and again before the join.
StopPacketThread ==
  /\ \/ Main("stop_packet", "stop_packet_again") /\ Flag("packet", FALSE)
     \/ Main("stop_packet_again", "join_packet") /\ Flag("packet", FALSE)
     \/ Main("join_packet", "stop_server") /\ Joins({"packet"}) /\ UNCHANGED running
  /\ UNCHANGED <<threads, memory, terminates, slot, queues, packets>>

StopServer ==
  /\ Main("stop_server", "exit")
  /\ Flag("server", FALSE)
  /\ UNCHANGED <<threads, memory, terminates, slot, queues, packets>>

Start ==
  \/ StartServer \/ InitListenSocket \/ InitSessionPool \/ CreateIOCP
  \/ CreateWorkerThread \/ CreateAccepterThread \/ CreateSenderThread
  \/ BindAndListen \/ SetManagers \/ MakeUser \/ RunPacketThread
  \/ ConnectRedis \/ RunRedis
  \/ \E step \in Failing : StartFails(step)

Terminate ==
  \/ PostTerminateMsg \/ DestroyThread \/ CloseListenSocket \/ DeleteSessions
  \/ CloseIOCP \/ StopRedis \/ StopPacketThread \/ StopServer

-----------------------------------------------------------------------------
(* The threads. *)

\* while (is_..._running_)
Loop(t, f, body) ==
  /\ pc[t] = "loop"
  /\ Goto(t, IF running[f] THEN body ELSE "ended")
  /\ UNCHANGED <<main, on, running, memory, terminates, slot, queues, packets>>

\* Slip: a worker keeps the message to itself.
KeepMsg(w) == Goto(w, "ended") /\ UNCHANGED terminates

\* PostTerminateMsg, so that the other workers end too.
PassMsgOn(w) ==
  /\ Goto(w, "ended")
  /\ terminates' = terminates + 1

TakeTerminateMsg(w) ==
  /\ \/ /\ pc[w] = "wait"
        /\ terminates > 0
        /\ terminates' = terminates - 1
        /\ Goto(w, "terminate")
     \/ pc[w] = "terminate" /\ PassMsgOn(w)
  /\ UNCHANGED <<main, on, running, memory, slot, queues, packets>>

\* A completion: the first packet of a slot follows on its accept.
TakeCompletion(w) ==
  /\ pc[w] = "wait"
  /\ \E s \in Slots :
       /\ on' = [on EXCEPT ![w] = s]
       /\ \/ slot[s] = "accepted" /\ slot' = [slot EXCEPT ![s] = "connected"]
                                  /\ Goto(w, "loop")
          \/ slot[s] = "received" /\ slot' = [slot EXCEPT ![s] = "served"]
                                  /\ Goto(w, "on_recv")
  /\ UNCHANGED <<main, running, memory, terminates, queues, packets>>

\* OnRecv, EnqueuePacket: without a user the packet is dropped.
OnRecv(w) ==
  /\ pc[w] = "on_recv"
  /\ incoming' = IF on[w] < users THEN Plus(incoming, on[w]) ELSE incoming
  /\ slot' = [slot EXCEPT ![on[w]] = "connected"]
  /\ Goto(w, "loop")
  /\ UNCHANGED <<main, on, running, memory, terminates, tasks, results, packets>>

WorkerThread(w) ==
  \/ Loop(w, "worker", "wait")
  \/ TakeTerminateMsg(w)
  \/ TakeCompletion(w)
  \/ OnRecv(w)

\* BindAccept on a slot that has none yet. AcceptEx needs a socket that
\* listens; if it fails, the slot is marked as if it had not.
AccepterThread ==
  \/ Loop("accepter", "accepter", "scan")
  \/ /\ pc["accepter"] = "scan"
     /\ \/ \E s \in Slots :
             /\ slot[s] = "free"
             /\ slot' = [slot EXCEPT ![s] =
                           IF listen_socket_ \in {"listening", "registered"}
                             THEN "requested" ELSE "lost"]
             /\ UNCHANGED pc
        \/ Goto("accepter", "loop") /\ UNCHANGED slot
     /\ UNCHANGED <<main, on, running, memory, terminates, queues, packets>>

SenderThread ==
  \/ Loop("sender", "sender", "scan")
  \/ /\ pc["sender"] = "scan"
     /\ Goto("sender", "loop")
     /\ UNCHANGED <<main, on, running, memory, terminates, slot, queues, packets>>

\* is_thread_running_ = true, in the thread.
PacketThreadBegins ==
  /\ pc["packet"] = "born"
  /\ Goto("packet", "loop")
  /\ Flag("packet", TRUE)
  /\ UNCHANGED <<main, on, memory, terminates, slot, queues, packets>>

\* A packet is answered at once or is a login, which asks Redis first.
PacketThreadServes ==
  /\ pc["packet"] = "serve"
  /\ \/ \E s \in Slots :
          /\ on' = [on EXCEPT !["packet"] = s]
          /\ \/ /\ incoming[s] > 0
                /\ incoming' = Minus(incoming, s)
                /\ \/ Goto("packet", "send") /\ UNCHANGED tasks
                   \/ Goto("packet", "loop") /\ tasks' = Plus(tasks, s)
                /\ UNCHANGED results
             \/ /\ results[s] > 0
                /\ results' = Minus(results, s)
                /\ Goto("packet", "send")
                /\ UNCHANGED <<incoming, tasks>>
     \/ Goto("packet", "loop") /\ UNCHANGED <<on, queues>>
  /\ UNCHANGED <<main, running, memory, terminates, slot, packets>>

\* Network::SendPacket, into session_list_.
SendPacket ==
  /\ pc["packet"] = "send"
  /\ Goto("packet", "loop")
  /\ UNCHANGED <<main, on, running, memory, terminates, slot, queues, packets>>

PacketThread ==
  \/ PacketThreadBegins
  \/ Loop("packet", "packet", "serve")
  \/ PacketThreadServes
  \/ SendPacket

\* Slip: the worker sets the flag itself, as the packet thread does.
FlagSetByWorker == Flag("redis", TRUE)

\* The worker finds is_running_ as Run and Terminate have left it.
FlagLeftAlone == UNCHANGED running

RedisThreadBegins ==
  /\ pc["redis"] = "born"
  /\ Goto("redis", "loop")
  /\ FlagLeftAlone
  /\ UNCHANGED <<main, on, memory, terminates, slot, queues, packets>>

\* GetTaskReq and LoginHandler, for one task.
RedisThreadServes ==
  /\ pc["redis"] = "serve"
  /\ \/ \E s \in Slots :
          /\ tasks[s] > 0
          /\ tasks' = Minus(tasks, s)
          /\ results' = Plus(results, s)
          /\ UNCHANGED incoming
     \/ (\A s \in Slots : tasks[s] = 0) /\ UNCHANGED queues
  /\ Goto("redis", "loop")
  /\ UNCHANGED <<main, on, running, memory, terminates, slot, packets>>

RedisThread ==
  \/ RedisThreadBegins
  \/ Loop("redis", "redis", "serve")
  \/ RedisThreadServes

-----------------------------------------------------------------------------
(* The clients, and Winsock. A connection that is made before the socket is  *)
(* in the completion port completes without anyone being told.               *)

ClientConnects(s) ==
  /\ slot[s] = "requested"
  /\ listen_socket_ \in {"listening", "registered"}
  /\ slot' = [slot EXCEPT ![s] =
                IF listen_socket_ = "registered" THEN "accepted" ELSE "lost"]
  /\ UNCHANGED <<main, threads, running, memory, terminates, queues, packets>>

ClientSends(s) ==
  /\ slot[s] = "connected"
  /\ packets < MaxPackets
  /\ packets' = packets + 1
  /\ slot' = [slot EXCEPT ![s] = "received"]
  /\ UNCHANGED <<main, threads, running, memory, terminates, queues>>

Next ==
  \/ Start
  \/ KeyPressed
  \/ Terminate
  \/ \E w \in Workers : WorkerThread(w)
  \/ AccepterThread
  \/ SenderThread
  \/ PacketThread
  \/ RedisThread
  \/ \E s \in Slots : ClientConnects(s) \/ ClientSends(s)

Spec == Init /\ [][Next]_vars

\* Every thread the system runs gets to run; keys and clients may stay away.
Fairness ==
  /\ WF_vars(Start \/ Terminate)
  /\ \A w \in Workers : WF_vars(WorkerThread(w))
  /\ WF_vars(AccepterThread)
  /\ WF_vars(SenderThread)
  /\ WF_vars(PacketThread)
  /\ WF_vars(RedisThread)

FairSpec == Spec /\ Fairness

-----------------------------------------------------------------------------
MainSteps == {"start", "init_listen", "init_sessions", "create_iocp",
              "create_workers", "create_accepter", "create_sender", "bind",
              "listen", "register", "set_managers", "make_users", "run_packet",
              "connect_redis", "run_redis", "host", "post", "stop_workers",
              "join_workers", "stop_accepter", "close_listen", "join_accepter",
              "stop_sender", "join_sender", "delete_sessions", "close_iocp",
              "stop_redis", "join_redis", "stop_packet", "stop_packet_again",
              "join_packet", "stop_server", "exit", "undefined"}
ThreadSteps == {"unborn", "born", "loop", "wait", "terminate", "on_recv", "scan",
                "serve", "send", "ended"}

TypeOK ==
  /\ main \in MainSteps
  /\ pc \in [Threads -> ThreadSteps]
  /\ on \in [Threads -> Slots]
  /\ running \in [Flags -> BOOLEAN]
  /\ listen_socket_ \in {"none", "made", "bound", "listening", "registered", "closed"}
  /\ session_list_ \in {"null", "ready", "deleted"}
  /\ iocp_ \in {"none", "open", "closed"}
  /\ terminates \in Nat
  /\ slot \in [Slots -> {"free", "requested", "lost", "accepted", "connected",
                          "received", "served"}]
  /\ users \in 0 .. SlotCnt
  /\ managers_set \in BOOLEAN
  /\ incoming \in [Slots -> Nat] /\ tasks \in [Slots -> Nat] /\ results \in [Slots -> Nat]
  /\ packets \in 0 .. MaxPackets

\* "Confirm that all threads have ended", then delete the sessions and close
\* the port (network.cpp:160-167): no thread of the network works on sessions
\* or on the port before they are there or after they are gone. Nor is any
\* worker left to take the accepts that fail when the listen socket is closed
\* (network.cpp:205), whose session is a null pointer (network.cpp:345).
NetworkThreadsHaveMemory ==
  /\ listen_socket_ = "closed" =>
       \A w \in Workers : pc[w] \in {"unborn", "ended"}
  /\ session_list_ # "ready" =>
       \A t \in NetworkThreads : pc[t] \notin {"on_recv", "scan"}
  /\ iocp_ # "open" => \A w \in Workers : pc[w] \notin {"wait", "terminate"}

\* One terminate message is enough for every worker (network.cpp:321), and
\* Network::Terminate returns, whenever the key comes and however far Start
\* came.
NetworkTerminates == main = "post" ~> main = "stop_redis"

\* Terminate returns (chat_server.cpp:32) if the packet thread was in its loop
\* by then: the Redis worker need not be, for its flag is set before it runs.
TerminateReturnsOnceBegun ==
  main = "post" /\ pc["packet"] \notin {"unborn", "born"} ~> main = "exit"

\* "After the network and the packet manager have been terminated, the server
\* ends" (chat_server.cpp:32), whatever the packet thread is at.
TerminateReturns == main = "post" ~> main = "exit"

\* "Confirm that all threads have ended" (network.cpp:160): the packet thread
\* does not send into a session pool that is deleted.
NoSendAfterDelete == ~(pc["packet"] = "send" /\ session_list_ = "deleted")

\* The time is set "to prevent a second request" (session.cpp:40): a server
\* that has started has a request for every slot marked so.
MarkedSlotsAreRequested ==
  main = "host" /\ listen_socket_ = "registered" => \A s \in Slots : slot[s] # "lost"

\* "Starts the network after it has made the logic thread"
\* (chat_server.cpp:9-10): a packet that is received finds its user.
PacketsFindUsers ==
  \A w \in Workers : pc[w] = "on_recv" => on[w] < users

\* A login request that is passed to Redis is answered (README.md:81-84), as
\* long as the server runs.
RedisAnswers ==
  \A s \in Slots : tasks[s] > 0 /\ main = "host" ~> tasks[s] = 0 \/ main # "host"

\* What Terminate ends (chat_server.cpp:32) has been started.
ManagersKnownToTerminate == main # "undefined"
=============================================================================
