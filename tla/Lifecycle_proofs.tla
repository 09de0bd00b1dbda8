-------------------------- MODULE Lifecycle_proofs --------------------------
(* What holds of starting and stopping for every number of workers, slots    *)
(* and packets, whichever steps of Start fail.                               *)
EXTENDS Lifecycle, TLAPS

-----------------------------------------------------------------------------
(* How far main is, and what that says of the memory and of the threads.     *)

\* main makes the threads of the network, or has made all of them.
Making == {"create_workers", "create_accepter", "create_sender", "bind", "listen",
           "register", "set_managers", "make_users", "run_packet", "connect_redis",
           "run_redis"}

\* main has come past a step of Terminate.
AfterCloseIOCP   == {"stop_redis", "join_redis", "stop_packet", "stop_packet_again",
                     "join_packet", "stop_server", "exit", "undefined"}
AfterDelete      == {"close_iocp"} \cup AfterCloseIOCP
AfterSenderEnds  == {"delete_sessions"} \cup AfterDelete
AfterAcceptEnds  == {"stop_sender", "join_sender"} \cup AfterSenderEnds
AfterCloseListen == {"join_accepter"} \cup AfterAcceptEnds
AfterWorkersEnd  == {"stop_accepter", "close_listen"} \cup AfterCloseListen

Over(t) == pc[t] \in {"unborn", "ended"}

\* A thread of the network is made when there are sessions and a port.
MadeAfterMemory ==
  /\ session_list_ = "null" \/ iocp_ = "none" =>
       \A t \in NetworkThreads : pc[t] = "unborn"
  /\ main \in {"start", "init_listen", "init_sessions", "create_iocp"} => iocp_ = "none"
  /\ main = "create_iocp" => session_list_ = "ready"
  /\ main \in Making => session_list_ = "ready" /\ iocp_ = "open"

\* What Terminate frees, it frees at its place.
FreedInOrder ==
  /\ listen_socket_ = "closed" => main \in AfterCloseListen
  /\ session_list_ = "deleted" => main \in AfterDelete
  /\ iocp_ = "closed" => main \in AfterCloseIOCP

\* What was joined has ended, and is not made again.
JoinedIsOver ==
  /\ main \in AfterWorkersEnd => \A w \in Workers : Over(w)
  /\ main \in AfterAcceptEnds => Over("accepter")
  /\ main \in AfterSenderEnds => Over("sender")

\* UserManager::Init makes SlotCnt users and no more.
UsersMade ==
  /\ main \in {"start", "init_listen", "init_sessions", "create_iocp", "create_workers",
              "create_accepter", "create_sender", "bind", "listen", "register",
              "set_managers"} => users = 0
  /\ main = "make_users" => users < SlotCnt

LifecycleInv == TypeOK /\ UsersMade /\ MadeAfterMemory /\ FreedInOrder /\ JoinedIsOver

-----------------------------------------------------------------------------
(* The threads and the actions.                                              *)

LEMMA ThreadNames ==
  /\ \A w \in Workers : w \in Threads /\ w \in NetworkThreads
  /\ \A t \in NetworkThreads : t \in Threads
  /\ "accepter" \in NetworkThreads /\ "sender" \in NetworkThreads
  /\ {"packet", "redis"} \subseteq Threads
  /\ "packet" \notin NetworkThreads /\ "redis" \notin NetworkThreads
  /\ "accepter" \notin Workers /\ "sender" \notin Workers
BY StartAssumption DEF Threads, NetworkThreads

LEMMA SlotNumbers == SlotCnt \in Nat \ {0} /\ 0 \in Slots /\ \A s \in Slots : s \in Nat
BY StartAssumption DEF Slots

LEMMA QueueType ==
  ASSUME NEW queue \in [Slots -> Nat], NEW s \in Slots
  PROVE  /\ Plus(queue, s) \in [Slots -> Nat]
         /\ queue[s] > 0 => Minus(queue, s) \in [Slots -> Nat]
BY DEF Plus, Minus

\* Start and Terminate, but for the steps that fail.
MainStep ==
  \/ StartServer \/ InitListenSocket \/ InitSessionPool \/ CreateIOCP
  \/ CreateWorkerThread \/ CreateAccepterThread \/ CreateSenderThread
  \/ BindAndListen \/ SetManagers \/ MakeUser \/ RunPacketThread
  \/ ConnectRedis \/ RunRedis \/ KeyPressed \/ Terminate

\* The threads of the system.
ThreadStep ==
  \/ \E w \in Workers : WorkerThread(w)
  \/ AccepterThread \/ SenderThread \/ PacketThread \/ RedisThread

LEMMA FlagType ==
  ASSUME TypeOK, NEW f, NEW value \in BOOLEAN, Flag(f, value)
  PROVE  running' \in [Flags -> BOOLEAN]
BY DEF TypeOK, Flag

LEMMA MainStepType ==
  ASSUME TypeOK, UsersMade, MainStep
  PROVE  TypeOK'
<1> USE DEF TypeOK, threads, memory, queues
<1>f. ASSUME NEW f, Flag(f, TRUE) \/ Flag(f, FALSE) PROVE running' \in [Flags -> BOOLEAN]
  BY <1>f, FlagType
<1>1. CASE StartServer
  BY <1>1, <1>f DEF StartServer, Main, MainSteps
<1>12. CASE KeyPressed \/ ConnectRedis
  BY <1>12 DEF KeyPressed, ConnectRedis, Main, MainSteps
<1>2. CASE InitListenSocket \/ InitSessionPool \/ CreateIOCP \/ SetManagers
  BY <1>2, ZenonT(60) DEF InitListenSocket, InitSessionPool, CreateIOCP, SetManagers, Main, MainSteps
<1>3. CASE BindAndListen
  BY <1>3 DEF BindAndListen, Main, MainSteps
<1>4. CASE CreateWorkerThread
  BY <1>4, ThreadNames DEF CreateWorkerThread, Main, Goto, MainSteps, ThreadSteps
<1>5. CASE CreateAccepterThread \/ CreateSenderThread \/ RunPacketThread
  BY <1>5, ThreadNames
     DEF CreateAccepterThread, CreateSenderThread, RunPacketThread, Main, Goto, MainSteps,
         ThreadSteps
<1>6. CASE RunRedis
  BY <1>6, <1>f, ThreadNames DEF RunRedis, Main, Goto, MainSteps, ThreadSteps
<1>7. CASE MakeUser
  <2>1. users' = users + 1 /\ users < SlotCnt /\ users \in 0 .. SlotCnt
    BY <1>7 DEF MakeUser, Main, UsersMade
  <2>2. users' \in 0 .. SlotCnt
    BY <2>1, SlotNumbers
  <2> QED BY <1>7, <2>2 DEF MakeUser, Main, MainSteps
<1>8. CASE PostTerminateMsg
  BY <1>8 DEF PostTerminateMsg, Main, MainSteps
<1>9. CASE DestroyThread
  <2>1. UNCHANGED <<threads, memory, terminates, slot, queues, packets>>
    BY <1>9 DEF DestroyThread
  <2>2. main' \in MainSteps
    BY <1>9 DEF DestroyThread, Main, MainSteps
  <2>3. running' \in [Flags -> BOOLEAN]
    BY <1>9, <1>f DEF DestroyThread
  <2> QED BY <2>1, <2>2, <2>3
<1>10. CASE CloseListenSocket \/ DeleteSessions \/ CloseIOCP
  BY <1>10 DEF CloseListenSocket, DeleteSessions, CloseIOCP, Main, MainSteps
<1>11. CASE StopRedis \/ StopPacketThread \/ StopServer
  <2>1. UNCHANGED <<threads, memory, terminates, slot, queues, packets>>
    BY <1>11 DEF StopRedis, StopPacketThread, StopServer
  <2>2. main' \in MainSteps
    BY <1>11 DEF StopRedis, StopPacketThread, StopServer, Main, MainSteps
  <2>3. running' \in [Flags -> BOOLEAN]
    BY <1>11, <1>f DEF StopRedis, StopPacketThread, StopServer
  <2> QED BY <2>1, <2>2, <2>3
<1> QED BY <1>1, <1>2, <1>3, <1>4, <1>5, <1>6, <1>7, <1>8, <1>9, <1>10, <1>11, <1>12
        DEF MainStep, Terminate

LEMMA ThreadStepType ==
  ASSUME TypeOK, ThreadStep
  PROVE  TypeOK'
<1> USE ThreadNames DEF TypeOK, threads, memory, queues
<1>l. ASSUME NEW t \in Threads, NEW f, NEW body \in ThreadSteps, Loop(t, f, body)
      PROVE  TypeOK'
  BY <1>l DEF Loop, Goto, ThreadSteps
<1>s. {"loop", "wait", "scan", "serve", "terminate", "send", "ended", "on_recv"}
        \subseteq ThreadSteps
  BY DEF ThreadSteps
<1>1. ASSUME NEW w \in Workers, WorkerThread(w) PROVE TypeOK'
  <2>1. CASE Loop(w, "worker", "wait")
    BY <1>l, <1>s, <2>1
  <2>2. CASE TakeTerminateMsg(w)
    <3>1. terminates' \in Nat /\ (Goto(w, "terminate") \/ Goto(w, "ended"))
      BY <2>2 DEF TakeTerminateMsg, PassMsgOn
    <3>2. UNCHANGED <<main, on, running, memory, slot, queues, packets>>
      BY <2>2 DEF TakeTerminateMsg
    <3> QED BY <1>s, <3>1, <3>2 DEF Goto
  <2>3. CASE TakeCompletion(w)
    <3>1. /\ on' \in [Threads -> Slots]
          /\ Goto(w, "loop") \/ Goto(w, "on_recv")
          /\ slot' \in [Slots -> {"free", "requested", "lost", "accepted", "connected",
                                  "received", "served"}]
      BY <2>3 DEF TakeCompletion
    <3>2. UNCHANGED <<main, running, memory, terminates, queues, packets>>
      BY <2>3 DEF TakeCompletion
    <3> QED BY <1>s, <3>1, <3>2 DEF Goto
  <2>4. CASE OnRecv(w)
    <3>1. incoming' \in [Slots -> Nat]
      BY <2>4, QueueType DEF OnRecv
    <3> QED BY <1>s, <2>4, <3>1 DEF OnRecv, Goto
  <2> QED BY <1>1, <2>1, <2>2, <2>3, <2>4 DEF WorkerThread
<1>2. CASE AccepterThread
  <2>1. CASE Loop("accepter", "accepter", "scan")
    BY <1>l, <1>s, <2>1
  <2>2. CASE UNCHANGED <<main, on, running, memory, terminates, queues, packets>>
             /\ (UNCHANGED pc \/ Goto("accepter", "loop"))
             /\ slot' \in [Slots -> {"free", "requested", "lost", "accepted", "connected",
                                     "received", "served"}]
    BY <1>s, <2>2 DEF Goto
  <2> QED BY <1>2, <2>1, <2>2 DEF AccepterThread
<1>3. CASE SenderThread
  BY <1>3, <1>l, <1>s DEF SenderThread, Goto
<1>4. CASE PacketThread
  <2>1. CASE PacketThreadBegins
    BY <1>s, <2>1, FlagType DEF PacketThreadBegins, Goto
  <2>2. CASE Loop("packet", "packet", "serve")
    BY <1>l, <1>s, <2>2
  <2>3. CASE PacketThreadServes
    <3>1. /\ UNCHANGED <<main, running, memory, terminates, slot, packets>>
          /\ Goto("packet", "send") \/ Goto("packet", "loop")
      BY <2>3 DEF PacketThreadServes
    <3>2. on' \in [Threads -> Slots]
      BY <2>3 DEF PacketThreadServes
    <3>3. /\ incoming' \in [Slots -> Nat] /\ tasks' \in [Slots -> Nat]
          /\ results' \in [Slots -> Nat]
      <4>1. CASE UNCHANGED queues
        BY <4>1
      <4>2. CASE \E s \in Slots : incoming[s] > 0 /\ incoming' = Minus(incoming, s)
                   /\ tasks' \in {tasks, Plus(tasks, s)} /\ UNCHANGED results
        BY <4>2, QueueType, SMTT(30)
      <4>3. CASE \E s \in Slots : results[s] > 0 /\ results' = Minus(results, s)
                   /\ UNCHANGED <<incoming, tasks>>
        <5>1. PICK s \in Slots : results[s] > 0 /\ results' = Minus(results, s)
          BY <4>3
        <5>2. results' \in [Slots -> Nat]
          BY <5>1, QueueType
        <5> QED BY <4>3, <5>2
      <4> QED BY <2>3, <4>1, <4>2, <4>3 DEF PacketThreadServes
    <3> QED BY <1>s, <3>1, <3>2, <3>3 DEF Goto
  <2>4. CASE SendPacket
    BY <1>s, <2>4 DEF SendPacket, Goto
  <2> QED BY <1>4, <2>1, <2>2, <2>3, <2>4 DEF PacketThread
<1>5. CASE RedisThread
  <2>1. CASE RedisThreadBegins
    BY <1>s, <2>1 DEF RedisThreadBegins, FlagLeftAlone, Goto
  <2>2. CASE Loop("redis", "redis", "serve")
    BY <1>l, <1>s, <2>2
  <2>3. CASE RedisThreadServes
    <3>1. /\ incoming' \in [Slots -> Nat] /\ tasks' \in [Slots -> Nat]
          /\ results' \in [Slots -> Nat]
      <4>1. CASE UNCHANGED queues
        BY <4>1
      <4>2. ASSUME NEW s \in Slots, tasks[s] > 0, tasks' = Minus(tasks, s),
                   results' = Plus(results, s), UNCHANGED incoming
            PROVE  /\ incoming' \in [Slots -> Nat] /\ tasks' \in [Slots -> Nat]
                   /\ results' \in [Slots -> Nat]
        <5>1. tasks' \in [Slots -> Nat]
          BY <4>2, QueueType
        <5>2. results' \in [Slots -> Nat]
          BY <4>2, QueueType
        <5> QED BY <4>2, <5>1, <5>2
      <4> QED BY <2>3, <4>1, <4>2 DEF RedisThreadServes
    <3> QED BY <1>s, <2>3, <3>1 DEF RedisThreadServes, Goto
  <2> QED BY <1>5, <2>1, <2>2, <2>3 DEF RedisThread
<1> QED BY <1>1, <1>2, <1>3, <1>4, <1>5 DEF ThreadStep

LEMMA TypeStep ==
  ASSUME TypeOK, UsersMade, [Next]_vars
  PROVE  TypeOK'
<1>1. CASE UNCHANGED vars
  BY <1>1 DEF TypeOK, vars, threads, memory, queues
<1>2. CASE MainStep
  BY <1>2, MainStepType
<1>3. CASE ThreadStep
  BY <1>3, ThreadStepType
<1>4. ASSUME NEW step \in Failing, StartFails(step) PROVE TypeOK'
  BY <1>4 DEF StartFails, Main, MainSteps, TypeOK, threads, memory, queues
<1>5. ASSUME NEW s \in Slots, ClientConnects(s) PROVE TypeOK'
  BY <1>5 DEF ClientConnects, TypeOK, threads, memory, queues
<1>6. ASSUME NEW s \in Slots, ClientSends(s) PROVE TypeOK'
  <2>1. packets' \in 0 .. MaxPackets
    <3>1. packets \in 0 .. MaxPackets
      BY DEF TypeOK
    <3>2. packets < MaxPackets /\ packets' = packets + 1
      BY <1>6 DEF ClientSends
    <3> QED BY <3>1, <3>2, StartAssumption
  <2> QED BY <1>6, <2>1 DEF ClientSends, TypeOK, threads, memory, queues
<1> QED BY <1>1, <1>2, <1>3, <1>4, <1>5, <1>6 DEF Next, Start, MainStep, ThreadStep

-----------------------------------------------------------------------------
(* Threads and memory.                                                       *)

\* A thread that is not there yet, or not any more, takes no step of its own.
LEMMA ThreadStepFrame ==
  ASSUME TypeOK, ThreadStep
  PROVE  /\ UNCHANGED <<main, memory>>
         /\ \A t \in Threads : pc[t] \in {"unborn", "ended"} => pc'[t] = pc[t]
<1> USE ThreadNames DEF Goto
<1>0. pc \in [Threads -> ThreadSteps]
  BY DEF TypeOK
<1>1. ASSUME NEW w \in Workers, WorkerThread(w)
      PROVE  /\ UNCHANGED <<main, memory>>
             /\ \A t \in Threads : pc[t] \in {"unborn", "ended"} => pc'[t] = pc[t]
  BY <1>0, <1>1 DEF WorkerThread, Loop, TakeTerminateMsg, PassMsgOn, TakeCompletion, OnRecv
<1>2. CASE AccepterThread \/ SenderThread
  BY <1>0, <1>2 DEF AccepterThread, SenderThread, Loop
<1>3. CASE PacketThread
  BY <1>0, <1>3 DEF PacketThread, PacketThreadBegins, Loop, PacketThreadServes, SendPacket
<1>4. CASE RedisThread
  BY <1>0, <1>4 DEF RedisThread, RedisThreadBegins, Loop, RedisThreadServes
<1> QED BY <1>1, <1>2, <1>3, <1>4 DEF ThreadStep

LEMMA MemoryKept ==
  ASSUME UsersMade, MadeAfterMemory, FreedInOrder, JoinedIsOver, UNCHANGED <<main, memory>>,
         \A t \in Threads : pc[t] \in {"unborn", "ended"} => pc'[t] = pc[t]
  PROVE  UsersMade' /\ MadeAfterMemory' /\ FreedInOrder' /\ JoinedIsOver'
<1>1. UsersMade' /\ FreedInOrder'
  BY DEF UsersMade, FreedInOrder, memory
<1>2. MadeAfterMemory'
  BY ThreadNames DEF MadeAfterMemory, memory
<1>3. JoinedIsOver'
  BY ThreadNames DEF JoinedIsOver, Over
<1> QED BY <1>1, <1>2, <1>3

LEMMA StartStepMemory ==
  ASSUME LifecycleInv, Start
  PROVE  UsersMade' /\ MadeAfterMemory' /\ FreedInOrder' /\ JoinedIsOver'
<1> USE ThreadNames, SlotNumbers DEF LifecycleInv, threads, memory
<1>1. UsersMade'
  <2>1. CASE MakeUser
    <3>1. users \in Nat
      BY DEF TypeOK
    <3>2. /\ users' = users + 1 /\ users < SlotCnt
          /\ main' = IF LastUser THEN "run_packet" ELSE "make_users"
      BY <2>1 DEF MakeUser, Main, UsersMade
    <3>3. main' = "make_users" => users' < SlotCnt
      BY <3>1, <3>2 DEF LastUser
    <3> QED BY <3>2, <3>3 DEF UsersMade
  <2>2. CASE ~MakeUser
    <3>1. UNCHANGED users
      BY <2>2 DEF Start, StartServer, InitListenSocket, InitSessionPool, CreateIOCP,
                  CreateWorkerThread, CreateAccepterThread, CreateSenderThread,
                  BindAndListen, SetManagers, RunPacketThread, ConnectRedis, RunRedis,
                  StartFails
    <3>2. \/ main \in {"start", "init_listen", "init_sessions", "create_iocp",
                       "create_workers", "create_accepter", "create_sender", "bind",
                       "listen", "register", "set_managers"}
          \/ main' \in {"connect_redis", "run_redis", "host"}
      BY <2>2 DEF Start, StartServer, InitListenSocket, InitSessionPool, CreateIOCP,
                  CreateWorkerThread, CreateAccepterThread, CreateSenderThread,
                  BindAndListen, SetManagers, RunPacketThread, ConnectRedis, RunRedis,
                  StartFails, Main
    <3> QED BY <3>1, <3>2 DEF UsersMade
  <2> QED BY <2>1, <2>2
<1>2. main' \notin AfterWorkersEnd /\ main \notin AfterWorkersEnd
  <2>1. ASSUME NEW step \in Failing, StartFails(step)
        PROVE  main \in {"init_listen", "create_iocp"} \cup Making /\ main' = "host"
    BY <2>1, StartAssumption DEF StartFails, Main, Making
  <2>2. ~(\E step \in Failing : StartFails(step)) =>
          /\ main \in {"start", "init_listen", "init_sessions", "create_iocp"} \cup Making
          /\ main' \in {"init_listen", "init_sessions", "create_iocp", "host"} \cup Making
    BY DEF Start, StartServer, InitListenSocket, InitSessionPool, CreateIOCP,
           CreateWorkerThread, CreateAccepterThread, CreateSenderThread, BindAndListen,
           SetManagers, MakeUser, RunPacketThread, ConnectRedis, RunRedis, Main, Making
  <2>3. \A x \in {"start", "init_listen", "init_sessions", "create_iocp", "host"} \cup Making :
          x \notin AfterWorkersEnd
    BY DEF Making, AfterWorkersEnd, AfterCloseListen, AfterAcceptEnds, AfterSenderEnds,
           AfterDelete, AfterCloseIOCP
  <2> QED BY <2>1, <2>2, <2>3
<1>3. JoinedIsOver'
  BY <1>2 DEF JoinedIsOver, AfterWorkersEnd, AfterCloseListen, AfterAcceptEnds,
              AfterSenderEnds, AfterDelete
<1>4. listen_socket_ # "closed" /\ session_list_ # "deleted" /\ iocp_ # "closed"
  BY <1>2 DEF FreedInOrder, AfterWorkersEnd, AfterCloseListen, AfterAcceptEnds,
              AfterSenderEnds, AfterDelete
<1>5. FreedInOrder'
  BY <1>4 DEF Start, StartServer, InitListenSocket, InitSessionPool, CreateIOCP,
              CreateWorkerThread, CreateAccepterThread, CreateSenderThread, BindAndListen,
              SetManagers, MakeUser, RunPacketThread, ConnectRedis, RunRedis, StartFails,
              FreedInOrder
<1>6. MadeAfterMemory'
  <2>1. CASE StartServer \/ InitListenSocket
    BY <2>1 DEF StartServer, InitListenSocket, Main, MadeAfterMemory, Making
  <2>2. CASE InitSessionPool
    BY <2>2 DEF InitSessionPool, Main, MadeAfterMemory, Making
  <2>3. CASE CreateIOCP
    BY <2>3 DEF CreateIOCP, Main, MadeAfterMemory, Making
  <2>4. CASE CreateWorkerThread \/ CreateAccepterThread \/ CreateSenderThread
             \/ BindAndListen \/ SetManagers \/ MakeUser \/ RunPacketThread
             \/ ConnectRedis \/ RunRedis
    <3>1. /\ main \in Making /\ main' \in Making \cup {"host"}
          /\ UNCHANGED <<session_list_, iocp_>>
      BY <2>4 DEF CreateWorkerThread, CreateAccepterThread, CreateSenderThread,
                  BindAndListen, SetManagers, MakeUser, RunPacketThread, ConnectRedis,
                  RunRedis, Main, Making
    <3>2. session_list_' = "ready" /\ iocp_' = "open"
      BY <3>1 DEF MadeAfterMemory
    <3> QED BY <3>1, <3>2 DEF MadeAfterMemory, Making
  <2>5. ASSUME NEW step \in Failing, StartFails(step) PROVE MadeAfterMemory'
    BY <2>5 DEF StartFails, Main, MadeAfterMemory, Making
  <2> QED BY <2>1, <2>2, <2>3, <2>4, <2>5 DEF Start
<1> QED BY <1>1, <1>3, <1>5, <1>6

LEMMA TerminateStepMemory ==
  ASSUME LifecycleInv, KeyPressed \/ Terminate
  PROVE  UsersMade' /\ MadeAfterMemory' /\ FreedInOrder' /\ JoinedIsOver'
<1> USE DEF LifecycleInv, threads, memory
<1> DEFINE End == {"post", "stop_workers", "join_workers"} \cup AfterWorkersEnd
<1>1. main' \in End
  BY DEF KeyPressed, Terminate, PostTerminateMsg, DestroyThread, CloseListenSocket,
         DeleteSessions, CloseIOCP, StopRedis, StopPacketThread, StopServer, Main,
         AfterWorkersEnd, AfterCloseListen, AfterAcceptEnds, AfterSenderEnds, AfterDelete,
         AfterCloseIOCP
<1>2. UNCHANGED pc
  BY DEF KeyPressed, Terminate, PostTerminateMsg, DestroyThread, CloseListenSocket,
         DeleteSessions, CloseIOCP, StopRedis, StopPacketThread, StopServer
<1>3. UsersMade'
  BY <1>1 DEF UsersMade, AfterWorkersEnd, AfterCloseListen, AfterAcceptEnds,
              AfterSenderEnds, AfterDelete, AfterCloseIOCP
<1>4. MadeAfterMemory'
  <2>1. /\ session_list_' = "null" => session_list_ = "null"
        /\ iocp_' = "none" => iocp_ = "none"
    BY DEF KeyPressed, Terminate, PostTerminateMsg, DestroyThread, CloseListenSocket,
           DeleteSessions, CloseIOCP, StopRedis, StopPacketThread, StopServer
  <2>2. main' \notin {"start", "init_listen", "init_sessions", "create_iocp"} \cup Making
    BY <1>1 DEF Making, AfterWorkersEnd, AfterCloseListen, AfterAcceptEnds,
                AfterSenderEnds, AfterDelete, AfterCloseIOCP
  <2> QED BY <1>2, <2>1, <2>2 DEF MadeAfterMemory
<1>5. FreedInOrder' /\ JoinedIsOver'
  <2> USE <1>2, ThreadNames
      DEF FreedInOrder, JoinedIsOver, Over, Main, AfterWorkersEnd, AfterCloseListen,
          AfterAcceptEnds, AfterSenderEnds, AfterDelete, AfterCloseIOCP
  <2>1. CASE KeyPressed \/ PostTerminateMsg
    BY <2>1 DEF KeyPressed, PostTerminateMsg
  <2>2. CASE DestroyThread
    BY <2>2 DEF DestroyThread, Joins, Joined
  <2>3. CASE CloseListenSocket
    BY <2>3 DEF CloseListenSocket
  <2>4. CASE DeleteSessions
    BY <2>4 DEF DeleteSessions
  <2>5. CASE CloseIOCP
    BY <2>5 DEF CloseIOCP
  <2>6. CASE StopRedis \/ StopPacketThread \/ StopServer
    BY <2>6 DEF StopRedis, StopPacketThread, StopServer
  <2> QED BY <2>1, <2>2, <2>3, <2>4, <2>5, <2>6 DEF Terminate
<1> QED BY <1>3, <1>4, <1>5

-----------------------------------------------------------------------------
(* The invariant and what follows from it.                                   *)

LEMMA LifecycleInit ==
  ASSUME Init
  PROVE  LifecycleInv
<1>1. TypeOK
  <2>1. running \in [Flags -> BOOLEAN] /\ main \in MainSteps
    BY DEF Init, MainSteps
  <2>2. pc \in [Threads -> ThreadSteps] /\ on \in [Threads -> Slots]
    BY SlotNumbers DEF Init, ThreadSteps
  <2>3. users \in 0 .. SlotCnt /\ packets \in 0 .. MaxPackets /\ terminates \in Nat
    BY StartAssumption DEF Init
  <2>4. /\ incoming \in [Slots -> Nat] /\ tasks \in [Slots -> Nat] /\ results \in [Slots -> Nat]
        /\ managers_set \in BOOLEAN
    BY DEF Init
  <2> QED BY <2>1, <2>2, <2>3, <2>4 DEF Init, TypeOK
<1>2. UsersMade /\ MadeAfterMemory /\ FreedInOrder
  BY ThreadNames DEF Init, UsersMade, MadeAfterMemory, FreedInOrder, Making
<1>3. JoinedIsOver
  BY ThreadNames DEF Init, JoinedIsOver, Over
<1> QED BY <1>1, <1>2, <1>3 DEF LifecycleInv

LEMMA LifecycleStep ==
  ASSUME LifecycleInv, [Next]_vars
  PROVE  LifecycleInv'
<1>1. TypeOK'
  BY TypeStep DEF LifecycleInv
<1>2. CASE UNCHANGED vars
  BY <1>1, <1>2, MemoryKept DEF LifecycleInv, vars, threads
<1>3. CASE Start
  BY <1>1, <1>3, StartStepMemory DEF LifecycleInv
<1>4. CASE KeyPressed \/ Terminate
  BY <1>1, <1>4, TerminateStepMemory DEF LifecycleInv
<1>5. CASE ThreadStep
  BY <1>1, <1>5, ThreadStepFrame, MemoryKept DEF LifecycleInv
<1>6. ASSUME NEW s \in Slots, ClientConnects(s) \/ ClientSends(s) PROVE LifecycleInv'
  BY <1>1, <1>6, MemoryKept DEF LifecycleInv, ClientConnects, ClientSends, threads
<1> QED BY <1>2, <1>3, <1>4, <1>5, <1>6 DEF Next, ThreadStep

LEMMA LifecycleAlways == Spec => []LifecycleInv
BY LifecycleInit, LifecycleStep, PTL DEF Spec

\* The variables keep their types: as many users are made as there are slots
\* (user_manager.cpp), and no more.
THEOREM LifecycleTypes == Spec => []TypeOK
<1>1. LifecycleInv => TypeOK
  BY DEF LifecycleInv
<1> QED BY <1>1, LifecycleAlways, PTL

\* Network::Terminate (network.cpp:155-168) frees the sessions and the port
\* when no thread of the network is left to use them, whichever step of Start
\* failed and whenever the key was pressed, and no thread uses them before
\* they are there.
THEOREM MemoryOutlivesThreads == Spec => []NetworkThreadsHaveMemory
<1>1. LifecycleInv => NetworkThreadsHaveMemory
  <2> SUFFICES ASSUME LifecycleInv PROVE NetworkThreadsHaveMemory
    OBVIOUS
  <2>1. listen_socket_ = "closed" => \A w \in Workers : Over(w)
    BY DEF LifecycleInv, FreedInOrder, JoinedIsOver, AfterWorkersEnd
  <2>2. \/ session_list_ = "ready"
        \/ \A t \in NetworkThreads : Over(t)
    <3>1. CASE session_list_ = "null"
      BY <3>1 DEF LifecycleInv, MadeAfterMemory, Over
    <3>2. CASE session_list_ = "deleted"
      <4>1. main \in AfterDelete
        BY <3>2 DEF LifecycleInv, FreedInOrder
      <4>2. main \in AfterWorkersEnd /\ main \in AfterAcceptEnds /\ main \in AfterSenderEnds
        BY <4>1 DEF AfterWorkersEnd, AfterCloseListen, AfterAcceptEnds, AfterSenderEnds
      <4> QED BY <4>2 DEF LifecycleInv, JoinedIsOver, NetworkThreads
    <3> QED BY <3>1, <3>2 DEF LifecycleInv, TypeOK
  <2>3. iocp_ = "open" \/ \A w \in Workers : Over(w)
    <3>1. CASE iocp_ = "none"
      BY <3>1, ThreadNames DEF LifecycleInv, MadeAfterMemory, Over
    <3>2. CASE iocp_ = "closed"
      <4>1. main \in AfterCloseIOCP
        BY <3>2 DEF LifecycleInv, FreedInOrder
      <4>2. main \in AfterWorkersEnd
        BY <4>1 DEF AfterWorkersEnd, AfterCloseListen, AfterAcceptEnds, AfterSenderEnds,
                    AfterDelete
      <4> QED BY <4>2 DEF LifecycleInv, JoinedIsOver
    <3> QED BY <3>1, <3>2 DEF LifecycleInv, TypeOK
  <2> QED BY <2>1, <2>2, <2>3 DEF NetworkThreadsHaveMemory, Over
<1> QED BY <1>1, LifecycleAlways, PTL
=============================================================================
