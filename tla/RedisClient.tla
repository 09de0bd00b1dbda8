------------------------------ MODULE RedisClient ------------------------------
(***************************************************************************)
(* CRedisClient (Content/RedisClient.cpp): callers that execute commands   *)
(* under the shared side of m_rwLock, the connection pools of the servers, *)
(* and the refresh thread that rebuilds pools and slot table under the     *)
(* exclusive side, up to the destructor that joins it.                     *)
(*                                                                         *)
(* A connection is [ctx, fresh]: the state of m_pContext, and whether less *)
(* than m_nSerTimeout seconds have passed since m_nUseTime.  One host and  *)
(* port is one member of Nodes; a server object is named by its node.      *)
(* Which of the listed servers is asked first is left open.                *)
(***************************************************************************)
EXTENDS Integers, Sequences, FiniteSets

CONSTANTS
  Callers,        \* threads that call the client
  Nodes,          \* redis nodes
  Slots,          \* hash slots the callers' keys fall into
  m_bCluster,     \* what "info" said of cluster_enabled
  m_nConnNum,     \* connections per server
  SerTimeout,     \* what "config get timeout" answers
  None            \* no node: a slot nobody serves

ASSUME ClientAssumption ==
  /\ m_bCluster \in BOOLEAN
  /\ m_nConnNum \in Nat \ {0}
  /\ SerTimeout \in Nat
  /\ None \notin Nodes
  /\ IsFiniteSet(Callers) /\ IsFiniteSet(Nodes)

RC_SUCCESS == 0
RC_REPLY_ERR == -2
RC_RQST_ERR == -3
RC_NO_RESOURCE == -4

VARIABLES
  owner,          \* which node serves a slot now
  up,             \* the nodes that run
  quiet,          \* no more failures and no more resharding
  m_bValid, m_bExit,
  m_vecSlot,      \* the slot table
  m_vecRedisServ, \* the servers of the table
  server,         \* per node: its m_queIdleConn and m_nSerTimeout
  call,           \* per caller: where it is in Execute
  refresh,        \* where the refresh thread is in operator()
  asked,          \* servers LoadClusterSlots has asked in vain
  regions,        \* the slot regions it was told
  destroyer       \* where the thread that destroys the client is

env == <<owner, up, quiet>>
table == <<m_vecSlot, m_vecRedisServ>>
thread == <<refresh, asked, regions>>
vars == <<env, m_bValid, m_bExit, table, server, call, thread, destroyer>>

-----------------------------------------------------------------------------
(* Connections.                                                            *)

Conn == [ctx : {"none", "good", "broken"}, fresh : BOOLEAN]
NoConn == [ctx |-> "none", fresh |-> FALSE]

\* A connection just made: with m_nSerTimeout = 0 it counts as old at once.
Connected(n) == [ctx |-> "good", fresh |-> server[n].m_nSerTimeout > 0]

\* ConnectToRedis succeeds only with a node that runs; m_nUseTime is left
\* alone when it fails.
Reconnect(n, conn) ==
  IF n \in up THEN Connected(n) ELSE [conn EXCEPT !.ctx = "none"]

\* m_pContext is null or the connection is too old to be trusted.
MustReconnect(conn) == conn.ctx = "none" \/ ~conn.fresh

Ready(n, conn) == IF MustReconnect(conn) THEN Reconnect(n, conn) ELSE conn

\* CmdRequest on a connection: the node may have carried the command out or
\* not when no answer comes, and what stays behind is a broken context.
Sent(n, conn) ==
  (IF conn.ctx = "good" /\ n \in up
     THEN {[conn |-> conn, done |-> TRUE, answered |-> TRUE]} ELSE {})
  \cup
  (IF conn.ctx # "good" \/ n \notin up \/ ~quiet
     THEN [conn : {[conn EXCEPT !.ctx = "broken"]},
           done : (IF conn.ctx = "good" /\ n \in up THEN BOOLEAN ELSE {FALSE}),
           answered : {FALSE}]
     ELSE {})

\* "tmNow - m_nUseTime < m_nSerTimeout" after a failure.  With a timeout it
\* holds whether the connection was fresh or just made; without one only if
\* the clock ticked while it was made.
NotOldYet(n) == IF server[n].m_nSerTimeout > 0 THEN {TRUE} ELSE BOOLEAN

\* CRedisServer::Initialize on a node that runs: at least one of the
\* m_nConnNum connections is made, the others are dropped, and the first of
\* the queue asks for the timeout and goes to the end.
Pools(old) ==
  LET made == [ctx |-> "good", fresh |-> old > 0]
      lost == [made EXCEPT !.ctx = "broken"]
      Idle(k, last) == [i \in 1..k |-> IF i = k THEN last ELSE made]
  IN  {[m_queIdleConn |-> Idle(k, made), m_nSerTimeout |-> SerTimeout] :
         k \in IF quiet THEN {m_nConnNum} ELSE 1..m_nConnNum}
      \cup
      (IF quiet THEN {}
       ELSE {[m_queIdleConn |-> Idle(k, lost), m_nSerTimeout |-> old] :
               k \in 1..m_nConnNum})

Deleted == [m_queIdleConn |-> <<>>, m_nSerTimeout |-> 0]

-----------------------------------------------------------------------------
(* Initialize has returned true and the refresh thread has begun.          *)

Requesting(c) == call[c].pc \in {"Fetch", "Request", "Resend"}
Loading == refresh \in {"Ask", "Build"}

\* No caller is inside SimpleExecute.
Exclusive == \A c \in Callers : ~Requesting(c)
\* The refresh thread is not inside its lock_guard.
Shared == ~Loading

IdleCall == [pc |-> "Idle", slot |-> None, try |-> 1, serv |-> None,
             conn |-> NoConn, done |-> 0, ret |-> RC_SUCCESS]

Init ==
  /\ owner \in [Slots -> Nodes]
  /\ up = Nodes
  /\ quiet = FALSE
  /\ m_bValid = TRUE /\ m_bExit = FALSE
  /\ m_vecSlot = owner
  /\ m_vecRedisServ = {owner[s] : s \in Slots}
  /\ m_bCluster \/ Cardinality(m_vecRedisServ) = 1
  /\ server = [n \in Nodes |->
       IF n \in m_vecRedisServ
         THEN [m_queIdleConn |-> [i \in 1..m_nConnNum |->
                                   [ctx |-> "good", fresh |-> SerTimeout > 0]],
               m_nSerTimeout |-> SerTimeout]
         ELSE Deleted]
  /\ call = [c \in Callers |-> IdleCall]
  /\ refresh = "Test" /\ asked = {} /\ regions = [s \in Slots |-> None]
  /\ destroyer = "Alive"

-----------------------------------------------------------------------------
(* Execute.                                                                *)

Step(c, pc) == call' = [call EXCEPT ![c].pc = pc]

\* What SimpleExecute returned, the shared lock given back: the first
\* RC_RQST_ERR goes to WaitForRefresh, and so would a MOVED reported as
\* RC_REPLY_ERR; anything else goes to the caller.
Result(c, ret, record) ==
  call' = [call EXCEPT ![c] =
    IF record.try = 1
       /\ (ret = RC_RQST_ERR \/ (m_bCluster /\ ret = RC_REPLY_ERR))
      THEN [record EXCEPT !.pc = "Notify", !.serv = None, !.conn = NoConn]
      ELSE [IdleCall EXCEPT !.done = record.done, !.ret = ret]]

\* Execute: an invalid client refuses at once.
Call(c, s) ==
  /\ call[c].pc = "Idle" /\ destroyer = "Alive"
  /\ call' = [call EXCEPT ![c] =
       IF m_bValid THEN [IdleCall EXCEPT !.pc = "Lock", !.slot = s]
                   ELSE [IdleCall EXCEPT !.ret = RC_RQST_ERR]]
  /\ UNCHANGED <<env, m_bValid, m_bExit, table, server, thread, destroyer>>

GetMatchedServer(s) ==
  IF m_bCluster THEN m_vecSlot[s] ELSE CHOOSE n \in m_vecRedisServ : TRUE

\* Slip: the request is made without the shared lock.
EnterUnlocked(c) ==
  /\ call[c].pc = "Lock"
  /\ LET n == GetMatchedServer(call[c].slot)
     IN  IF ~m_bValid \/ n = None
           THEN Result(c, RC_RQST_ERR, call[c])
           ELSE call' = [call EXCEPT ![c].pc = "Fetch", ![c].serv = n]
  /\ UNCHANGED <<env, m_bValid, m_bExit, table, server, thread, destroyer>>

\* SimpleExecute takes the lock and finds the server of the slot.
Enter(c) ==
  /\ call[c].pc = "Lock" /\ Shared
  /\ LET n == GetMatchedServer(call[c].slot)
     IN  IF ~m_bValid \/ n = None
           THEN Result(c, RC_RQST_ERR, call[c])
           ELSE call' = [call EXCEPT ![c].pc = "Fetch", ![c].serv = n]
  /\ UNCHANGED <<env, m_bValid, m_bExit, table, server, thread, destroyer>>

FetchConnection(c) ==
  LET n == call[c].serv
      q == server[n].m_queIdleConn
  IN  /\ call[c].pc = "Fetch" /\ q # <<>>
      /\ call' = [call EXCEPT ![c].pc = "Request", ![c].conn = Head(q)]
      /\ server' = [server EXCEPT ![n].m_queIdleConn = Tail(q)]
      /\ UNCHANGED <<env, m_bValid, m_bExit, table, thread, destroyer>>

\* The pool is still empty at the last of RQST_RETRY_TIMES tries.
NoConnection(c) ==
  /\ call[c].pc = "Fetch" /\ server[call[c].serv].m_queIdleConn = <<>>
  /\ Result(c, RC_NO_RESOURCE, call[c])
  /\ UNCHANGED <<env, m_bValid, m_bExit, table, server, thread, destroyer>>

\* Slip: a connection that failed is not given back.
ReturnGood(n, conn) ==
  server' = IF conn.ctx = "good"
              THEN [server EXCEPT ![n].m_queIdleConn = Append(@, conn)]
              ELSE server

ReturnConnection(n, conn) ==
  server' = [server EXCEPT ![n].m_queIdleConn = Append(@, conn)]

\* A node answers MOVED for a slot it does not serve.
Moved(c) == m_bCluster /\ owner[call[c].slot] # call[c].serv

\* Slip: CmdRequest looks at the reply.
ReplyKind(c) == IF Moved(c) THEN RC_REPLY_ERR ELSE RC_SUCCESS

\* CmdRequest calls any reply RC_SUCCESS: only FetchResult, which is called
\* after Execute, tells an error from a value.
Reply(c) == RC_SUCCESS

\* How often the command was carried out: not where it was answered MOVED.
Done(c, out) ==
  IF out.done /\ ~Moved(c)
    THEN [call[c] EXCEPT !.done = @ + 1] ELSE call[c]

\* ConnRequest up to its first CmdRequest, which is followed by another one
\* when it fails on a connection that is old.
ConnRequest(c) ==
  LET n == call[c].serv
      conn == Ready(n, call[c].conn)
  IN  /\ call[c].pc = "Request"
      /\ \/ /\ conn.ctx = "none"
            /\ ReturnConnection(n, conn)
            /\ Result(c, RC_RQST_ERR, call[c])
         \/ /\ conn.ctx # "none"
            /\ \E out \in Sent(n, conn) :
                 \/ /\ out.answered
                    /\ ReturnConnection(n, [out.conn EXCEPT
                                      !.fresh = server[n].m_nSerTimeout > 0])
                    /\ Result(c, Reply(c), Done(c, out))
                 \/ /\ ~out.answered /\ TRUE \in NotOldYet(n)
                    /\ ReturnConnection(n, out.conn)
                    /\ Result(c, RC_RQST_ERR, Done(c, out))
                 \/ /\ ~out.answered /\ FALSE \in NotOldYet(n)
                    /\ call' = [call EXCEPT ![c] =
                         [Done(c, out) EXCEPT !.pc = "Resend",
                                              !.conn = out.conn]]
                    /\ UNCHANGED server
      /\ UNCHANGED <<env, m_bValid, m_bExit, table, thread, destroyer>>

\* Slip: sent again and again until an answer comes.
ResendUntilAnswered(c) ==
  LET n == call[c].serv
      conn == Reconnect(n, call[c].conn)
  IN  /\ call[c].pc = "Resend"
      /\ \E out \in Sent(n, conn) :
           IF out.answered
             THEN /\ ReturnConnection(n, out.conn)
                  /\ Result(c, RC_SUCCESS, Done(c, out))
             ELSE /\ call' = [call EXCEPT ![c] = Done(c, out)]
                  /\ UNCHANGED server
      /\ UNCHANGED <<env, m_bValid, m_bExit, table, thread, destroyer>>

\* ConnRequest's second attempt, on a new connection.
Resend(c) ==
  LET n == call[c].serv
      conn == Reconnect(n, call[c].conn)
  IN  /\ call[c].pc = "Resend"
      /\ \/ /\ conn.ctx = "none"
            /\ ReturnConnection(n, conn)
            /\ Result(c, RC_RQST_ERR, call[c])
         \/ /\ conn.ctx # "none"
            /\ \E out \in Sent(n, conn) :
                 /\ ReturnConnection(n, out.conn)
                 /\ Result(c, IF out.answered THEN Reply(c) ELSE RC_RQST_ERR,
                           Done(c, out))
      /\ UNCHANGED <<env, m_bValid, m_bExit, table, thread, destroyer>>

\* Slip: nobody is woken.
WakeNobody == UNCHANGED refresh
\* m_condAny.notify_all()
NotifyAll == refresh' = IF refresh = "Wait" THEN "Woken" ELSE refresh

\* WaitForRefresh: notify if try_lock_shared succeeds ...
Notify(c) ==
  /\ call[c].pc = "Notify"
  /\ IF Shared THEN NotifyAll ELSE UNCHANGED refresh
  /\ Step(c, "Poll")
  /\ UNCHANGED <<env, m_bValid, m_bExit, table, server, asked, regions, destroyer>>

\* Slip: the wait for a valid client is not bounded.
PollForever(c) ==
  /\ call[c].pc = "Poll" /\ m_bValid
  /\ call' = [call EXCEPT ![c].pc = "Lock", ![c].try = 2]
  /\ UNCHANGED <<env, m_bValid, m_bExit, table, server, thread, destroyer>>

\* ... then look at m_bValid up to WAIT_RETRY_TIMES times.
Poll(c) ==
  /\ call[c].pc = "Poll"
  /\ \/ /\ m_bValid
        /\ call' = [call EXCEPT ![c].pc = "Lock", ![c].try = 2]
     \/ /\ ~m_bValid
        /\ call' = [call EXCEPT ![c] = [IdleCall EXCEPT
                      !.done = call[c].done, !.ret = RC_RQST_ERR]]
  /\ UNCHANGED <<env, m_bValid, m_bExit, table, server, thread, destroyer>>

-----------------------------------------------------------------------------
(* The refresh thread.                                                     *)

Go(pc) ==
  refresh' = pc /\ asked' = {} /\ regions' = [s \in Slots |-> None]

\* Slip: a failed reload ends the thread.
EndOnFailure ==
  /\ refresh = "Test"
  /\ Go(IF m_bExit \/ ~m_bValid THEN "End" ELSE "Lock")
  /\ UNCHANGED <<env, m_bValid, m_bExit, table, server, call, destroyer>>

\* while (!m_bExit)
RefreshTest ==
  /\ refresh = "Test"
  /\ Go(IF m_bExit THEN "End" ELSE "Lock")
  /\ UNCHANGED <<env, m_bValid, m_bExit, table, server, call, destroyer>>

Reload ==
  /\ refresh' = (IF m_bCluster THEN "Ask" ELSE "Build")
  /\ asked' = {} /\ UNCHANGED regions

\* lock_guard, then wait on the condition if the client is valid.
RefreshLock ==
  /\ refresh = "Lock" /\ Exclusive
  /\ IF m_bValid THEN Go("Wait") ELSE Reload
  /\ UNCHANGED <<env, m_bValid, m_bExit, table, server, call, destroyer>>

\* The wait has ended and has the lock again.
RefreshWoken ==
  /\ refresh = "Woken" /\ Exclusive
  /\ Reload
  /\ UNCHANGED <<env, m_bValid, m_bExit, table, server, call, destroyer>>

\* A condition variable may wake without a notification.
SpuriousWakeup ==
  /\ refresh = "Wait"
  /\ Go("Woken")
  /\ UNCHANGED <<env, m_bValid, m_bExit, table, server, call, destroyer>>

\* m_bValid is set from the outcome and the lock given back.
Finish(valid) ==
  m_bValid' = valid /\ Go(IF valid THEN "Test" ELSE "Sleep")

\* LoadClusterSlots asks the servers of the table in turn for the slots.
\* The request runs as a caller's does, on a connection of the server. Until
\* redis is quiet the answer may be an error: then too the next one is asked.
RefreshAsk ==
  /\ refresh = "Ask"
  /\ \/ /\ \/ asked = m_vecRedisServ
           \/ \E n \in m_vecRedisServ \ asked : server[n].m_queIdleConn = <<>>
        /\ Finish(FALSE)
        /\ UNCHANGED server
     \/ \E n \in m_vecRedisServ \ asked :
          LET q == server[n].m_queIdleConn
              conn == Ready(n, Head(q))
              Back(back) == server' = [server EXCEPT
                              ![n].m_queIdleConn = Append(Tail(q), back)]
          IN  \/ /\ q # <<>> /\ conn.ctx = "none"
                 /\ Back(conn)
                 /\ asked' = asked \cup {n}
                 /\ UNCHANGED <<m_bValid, refresh, regions>>
              \/ /\ q # <<>> /\ conn.ctx # "none"
                 /\ \E out \in Sent(n, conn) :
                      /\ Back(out.conn)
                      /\ \/ /\ out.answered
                            /\ regions' = owner /\ refresh' = "Build"
                            /\ asked' = {}
                         \/ /\ ~out.answered \/ ~quiet
                            /\ asked' = asked \cup {n}
                            /\ UNCHANGED <<refresh, regions>>
                 /\ UNCHANGED m_bValid
  /\ UNCHANGED <<env, m_bExit, table, call, destroyer>>

Served == {regions[s] : s \in Slots} \ {None}

\* Slip: the new servers are taken over, the slot table is not.
ForgetSlots ==
  /\ refresh = "Build" /\ m_bCluster
  /\ \/ /\ Served \subseteq up
        /\ \E new \in [Served -> Pools(0)] :
             server' = [n \in Nodes |->
                          IF n \in Served THEN new[n] ELSE Deleted]
        /\ m_vecRedisServ' = Served /\ UNCHANGED m_vecSlot
        /\ Finish(TRUE)
     \/ /\ ~(Served \subseteq up) \/ ~quiet
        /\ Finish(FALSE)
        /\ UNCHANGED <<table, server>>
  /\ UNCHANGED <<env, m_bExit, call, destroyer>>

\* LoadClusterSlots: a server for every region, and the table exchanged only
\* when all of them are valid.
RefreshCluster ==
  /\ refresh = "Build" /\ m_bCluster
  /\ \/ /\ Served \subseteq up
        /\ \E new \in [Served -> Pools(0)] :
             server' = [n \in Nodes |->
                          IF n \in Served THEN new[n] ELSE Deleted]
        /\ m_vecSlot' = regions /\ m_vecRedisServ' = Served
        /\ Finish(TRUE)
     \/ /\ ~(Served \subseteq up) \/ ~quiet
        /\ Finish(FALSE)
        /\ UNCHANGED <<table, server>>
  /\ UNCHANGED <<env, m_bExit, call, destroyer>>

\* CRedisServer::Initialize of the only server empties the pool first.
RefreshSingle ==
  /\ refresh = "Build" /\ ~m_bCluster
  /\ \E n \in m_vecRedisServ :
       \/ /\ n \in up
          /\ \E pool \in Pools(server[n].m_nSerTimeout) :
               server' = [server EXCEPT ![n] = pool]
          /\ Finish(TRUE)
       \/ /\ n \notin up \/ ~quiet
          /\ server' = [server EXCEPT ![n].m_queIdleConn = <<>>]
          /\ Finish(FALSE)
  /\ UNCHANGED <<env, m_bExit, table, call, destroyer>>

\* sleep_for(1 s)
RefreshSleep ==
  /\ refresh = "Sleep"
  /\ Go("Test")
  /\ UNCHANGED <<env, m_bValid, m_bExit, table, server, call, destroyer>>

-----------------------------------------------------------------------------
(* The destructor, which nobody may call while commands run.               *)

DestroyBegins ==
  /\ destroyer = "Alive" /\ \A c \in Callers : call[c].pc = "Idle"
  /\ m_bValid' = FALSE /\ destroyer' = "Exit"
  /\ UNCHANGED <<env, m_bExit, table, server, call, thread>>

DestroyExits ==
  /\ destroyer = "Exit"
  /\ m_bExit' = TRUE /\ destroyer' = "Notify"
  /\ UNCHANGED <<env, m_bValid, table, server, call, thread>>

DestroyNotifies ==
  /\ destroyer = "Notify" /\ Exclusive /\ Shared
  /\ NotifyAll
  /\ destroyer' = "Join"
  /\ UNCHANGED <<env, m_bValid, m_bExit, table, server, call, asked, regions>>

\* The thread has ended: CleanServer.
DestroyEnds ==
  /\ destroyer = "Join" /\ refresh = "End"
  /\ destroyer' = "Gone"
  /\ m_vecRedisServ' = {} /\ m_vecSlot' = [s \in Slots |-> None]
  /\ UNCHANGED <<env, m_bValid, m_bExit, server, call, thread>>

-----------------------------------------------------------------------------
(* Redis and the clock.                                                    *)

\* Every connection to a node that stops is broken.
Broken(conn) == IF conn.ctx = "good" THEN [conn EXCEPT !.ctx = "broken"] ELSE conn

NodeStops(n) ==
  /\ ~quiet /\ n \in up
  /\ up' = up \ {n}
  /\ server' = [server EXCEPT ![n].m_queIdleConn =
                  [i \in 1..Len(@) |-> Broken(@[i])]]
  /\ call' = [c \in Callers |-> IF call[c].serv = n
                THEN [call[c] EXCEPT !.conn = Broken(@)] ELSE call[c]]
  /\ UNCHANGED <<owner, quiet, m_bValid, m_bExit, table, thread, destroyer>>

NodeStarts(n) ==
  /\ ~quiet /\ n \notin up
  /\ up' = up \cup {n}
  /\ UNCHANGED <<owner, quiet, m_bValid, m_bExit, table, server, call, thread, destroyer>>

Reshard(s, n) ==
  /\ ~quiet /\ m_bCluster /\ owner[s] # n
  /\ owner' = [owner EXCEPT ![s] = n]
  /\ UNCHANGED <<up, quiet, m_bValid, m_bExit, table, server, call, thread, destroyer>>

\* From here on redis runs without a failure.
Calm ==
  /\ ~quiet /\ up = Nodes
  /\ quiet' = TRUE
  /\ UNCHANGED <<owner, up, m_bValid, m_bExit, table, server, call, thread, destroyer>>

\* m_nSerTimeout seconds go by.
TimePasses ==
  /\ \E n \in Nodes : \E i \in 1..Len(server[n].m_queIdleConn) :
       server[n].m_queIdleConn[i].fresh
  /\ server' = [n \in Nodes |-> [server[n] EXCEPT !.m_queIdleConn =
                  [i \in 1..Len(@) |-> [@[i] EXCEPT !.fresh = FALSE]]]]
  /\ UNCHANGED <<env, m_bValid, m_bExit, table, call, thread, destroyer>>

-----------------------------------------------------------------------------
Caller(c) ==
  \/ Enter(c) \/ FetchConnection(c) \/ NoConnection(c)
  \/ ConnRequest(c) \/ Resend(c) \/ Notify(c) \/ Poll(c)

Refresh ==
  \/ RefreshTest \/ RefreshLock \/ RefreshWoken \/ RefreshAsk
  \/ RefreshCluster \/ RefreshSingle \/ RefreshSleep

Destroy == DestroyExits \/ DestroyNotifies \/ DestroyEnds

Environment ==
  \/ \E n \in Nodes : NodeStops(n) \/ NodeStarts(n)
  \/ \E s \in Slots, n \in Nodes \cup {None} : Reshard(s, n)
  \/ Calm \/ TimePasses \/ SpuriousWakeup

\* The client is gone.
Stop == destroyer = "Gone" /\ UNCHANGED vars

Next ==
  \/ \E c \in Callers : Caller(c) \/ \E s \in Slots : Call(c, s)
  \/ Refresh \/ DestroyBegins \/ Destroy \/ Environment \/ Stop

Spec == Init /\ [][Next]_vars

\* Threads are scheduled, a lock that is free again and again is granted,
\* and time passes.  Nothing obliges anyone to call, to destroy or to fail.
FairSpec ==
  /\ Spec
  /\ \A c \in Callers : SF_vars(Caller(c))
  /\ SF_vars(Refresh) /\ SF_vars(Destroy) /\ WF_vars(TimePasses)

-----------------------------------------------------------------------------
(* Properties.                                                             *)

Codes == {RC_SUCCESS, RC_RQST_ERR, RC_NO_RESOURCE}

ServerStates == [m_queIdleConn : Seq(Conn), m_nSerTimeout : Nat]
CallStates ==
  [pc : {"Idle", "Lock", "Fetch", "Request", "Resend", "Notify", "Poll"},
   slot : Slots \cup {None}, try : {1, 2}, serv : Nodes \cup {None},
   conn : Conn, done : Nat, ret : Codes]

TypeOK ==
  /\ owner \in [Slots -> Nodes \cup {None}] /\ up \subseteq Nodes
  /\ quiet \in BOOLEAN /\ m_bValid \in BOOLEAN /\ m_bExit \in BOOLEAN
  /\ m_vecSlot \in [Slots -> Nodes \cup {None}] /\ m_vecRedisServ \subseteq Nodes
  /\ server \in [Nodes -> ServerStates]
  /\ call \in [Callers -> CallStates]
  /\ refresh \in {"Test", "Lock", "Wait", "Woken", "Ask", "Build", "Sleep", "End"}
  /\ asked \subseteq Nodes /\ regions \in [Slots -> Nodes \cup {None}]
  /\ destroyer \in {"Alive", "Exit", "Notify", "Join", "Gone"}

\* While a caller works with a server object, that object is in the table and
\* is not being replaced: CleanServer never deletes a server in use.
ServersOutliveRequests ==
  \A c \in Callers :
    Requesting(c) => ~Loading /\ call[c].serv \in m_vecRedisServ

Holders(n) ==
  {c \in Callers : call[c].pc \in {"Request", "Resend"} /\ call[c].serv = n}

\* Whatever became of the requests and reloads, a server of a valid client
\* has between one and m_nConnNum connections, idle or in a caller's hands,
\* and a slot is only mapped to a server of the table.
PoolsKept ==
  /\ \A n \in m_vecRedisServ :
       Len(server[n].m_queIdleConn) + Cardinality(Holders(n))
         \in (IF m_bValid THEN 1 ELSE 0)..m_nConnNum
  /\ \A s \in Slots : m_vecSlot[s] \in m_vecRedisServ \cup {None}

\* ConnRequest sends a command at most twice and Execute calls it at most
\* twice, so a command that is not idempotent takes effect up to four times;
\* a caller told RC_NO_RESOURCE may have had two effects.
EffectsBounded ==
  \A c \in Callers :
    call[c].done <= IF call[c].ret = RC_NO_RESOURCE THEN 2 ELSE 4

\* Only a request that got no answer makes Execute ask for a reload: the
\* branch for a MOVED reply is never taken, for ServRequest does not return
\* RC_REPLY_ERR.
ReloadOnlyUnanswered ==
  [][\A c \in Callers :
       Requesting(c) /\ call'[c].pc = "Notify" =>
         LET q == server'[call[c].serv].m_queIdleConn
         IN  q[Len(q)].ctx # "good"]_vars

\* Execute always returns: no wait for the lock, a connection or a refresh
\* goes on for ever.
ExecuteReturns ==
  \A c \in Callers : call[c].pc # "Idle" ~> call[c].pc = "Idle"

\* Once redis runs without failures, the client becomes valid, unless it has
\* been told of no server at all: then nobody is left to be asked.
ClientRecovers ==
  []((quiet /\ destroyer = "Alive") =>
       <>(m_bValid \/ m_vecRedisServ = {} \/ destroyer # "Alive"))

\* From then on requests to a single server are answered, first or second
\* try, or find every connection in use, unless the refresh thread is starved.
RequestsSucceedAgain ==
  <>quiet /\ []<>Exclusive =>
            <>[][\A c \in Callers :
                    Requesting(c) /\ call'[c].pc = "Idle" =>
                      call'[c].ret # RC_RQST_ERR]_vars

\* The destructor returns if m_bValid is still FALSE when it sets m_bExit.
\* (If a reload has set it again, the thread may wait after the notification.)
DestructorReturns ==
  (destroyer = "Notify" /\ ~m_bValid) ~> (destroyer = "Gone")

=============================================================================
