------------------------- MODULE RedisClient_proofs -------------------------
(* What holds of the Redis client for every number of callers, nodes, slots  *)
(* and connections, on a cluster or on one server.                           *)
EXTENDS RedisClient, FiniteSetTheorems, SequenceTheorems, TLAPS

-----------------------------------------------------------------------------
(* The callers.                                                              *)

\* How often the command may have taken effect: twice for each of the tries.
SentAtMost(r) ==
  IF r.pc \in {"Lock", "Fetch", "Request"} THEN (IF r.try = 1 THEN 0 ELSE 2)
  ELSE IF r.pc = "Resend" THEN (IF r.try = 1 THEN 1 ELSE 3)
  ELSE IF r.pc \in {"Notify", "Poll"} THEN 2
  ELSE IF r.ret = RC_NO_RESOURCE THEN 2 ELSE 4

\* A caller that is at work has a slot and no result yet, and only the first
\* of its tries asks for a reload.
Working(r) ==
  r.pc # "Idle" =>
    /\ r.slot \in Slots
    /\ r.ret = RC_SUCCESS
    /\ r.pc \in {"Notify", "Poll"} => r.try = 1

CallsInOrder ==
  \A c \in Callers : Working(call[c]) /\ call[c].done <= SentAtMost(call[c])

\* Nobody calls while the client is destroyed.
DestroyedIdle == destroyer # "Alive" => \A c \in Callers : call[c].pc = "Idle"

-----------------------------------------------------------------------------
(* The servers.                                                              *)

\* Without a cluster there is one server for as long as there is a client.
OneServer ==
  ~m_bCluster =>
    /\ \A m, n \in m_vecRedisServ : m = n
    /\ m_vecRedisServ = {} => destroyer = "Gone"

ClientInv ==
  /\ TypeOK
  /\ CallsInOrder
  /\ DestroyedIdle
  /\ OneServer
  /\ ServersOutliveRequests
  /\ PoolsKept

-----------------------------------------------------------------------------
(* Connections, requests and results.                                        *)

LEMMA ConnTypes ==
  /\ NoConn \in Conn
  /\ \A conn \in Conn : Broken(conn) \in Conn
  /\ \A conn \in Conn : \A b \in BOOLEAN : [conn EXCEPT !.fresh = b] \in Conn
  /\ \A conn \in Conn : [conn EXCEPT !.ctx = "none"] \in Conn
  /\ \A conn \in Conn : [conn EXCEPT !.ctx = "broken"] \in Conn
BY DEF Conn, NoConn, Broken

LEMMA Positive == ASSUME NEW n \in Nat PROVE (n > 0) \in BOOLEAN
OBVIOUS

LEMMA ReadyType ==
  ASSUME TypeOK, NEW n \in Nodes, NEW conn \in Conn
  PROVE  Reconnect(n, conn) \in Conn /\ Ready(n, conn) \in Conn
<1>1. (server[n].m_nSerTimeout > 0) \in BOOLEAN
  BY Positive DEF TypeOK, ServerStates
<1>2. Connected(n) \in Conn
  BY <1>1 DEF Connected, Conn
<1> QED BY <1>2, ConnTypes DEF Ready, Reconnect

\* A request that is not answered leaves a broken connection.
LEMMA SentType ==
  ASSUME NEW n, NEW conn \in Conn, NEW out \in Sent(n, conn)
  PROVE  /\ out.conn \in Conn
         /\ out.done \in BOOLEAN /\ out.answered \in BOOLEAN
         /\ ~out.answered => out.conn.ctx = "broken"
<1>1. CASE out = [conn |-> conn, done |-> TRUE, answered |-> TRUE]
  BY <1>1
<1>2. CASE out \in [conn : {[conn EXCEPT !.ctx = "broken"]},
                    done : (IF conn.ctx = "good" /\ n \in up THEN BOOLEAN ELSE {FALSE}),
                    answered : {FALSE}]
  <2>1. out.conn = [conn EXCEPT !.ctx = "broken"] /\ out.answered = FALSE
    BY <1>2
  <2>2. out.done \in BOOLEAN
    BY <1>2
  <2>3. out.conn.ctx = "broken"
    BY <2>1 DEF Conn
  <2> QED BY <2>1, <2>2, <2>3, ConnTypes
<1> QED BY <1>1, <1>2 DEF Sent

\* Where SimpleExecute's result takes the caller.
LEMMA ResultIs ==
  ASSUME NEW c \in Callers, NEW record \in CallStates, NEW ret \in Codes,
         Result(c, ret, record)
  PROVE  \E r \in CallStates :
           /\ call' = [call EXCEPT ![c] = r]
           /\ r.done = record.done
           /\ \/ r.pc = "Idle" /\ r.ret = ret
              \/ /\ r.pc = "Notify" /\ r.ret = record.ret /\ r.slot = record.slot
                 /\ r.try = 1 /\ record.try = 1 /\ ret = RC_RQST_ERR
<1> DEFINE notify == [record EXCEPT !.pc = "Notify", !.serv = None, !.conn = NoConn]
           idle == [IdleCall EXCEPT !.done = record.done, !.ret = ret]
<1>1. /\ notify \in CallStates /\ notify.done = record.done /\ notify.pc = "Notify"
      /\ notify.ret = record.ret /\ notify.slot = record.slot /\ notify.try = record.try
  BY ConnTypes DEF CallStates
<1>2. idle \in CallStates /\ idle.done = record.done /\ idle.pc = "Idle" /\ idle.ret = ret
  BY ConnTypes DEF CallStates, IdleCall, Codes
<1>3. ret # RC_REPLY_ERR
  BY DEF Codes, RC_SUCCESS, RC_RQST_ERR, RC_NO_RESOURCE, RC_REPLY_ERR
<1>4. \/ call' = [call EXCEPT ![c] = notify] /\ record.try = 1 /\ ret = RC_RQST_ERR
      \/ call' = [call EXCEPT ![c] = idle]
  BY <1>3 DEF Result
<1> HIDE DEF notify, idle
<1> QED BY <1>1, <1>2, <1>4

LEMMA DoneIs ==
  ASSUME TypeOK, NEW c \in Callers, NEW out
  PROVE  /\ Done(c, out) \in CallStates
         /\ Done(c, out).done \in {call[c].done, call[c].done + 1}
         /\ Done(c, out).try = call[c].try /\ Done(c, out).ret = call[c].ret
         /\ Done(c, out).slot = call[c].slot /\ Done(c, out).pc = call[c].pc
         /\ Done(c, out).serv = call[c].serv
BY DEF TypeOK, CallStates, Done

LEMMA PoolType ==
  ASSUME NEW old \in Nat, NEW pool \in Pools(old)
  PROVE  /\ pool \in ServerStates
         /\ Len(pool.m_queIdleConn) \in 1 .. m_nConnNum
<1> DEFINE made == [ctx |-> "good", fresh |-> old > 0]
           lost == [made EXCEPT !.ctx = "broken"]
           Idle(k, last) == [i \in 1..k |-> IF i = k THEN last ELSE made]
<1>1. (old > 0) \in BOOLEAN
  BY Positive
<1>2. made \in Conn /\ lost \in Conn
  BY <1>1 DEF Conn
<1>3. ASSUME NEW k \in 1 .. m_nConnNum, NEW last \in Conn
      PROVE  Idle(k, last) \in Seq(Conn) /\ Len(Idle(k, last)) = k
  <2> HIDE DEF made
  <2>1. k \in Nat
    BY <1>3, ClientAssumption
  <2> QED BY <1>2, <2>1
<1>4. m_nConnNum \in 1 .. m_nConnNum /\ SerTimeout \in Nat
  BY ClientAssumption
<1>5. PICK k \in 1 .. m_nConnNum, last \in {made, lost}, timeout \in {SerTimeout, old} :
        pool = [m_queIdleConn |-> Idle(k, last), m_nSerTimeout |-> timeout]
  BY <1>4 DEF Pools
<1> HIDE DEF made, lost, Idle
<1> QED BY <1>2, <1>3, <1>4, <1>5 DEF ServerStates

-----------------------------------------------------------------------------
(* Connections idle and in a caller's hands.                                 *)

LEMMA HoldersFinite ==
  ASSUME NEW n
  PROVE  IsFiniteSet(Holders(n)) /\ Cardinality(Holders(n)) \in Nat
<1>1. Holders(n) \in SUBSET Callers
  BY DEF Holders
<1> QED BY <1>1, ClientAssumption, FS_Subset, FS_CardinalityType

\* Who is at work on a connection is with its server, which is in the table.
Holding(r, n) == r.pc \in {"Request", "Resend"} /\ r.serv = n

LEMMA HoldersChange ==
  ASSUME TypeOK, NEW c \in Callers, NEW r \in CallStates, call' = [call EXCEPT ![c] = r], NEW n
  PROVE  /\ Holding(r, n) /\ Holding(call[c], n) => Holders(n)' = Holders(n)
         /\ ~Holding(r, n) /\ ~Holding(call[c], n) => Holders(n)' = Holders(n)
         /\ Holding(r, n) /\ ~Holding(call[c], n) =>
              Cardinality(Holders(n)') = Cardinality(Holders(n)) + 1
         /\ ~Holding(r, n) /\ Holding(call[c], n) =>
              Cardinality(Holders(n)') = Cardinality(Holders(n)) - 1
<1>1. \A d \in Callers : call'[d] = IF d = c THEN r ELSE call[d]
  BY DEF TypeOK
<1>2. Holders(n)' = {d \in Callers : Holding(call'[d], n)}
  BY DEF Holders, Holding
<1>3. Holders(n) = {d \in Callers : Holding(call[d], n)}
  BY DEF Holders, Holding
<1> HIDE DEF Holding
<1>4. ASSUME Holding(r, n), ~Holding(call[c], n)
      PROVE  Cardinality(Holders(n)') = Cardinality(Holders(n)) + 1
  <2>1. c \notin Holders(n) /\ Holders(n)' = Holders(n) \cup {c}
    BY <1>1, <1>2, <1>3, <1>4
  <2> QED BY <2>1, HoldersFinite, FS_AddElement
<1>5. ASSUME ~Holding(r, n), Holding(call[c], n)
      PROVE  Cardinality(Holders(n)') = Cardinality(Holders(n)) - 1
  <2>1. c \in Holders(n) /\ Holders(n)' = Holders(n) \ {c}
    BY <1>1, <1>2, <1>3, <1>5
  <2> QED BY <2>1, HoldersFinite, FS_RemoveElement
<1>6. ASSUME Holding(r, n) <=> Holding(call[c], n)
      PROVE  Holders(n)' = Holders(n)
  BY <1>1, <1>2, <1>3, <1>6
<1> QED BY <1>4, <1>5, <1>6

\* How many connections of a server there are.
Pool(n) == Len(server[n].m_queIdleConn) + Cardinality(Holders(n))

LEMMA QueueLength ==
  ASSUME TypeOK, NEW n \in Nodes
  PROVE  /\ server[n].m_queIdleConn \in Seq(Conn)
         /\ Len(server[n].m_queIdleConn) \in Nat
         /\ Pool(n) \in Nat
<1>1. server[n].m_queIdleConn \in Seq(Conn)
  BY DEF TypeOK, ServerStates
<1>2. Len(server[n].m_queIdleConn) \in Nat
  BY <1>1, LenProperties
<1> QED BY <1>1, <1>2, HoldersFinite DEF Pool

-----------------------------------------------------------------------------
(* A caller takes a step.                                                    *)

\* What every step of a caller does to the client.
CallerMoves(c, r) ==
  /\ call' = [call EXCEPT ![c] = r]
  /\ Working(r) /\ r.done <= SentAtMost(r)
  /\ r.pc \in {"Fetch", "Request", "Resend"} => ~Loading /\ r.serv \in m_vecRedisServ
  /\ UNCHANGED <<env, m_bValid, m_bExit, table, asked, regions, destroyer>>
  /\ \/ refresh' = refresh
     \/ refresh = "Wait" /\ refresh' = "Woken"
  /\ destroyer = "Alive"

LEMMA CallerKeeps ==
  ASSUME ClientInv, NEW c \in Callers, NEW r \in CallStates, CallerMoves(c, r),
         server' \in [Nodes -> ServerStates],
         \A n \in m_vecRedisServ : Pool(n)' = Pool(n)
  PROVE  ClientInv'
<1>1. TypeOK'
  BY DEF ClientInv, TypeOK, CallerMoves, env, table
<1>2. \A d \in Callers : call'[d] = IF d = c THEN r ELSE call[d]
  BY DEF ClientInv, TypeOK, CallerMoves
<1>3. CallsInOrder'
  BY <1>2 DEF ClientInv, CallsInOrder, CallerMoves, Working, SentAtMost
<1>4. DestroyedIdle' /\ OneServer'
  BY DEF ClientInv, DestroyedIdle, OneServer, CallerMoves, table
<1>5. Loading' = Loading
  BY DEF CallerMoves, Loading
<1>6. ServersOutliveRequests'
  BY <1>2, <1>5 DEF ClientInv, ServersOutliveRequests, CallerMoves, Requesting, table
<1>7. PoolsKept'
  <2>1. m_vecRedisServ' = m_vecRedisServ /\ m_vecSlot' = m_vecSlot /\ m_bValid' = m_bValid
    BY DEF CallerMoves, table
  <2> QED BY <2>1 DEF ClientInv, PoolsKept, Pool
<1> QED BY <1>1, <1>3, <1>4, <1>6, <1>7 DEF ClientInv

\* Nothing is fetched or returned.
LEMMA CallerHandsOff ==
  ASSUME ClientInv, NEW c \in Callers, NEW r \in CallStates, CallerMoves(c, r),
         UNCHANGED server,
         r.pc \notin {"Request", "Resend"}, call[c].pc \notin {"Request", "Resend"}
  PROVE  ClientInv'
<1>1. \A n : Holders(n)' = Holders(n)
  BY HoldersChange DEF Holding, CallerMoves, ClientInv
<1>2. \A n \in m_vecRedisServ : Pool(n)' = Pool(n)
  BY <1>1 DEF Pool
<1>3. server' \in [Nodes -> ServerStates]
  BY DEF ClientInv, TypeOK
<1> QED BY <1>2, <1>3, CallerKeeps

\* The connection is given back.
LEMMA CallerReturns ==
  ASSUME ClientInv, NEW c \in Callers, NEW r \in CallStates, CallerMoves(c, r),
         NEW conn \in Conn, ReturnConnection(call[c].serv, conn),
         call[c].pc \in {"Request", "Resend"}, r.pc \in {"Idle", "Notify"}
  PROVE  ClientInv'
<1>0. PICK m \in Nodes : m = call[c].serv
  BY DEF ClientInv, ServersOutliveRequests, Requesting, TypeOK
<1>1. server[m].m_queIdleConn \in Seq(Conn)
  BY <1>0, QueueLength DEF ClientInv
<1>2. /\ Append(server[m].m_queIdleConn, conn) \in Seq(Conn)
      /\ Len(Append(server[m].m_queIdleConn, conn)) = Len(server[m].m_queIdleConn) + 1
  BY <1>1, AppendProperties
<1>3. /\ server' \in [Nodes -> ServerStates]
      /\ Len(server'[m].m_queIdleConn) = Len(server[m].m_queIdleConn) + 1
      /\ \A n \in Nodes : n # m => server'[n] = server[n]
  BY <1>0, <1>2 DEF ClientInv, TypeOK, ServerStates, ReturnConnection
<1>8. Holding(call[c], m) /\ \A n : ~Holding(r, n) /\ (n # m => ~Holding(call[c], n))
  BY <1>0 DEF Holding
<1>4. Cardinality(Holders(m)') = Cardinality(Holders(m)) - 1
  BY <1>8, HoldersChange DEF CallerMoves, ClientInv
<1>5. \A n : n # m => Holders(n)' = Holders(n)
  BY <1>8, HoldersChange DEF CallerMoves, ClientInv
<1>6. Pool(m)' = Pool(m)
  <2>1. /\ Len(server[m].m_queIdleConn) \in Nat /\ Cardinality(Holders(m)) \in Nat
    BY <1>0, QueueLength, HoldersFinite DEF ClientInv
  <2> QED BY <1>3, <1>4, <2>1 DEF Pool
<1>7. \A n \in m_vecRedisServ : Pool(n)' = Pool(n)
  BY <1>3, <1>5, <1>6 DEF Pool, ClientInv, TypeOK
<1> QED BY <1>3, <1>7, CallerKeeps

LEMMA MatchedServer ==
  ASSUME ClientInv, destroyer = "Alive", NEW s \in Slots
  PROVE  GetMatchedServer(s) \in m_vecRedisServ \cup {None}
<1>1. CASE m_bCluster
  BY <1>1 DEF GetMatchedServer, ClientInv, PoolsKept
<1>2. CASE ~m_bCluster
  <2>1. \E n : n \in m_vecRedisServ
    BY <1>2 DEF ClientInv, OneServer
  <2>2. (CHOOSE n \in m_vecRedisServ : TRUE) \in m_vecRedisServ
    BY <2>1
  <2> QED BY <1>2, <2>2 DEF GetMatchedServer
<1> QED BY <1>1, <1>2, ClientAssumption

\* A caller that is at work, works for a client that is there.
LEMMA WorkingAlive ==
  ASSUME ClientInv, NEW c \in Callers, call[c].pc # "Idle"
  PROVE  /\ destroyer = "Alive" /\ call[c] \in CallStates /\ Working(call[c])
         /\ call[c].slot \in Slots /\ call[c].ret = RC_SUCCESS
         /\ call[c].done \in Nat /\ call[c].done <= SentAtMost(call[c])
BY DEF ClientInv, DestroyedIdle, TypeOK, CallsInOrder, Working, CallStates

\* What comes of a result: an end, or the second try.
LEMMA ResultMoves ==
  ASSUME ClientInv, NEW c \in Callers, NEW record \in CallStates, NEW ret \in Codes,
         Result(c, ret, record), call[c].pc # "Idle",
         record.slot = call[c].slot, record.ret = call[c].ret, record.try = call[c].try,
         record.done <= IF record.try = 1 THEN 2 ELSE 4,
         ret = RC_NO_RESOURCE => record.done <= 2,
         UNCHANGED <<env, m_bValid, m_bExit, table, thread, destroyer>>
  PROVE  \E r \in CallStates : CallerMoves(c, r) /\ r.pc \in {"Idle", "Notify"}
<1>1. PICK r \in CallStates :
        /\ call' = [call EXCEPT ![c] = r]
        /\ r.done = record.done
        /\ \/ r.pc = "Idle" /\ r.ret = ret
           \/ /\ r.pc = "Notify" /\ r.ret = record.ret /\ r.slot = record.slot
              /\ r.try = 1 /\ record.try = 1 /\ ret = RC_RQST_ERR
  BY ResultIs
<1>2. record.done \in Nat
  BY DEF CallStates
<1>3. CASE r.pc = "Idle"
  <2>1. Working(r)
    BY <1>3 DEF Working
  <2>2. r.done <= SentAtMost(r)
    BY <1>1, <1>2, <1>3 DEF SentAtMost
  <2> QED BY <1>1, <1>3, <2>1, <2>2, WorkingAlive DEF CallerMoves, thread
<1>4. CASE r.pc = "Notify"
  <2>1. Working(r)
    BY <1>1, <1>4, WorkingAlive DEF Working
  <2>2. r.done <= SentAtMost(r)
    BY <1>1, <1>2, <1>4 DEF SentAtMost
  <2> QED BY <1>1, <1>4, <2>1, <2>2, WorkingAlive DEF CallerMoves, thread
<1> QED BY <1>1, <1>3, <1>4

LEMMA CodesDistinct ==
  /\ {RC_SUCCESS, RC_RQST_ERR, RC_NO_RESOURCE} \subseteq Codes
  /\ RC_NO_RESOURCE \notin {RC_SUCCESS, RC_RQST_ERR}
BY DEF Codes, RC_SUCCESS, RC_RQST_ERR, RC_NO_RESOURCE

LEMMA CallStep ==
  ASSUME ClientInv, NEW c \in Callers, NEW s \in Slots, Call(c, s)
  PROVE  ClientInv'
<1>1. PICK r \in CallStates :
        /\ call' = [call EXCEPT ![c] = r] /\ r.done = 0 /\ r.try = 1
        /\ \/ r.pc = "Lock" /\ r.slot = s /\ r.ret = RC_SUCCESS
           \/ r.pc = "Idle" /\ r.ret = RC_RQST_ERR
  <2>1. [IdleCall EXCEPT !.pc = "Lock", !.slot = s] \in CallStates
    BY ConnTypes, CodesDistinct DEF IdleCall, CallStates
  <2>2. [IdleCall EXCEPT !.ret = RC_RQST_ERR] \in CallStates
    BY ConnTypes, CodesDistinct DEF IdleCall, CallStates
  <2>3. CASE m_bValid
    BY <2>1, <2>3 DEF Call, IdleCall
  <2>4. CASE ~m_bValid
    BY <2>2, <2>4 DEF Call, IdleCall
  <2> QED BY <2>3, <2>4
<1>2. Working(r) /\ r.done <= SentAtMost(r)
  BY <1>1 DEF Working, SentAtMost
<1>3. CallerMoves(c, r)
  BY <1>1, <1>2 DEF CallerMoves, Call, thread
<1> QED BY <1>1, <1>3, CallerHandsOff DEF Call

LEMMA EnterStep ==
  ASSUME ClientInv, NEW c \in Callers, Enter(c)
  PROVE  ClientInv'
<1>1. call[c].pc = "Lock" /\ ~Loading /\ UNCHANGED server
      /\ UNCHANGED <<env, m_bValid, m_bExit, table, thread, destroyer>>
  BY DEF Enter, Shared
<1>2. call[c] \in CallStates /\ destroyer = "Alive" /\ call[c].try \in {1, 2}
  BY <1>1, WorkingAlive DEF CallStates
<1>3. call[c].done <= IF call[c].try = 1 THEN 0 ELSE 2
  BY <1>1, WorkingAlive DEF SentAtMost
<1>4. CASE Result(c, RC_RQST_ERR, call[c])
  <2>1. call[c].done <= IF call[c].try = 1 THEN 2 ELSE 4
    BY <1>1, <1>3, WorkingAlive
  <2>2. \E r \in CallStates : CallerMoves(c, r) /\ r.pc \in {"Idle", "Notify"}
    BY <1>1, <1>2, <1>4, <2>1, ResultMoves, CodesDistinct
  <2> QED BY <1>1, <2>2, CallerHandsOff
<1>5. CASE ~Result(c, RC_RQST_ERR, call[c])
  <2>1. PICK n : /\ n \in m_vecRedisServ
                 /\ call' = [call EXCEPT ![c].pc = "Fetch", ![c].serv = n]
    BY <1>1, <1>2, <1>5, MatchedServer, WorkingAlive DEF Enter
  <2> DEFINE r == [call[c] EXCEPT !.pc = "Fetch", !.serv = n]
  <2>2. n \in Nodes
    BY <2>1 DEF ClientInv, TypeOK
  <2>3. r \in CallStates /\ call' = [call EXCEPT ![c] = r]
    BY <1>2, <2>1, <2>2 DEF CallStates, ClientInv, TypeOK
  <2>4. /\ r.pc = "Fetch" /\ r.serv = n /\ r.slot = call[c].slot /\ r.ret = call[c].ret
        /\ r.done = call[c].done /\ r.try = call[c].try
    BY <1>2 DEF CallStates
  <2> HIDE DEF r
  <2>5. Working(r)
    BY <1>1, <2>4, WorkingAlive DEF Working
  <2>6. r.done <= SentAtMost(r)
    BY <1>3, <2>4 DEF SentAtMost
  <2>7. CallerMoves(c, r)
    BY <1>1, <1>2, <2>1, <2>3, <2>4, <2>5, <2>6 DEF CallerMoves, thread
  <2> QED BY <1>1, <2>3, <2>4, <2>7, CallerHandsOff
<1> QED BY <1>4, <1>5

LEMMA FetchStep ==
  ASSUME ClientInv, NEW c \in Callers, FetchConnection(c)
  PROVE  ClientInv'
<1>0. PICK m \in Nodes : m = call[c].serv /\ m \in m_vecRedisServ
  BY DEF FetchConnection, ClientInv, ServersOutliveRequests, Requesting, TypeOK
<1>1. /\ call[c].pc = "Fetch" /\ server[m].m_queIdleConn # <<>>
      /\ call' = [call EXCEPT ![c].pc = "Request",
                              ![c].conn = Head(server[m].m_queIdleConn)]
      /\ server' = [server EXCEPT ![m].m_queIdleConn = Tail(server[m].m_queIdleConn)]
      /\ UNCHANGED <<env, m_bValid, m_bExit, table, thread, destroyer>>
  BY <1>0 DEF FetchConnection
<1>2. /\ Head(server[m].m_queIdleConn) \in Conn
      /\ Tail(server[m].m_queIdleConn) \in Seq(Conn)
      /\ Len(Tail(server[m].m_queIdleConn)) = Len(server[m].m_queIdleConn) - 1
  BY <1>1, QueueLength, HeadTailProperties DEF ClientInv
<1> DEFINE r == [call[c] EXCEPT !.pc = "Request", !.conn = Head(server[m].m_queIdleConn)]
<1>3. /\ r \in CallStates /\ call' = [call EXCEPT ![c] = r] /\ r.pc = "Request"
      /\ r.serv = m /\ r.slot = call[c].slot /\ r.ret = call[c].ret
      /\ r.done = call[c].done /\ r.try = call[c].try
  <2>1. call[c] \in CallStates /\ call \in [Callers -> CallStates]
    BY DEF ClientInv, TypeOK
  <2>2. call' = [call EXCEPT ![c] = r]
    BY <1>1, <2>1
  <2>3. /\ r \in CallStates /\ r.pc = "Request"
        /\ r.serv = call[c].serv /\ r.slot = call[c].slot /\ r.ret = call[c].ret
        /\ r.done = call[c].done /\ r.try = call[c].try
    BY <1>2, <2>1 DEF CallStates
  <2> QED BY <1>0, <2>2, <2>3
<1> HIDE DEF r
<1>4. Working(r)
  BY <1>1, <1>3, WorkingAlive DEF Working
<1>5. r.done <= SentAtMost(r)
  BY <1>1, <1>3, WorkingAlive DEF SentAtMost
<1>6. CallerMoves(c, r)
  BY <1>0, <1>1, <1>3, <1>4, <1>5, WorkingAlive
     DEF CallerMoves, thread, ClientInv, ServersOutliveRequests, Requesting
<1>7. /\ server' \in [Nodes -> ServerStates]
      /\ Len(server'[m].m_queIdleConn) = Len(server[m].m_queIdleConn) - 1
      /\ \A n \in Nodes : n # m => server'[n] = server[n]
  BY <1>1, <1>2 DEF ClientInv, TypeOK, ServerStates
<1>8. Holding(r, m) /\ \A n : ~Holding(call[c], n) /\ (n # m => ~Holding(r, n))
  BY <1>1, <1>3 DEF Holding
<1>9. Cardinality(Holders(m)') = Cardinality(Holders(m)) + 1
  BY <1>3, <1>8, HoldersChange DEF ClientInv
<1>10. \A n : n # m => Holders(n)' = Holders(n)
  BY <1>3, <1>8, HoldersChange DEF ClientInv
<1>11. Pool(m)' = Pool(m)
  <2>1. /\ Len(server[m].m_queIdleConn) \in Nat /\ Cardinality(Holders(m)) \in Nat
    BY QueueLength, HoldersFinite DEF ClientInv
  <2>2. \A l, h \in Nat : (l - 1) + (h + 1) = l + h
    OBVIOUS
  <2> QED BY <1>7, <1>9, <2>1, <2>2 DEF Pool
<1>12. \A n \in m_vecRedisServ : Pool(n)' = Pool(n)
  BY <1>7, <1>10, <1>11 DEF Pool, ClientInv, TypeOK
<1> QED BY <1>3, <1>6, <1>7, <1>12, CallerKeeps

LEMMA NoConnectionStep ==
  ASSUME ClientInv, NEW c \in Callers, NoConnection(c)
  PROVE  ClientInv'
<1>1. /\ call[c].pc = "Fetch" /\ Result(c, RC_NO_RESOURCE, call[c]) /\ UNCHANGED server
      /\ UNCHANGED <<env, m_bValid, m_bExit, table, thread, destroyer>>
  BY DEF NoConnection
<1>2. call[c] \in CallStates /\ call[c].try \in {1, 2} /\ call[c].done \in Nat
  BY <1>1, WorkingAlive DEF CallStates
<1>3. call[c].done <= 2 /\ call[c].done <= IF call[c].try = 1 THEN 2 ELSE 4
  BY <1>1, <1>2, WorkingAlive DEF SentAtMost
<1>4. \E r \in CallStates : CallerMoves(c, r) /\ r.pc \in {"Idle", "Notify"}
  BY <1>1, <1>2, <1>3, ResultMoves, CodesDistinct
<1> QED BY <1>1, <1>4, CallerHandsOff

\* A request has been made, or could not be made: the connection goes back.
LEMMA RequestEnds ==
  ASSUME ClientInv, NEW c \in Callers, call[c].pc \in {"Request", "Resend"},
         NEW conn \in Conn, ReturnConnection(call[c].serv, conn),
         NEW record \in CallStates, NEW ret \in {RC_SUCCESS, RC_RQST_ERR},
         Result(c, ret, record),
         record.slot = call[c].slot, record.ret = call[c].ret, record.try = call[c].try,
         record.done \in {call[c].done, call[c].done + 1},
         UNCHANGED <<env, m_bValid, m_bExit, table, thread, destroyer>>
  PROVE  ClientInv'
<1>1. call[c].done \in Nat /\ call[c].try \in {1, 2}
  BY WorkingAlive DEF CallStates
<1>2. call[c].done <= IF call[c].try = 1 THEN 1 ELSE 3
  BY <1>1, WorkingAlive DEF SentAtMost
<1>3. record.done <= IF record.try = 1 THEN 2 ELSE 4
  BY <1>1, <1>2
<1>4. PICK r \in CallStates : CallerMoves(c, r) /\ r.pc \in {"Idle", "Notify"}
  BY <1>3, ResultMoves, CodesDistinct
<1> QED BY <1>4, CallerReturns

LEMMA ConnRequestStep ==
  ASSUME ClientInv, NEW c \in Callers, ConnRequest(c)
  PROVE  ClientInv'
<1>0. PICK m \in Nodes : m = call[c].serv /\ m \in m_vecRedisServ
  BY DEF ConnRequest, ClientInv, ServersOutliveRequests, Requesting, TypeOK
<1>1. PICK conn \in Conn : conn = Ready(m, call[c].conn)
  BY <1>0, ReadyType DEF ClientInv, TypeOK, CallStates
<1>2. /\ call[c].pc = "Request"
      /\ UNCHANGED <<env, m_bValid, m_bExit, table, thread, destroyer>>
      /\ \/ ReturnConnection(m, conn) /\ Result(c, RC_RQST_ERR, call[c])
         \/ \E out \in Sent(m, conn) :
              \/ /\ ReturnConnection(m, [out.conn EXCEPT !.fresh = server[m].m_nSerTimeout > 0])
                 /\ Result(c, Reply(c), Done(c, out))
              \/ ReturnConnection(m, out.conn) /\ Result(c, RC_RQST_ERR, Done(c, out))
              \/ /\ call' = [call EXCEPT ![c] = [Done(c, out) EXCEPT !.pc = "Resend",
                                                                     !.conn = out.conn]]
                 /\ UNCHANGED server
  BY <1>0, <1>1 DEF ConnRequest
<1>3. call[c] \in CallStates /\ call[c].done \in Nat /\ call[c].try \in {1, 2}
  BY <1>2, WorkingAlive DEF CallStates
<1>4. CASE ReturnConnection(m, conn) /\ Result(c, RC_RQST_ERR, call[c])
  BY <1>0, <1>2, <1>3, <1>4, RequestEnds
<1>5. ASSUME NEW out \in Sent(m, conn),
             ReturnConnection(m, [out.conn EXCEPT !.fresh = server[m].m_nSerTimeout > 0]),
             Result(c, Reply(c), Done(c, out))
      PROVE  ClientInv'
  <2>1. (server[m].m_nSerTimeout > 0) \in BOOLEAN
    BY Positive DEF ClientInv, TypeOK, ServerStates
  <2>2. [out.conn EXCEPT !.fresh = server[m].m_nSerTimeout > 0] \in Conn
    BY <2>1, SentType, ConnTypes
  <2>3. Reply(c) = RC_SUCCESS
    BY DEF Reply
  <2> QED BY <1>0, <1>2, <1>5, <2>2, <2>3, DoneIs, RequestEnds DEF ClientInv
<1>6. ASSUME NEW out \in Sent(m, conn), ReturnConnection(m, out.conn),
             Result(c, RC_RQST_ERR, Done(c, out))
      PROVE  ClientInv'
  BY <1>0, <1>2, <1>6, SentType, DoneIs, RequestEnds DEF ClientInv
<1>7. ASSUME NEW out \in Sent(m, conn), UNCHANGED server,
             call' = [call EXCEPT ![c] = [Done(c, out) EXCEPT !.pc = "Resend",
                                                             !.conn = out.conn]]
      PROVE  ClientInv'
  <2> DEFINE r == [Done(c, out) EXCEPT !.pc = "Resend", !.conn = out.conn]
  <2>1. /\ r \in CallStates /\ call' = [call EXCEPT ![c] = r] /\ r.pc = "Resend"
        /\ r.serv = m /\ r.slot = call[c].slot /\ r.ret = call[c].ret
        /\ r.done \in {call[c].done, call[c].done + 1} /\ r.try = call[c].try
    BY <1>0, <1>7, SentType, DoneIs, ZenonT(60) DEF CallStates, ClientInv
  <2> HIDE DEF r
  <2>2. Working(r)
    BY <1>2, <2>1, WorkingAlive DEF Working
  <2>0. call[c].done <= IF call[c].try = 1 THEN 0 ELSE 2
    BY <1>2, WorkingAlive DEF SentAtMost
  <2>3. r.done <= SentAtMost(r)
    BY <1>3, <2>0, <2>1 DEF SentAtMost
  <2>4. CallerMoves(c, r)
    BY <1>0, <1>2, <2>1, <2>2, <2>3, WorkingAlive
       DEF CallerMoves, thread, ClientInv, ServersOutliveRequests, Requesting
  <2>5. \A n : Holding(r, n) <=> Holding(call[c], n)
    BY <1>0, <1>2, <2>1 DEF Holding
  <2>6. \A n : Holders(n)' = Holders(n)
    BY <2>1, <2>5, HoldersChange, ZenonT(60) DEF ClientInv
  <2>7. \A n \in m_vecRedisServ : Pool(n)' = Pool(n)
    BY <1>7, <2>6 DEF Pool
  <2>8. server' \in [Nodes -> ServerStates]
    BY <1>7 DEF ClientInv, TypeOK
  <2> QED BY <2>1, <2>4, <2>7, <2>8, CallerKeeps
<1> QED BY <1>2, <1>4, <1>5, <1>6, <1>7

LEMMA ResendStep ==
  ASSUME ClientInv, NEW c \in Callers, Resend(c)
  PROVE  ClientInv'
<1>0. PICK m \in Nodes : m = call[c].serv /\ m \in m_vecRedisServ
  BY DEF Resend, ClientInv, ServersOutliveRequests, Requesting, TypeOK
<1>1. PICK conn \in Conn : conn = Reconnect(m, call[c].conn)
  BY <1>0, ReadyType DEF ClientInv, TypeOK, CallStates
<1>2. /\ call[c].pc = "Resend"
      /\ UNCHANGED <<env, m_bValid, m_bExit, table, thread, destroyer>>
      /\ \/ ReturnConnection(m, conn) /\ Result(c, RC_RQST_ERR, call[c])
         \/ \E out \in Sent(m, conn) :
              /\ ReturnConnection(m, out.conn)
              /\ Result(c, IF out.answered THEN Reply(c) ELSE RC_RQST_ERR, Done(c, out))
  BY <1>0, <1>1 DEF Resend
<1>3. call[c] \in CallStates /\ call[c].done \in Nat /\ call[c].try \in {1, 2}
  BY <1>2, WorkingAlive DEF CallStates
<1>r. ASSUME NEW back \in Conn, ReturnConnection(m, back), NEW record \in CallStates,
             NEW ret \in {RC_SUCCESS, RC_RQST_ERR}, Result(c, ret, record),
             record.slot = call[c].slot, record.ret = call[c].ret,
             record.try = call[c].try, record.done \in {call[c].done, call[c].done + 1}
      PROVE  ClientInv'
  BY <1>0, <1>2, <1>r, RequestEnds
<1>4. CASE ReturnConnection(m, conn) /\ Result(c, RC_RQST_ERR, call[c])
  BY <1>3, <1>4, <1>r
<1>5. ASSUME NEW out \in Sent(m, conn), ReturnConnection(m, out.conn),
             Result(c, IF out.answered THEN Reply(c) ELSE RC_RQST_ERR, Done(c, out))
      PROVE  ClientInv'
  BY <1>5, <1>r, SentType, DoneIs DEF ClientInv, Reply
<1> QED BY <1>2, <1>4, <1>5

LEMMA NotifyStep ==
  ASSUME ClientInv, NEW c \in Callers, Notify(c)
  PROVE  ClientInv'
<1> DEFINE r == [call[c] EXCEPT !.pc = "Poll"]
<1>1. /\ call[c].pc = "Notify"
      /\ UNCHANGED <<env, m_bValid, m_bExit, table, server, asked, regions, destroyer>>
  BY DEF Notify
<1>2. refresh' = refresh \/ (refresh = "Wait" /\ refresh' = "Woken")
  BY DEF Notify, NotifyAll
<1>3. /\ r \in CallStates /\ call' = [call EXCEPT ![c] = r] /\ r.pc = "Poll"
      /\ r.slot = call[c].slot /\ r.ret = call[c].ret
      /\ r.done = call[c].done /\ r.try = call[c].try
  BY <1>1, WorkingAlive DEF Notify, Step, CallStates, ClientInv, TypeOK
<1> HIDE DEF r
<1>4. Working(r)
  BY <1>1, <1>3, WorkingAlive DEF Working
<1>5. r.done <= SentAtMost(r)
  BY <1>1, <1>3, WorkingAlive DEF SentAtMost
<1>6. CallerMoves(c, r)
  BY <1>1, <1>2, <1>3, <1>4, <1>5, WorkingAlive DEF CallerMoves
<1> QED BY <1>1, <1>3, <1>6, CallerHandsOff

LEMMA PollStep ==
  ASSUME ClientInv, NEW c \in Callers, Poll(c)
  PROVE  ClientInv'
<1>1. /\ call[c].pc = "Poll" /\ UNCHANGED server
      /\ UNCHANGED <<env, m_bValid, m_bExit, table, thread, destroyer>>
  BY DEF Poll
<1>2. /\ call[c] \in CallStates /\ call[c].done \in Nat /\ call[c].done <= 2
      /\ call[c].slot \in Slots /\ call[c].ret = RC_SUCCESS
  BY <1>1, WorkingAlive DEF SentAtMost
<1>3. PICK r \in CallStates :
        /\ call' = [call EXCEPT ![c] = r] /\ r.done = call[c].done
        /\ \/ /\ r.pc = "Lock" /\ r.try = 2
              /\ r.slot = call[c].slot /\ r.ret = call[c].ret
           \/ r.pc = "Idle" /\ r.ret = RC_RQST_ERR
  <2>1. CASE call' = [call EXCEPT ![c].pc = "Lock", ![c].try = 2]
    <3>1. [call[c] EXCEPT !.pc = "Lock", !.try = 2] \in CallStates
      BY <1>2 DEF CallStates
    <3>2. call' = [call EXCEPT ![c] = [call[c] EXCEPT !.pc = "Lock", !.try = 2]]
      BY <2>1, <1>2 DEF ClientInv, TypeOK
    <3> QED BY <1>2, <3>1, <3>2 DEF CallStates
  <2>2. CASE call' = [call EXCEPT ![c] = [IdleCall EXCEPT
                        !.done = call[c].done, !.ret = RC_RQST_ERR]]
    <3>1. [IdleCall EXCEPT !.done = call[c].done, !.ret = RC_RQST_ERR] \in CallStates
      BY <1>2, ConnTypes, CodesDistinct DEF IdleCall, CallStates
    <3> QED BY <2>2, <3>1 DEF IdleCall
  <2> QED BY <2>1, <2>2 DEF Poll
<1>4. Working(r)
  BY <1>2, <1>3 DEF Working
<1>5. r.done <= SentAtMost(r)
  <2>1. CASE r.pc = "Lock"
    BY <1>2, <1>3, <2>1 DEF SentAtMost
  <2>2. CASE r.pc = "Idle"
    BY <1>2, <1>3, <2>2, CodesDistinct DEF SentAtMost
  <2> QED BY <1>3, <2>1, <2>2
<1>6. CallerMoves(c, r)
  BY <1>1, <1>3, <1>4, <1>5, WorkingAlive DEF CallerMoves, thread
<1> QED BY <1>1, <1>3, <1>6, CallerHandsOff

LEMMA CallersStep ==
  ASSUME ClientInv, NEW c \in Callers, Caller(c) \/ \E s \in Slots : Call(c, s)
  PROVE  ClientInv'
BY CallStep, EnterStep, FetchStep, NoConnectionStep, ConnRequestStep, ResendStep,
   NotifyStep, PollStep DEF Caller

-----------------------------------------------------------------------------
(* The refresh thread and the destructor.                                    *)

\* A step that leaves the callers alone keeps the invariant if it begins to
\* load only when no caller is inside, and replaces servers only while loading.
LEMMA OthersKeep ==
  ASSUME ClientInv, UNCHANGED call, TypeOK', OneServer', PoolsKept',
         Exclusive \/ (UNCHANGED table /\ ~Loading'),
         destroyer' = destroyer \/ destroyer # "Alive" \/ \A c \in Callers : call[c].pc = "Idle"
  PROVE  ClientInv'
<1>1. CallsInOrder' /\ DestroyedIdle'
  BY DEF ClientInv, CallsInOrder, DestroyedIdle, Working, SentAtMost
<1>2. ServersOutliveRequests'
  <2>1. CASE Exclusive
    BY <2>1 DEF Exclusive, Requesting, ServersOutliveRequests
  <2>2. CASE UNCHANGED table /\ ~Loading'
    BY <2>2 DEF ClientInv, ServersOutliveRequests, Requesting, table
  <2> QED BY <2>1, <2>2
<1> QED BY <1>1, <1>2 DEF ClientInv

\* The servers as they are.
LEMMA PoolsStay ==
  ASSUME ClientInv, UNCHANGED <<call, server, table>>, m_bValid' = m_bValid \/ ~m_bValid'
  PROVE  PoolsKept'
<1>1. \A n : Holders(n)' = Holders(n)
  BY DEF Holders
<1>2. \A n \in m_vecRedisServ : Pool(n)' = Pool(n) /\ Pool(n) \in Nat
  BY <1>1, QueueLength DEF Pool, ClientInv, TypeOK
<1>3. \A n \in m_vecRedisServ : Pool(n) \in (IF m_bValid THEN 1 ELSE 0) .. m_nConnNum
  BY DEF Pool, ClientInv, PoolsKept
<1>4. \A n \in m_vecRedisServ : Pool(n)' \in (IF m_bValid' THEN 1 ELSE 0) .. m_nConnNum
  BY <1>2, <1>3, ClientAssumption DEF ClientInv, TypeOK
<1>5. m_vecRedisServ' = m_vecRedisServ /\ m_vecSlot' = m_vecSlot
  BY DEF table
<1> QED BY <1>4, <1>5 DEF Pool, PoolsKept, ClientInv

\* A step that moves only the refresh thread, the destructor or the nodes.
LEMMA QuietStep ==
  ASSUME ClientInv, UNCHANGED <<call, server, table>>, TypeOK',
         m_bValid' = m_bValid \/ ~m_bValid',
         Exclusive \/ ~Loading',
         destroyer' = destroyer \/ destroyer \notin {"Alive", "Gone"}
           \/ (destroyer # "Gone" /\ \A c \in Callers : call[c].pc = "Idle")
  PROVE  ClientInv'
<1>1. PoolsKept'
  BY PoolsStay
<1>2. OneServer'
  BY DEF ClientInv, OneServer, table
<1> QED BY <1>1, <1>2, OthersKeep

\* Nobody holds a connection while the refresh thread loads.
LEMMA LoadingAlone ==
  ASSUME ClientInv, Loading
  PROVE  Exclusive /\ \A n : Holders(n) = {}
BY DEF ClientInv, ServersOutliveRequests, Exclusive, Requesting, Holders

LEMMA GoTypes ==
  ASSUME NEW pc, Go(pc)
  PROVE  refresh' = pc /\ asked' = {} /\ regions' \in [Slots -> Nodes \cup {None}]
BY DEF Go

LEMMA RefreshMovesStep ==
  ASSUME ClientInv,
         RefreshTest \/ RefreshLock \/ RefreshWoken \/ RefreshSleep \/ SpuriousWakeup
  PROVE  ClientInv'
<1>1. UNCHANGED <<call, server, table>> /\ UNCHANGED <<env, m_bValid, m_bExit, destroyer>>
  BY DEF RefreshTest, RefreshLock, RefreshWoken, RefreshSleep, SpuriousWakeup
<1>2. ASSUME NEW pc \in {"Test", "Lock", "Wait", "Woken", "End"}, Go(pc)
      PROVE  ClientInv'
  <2>1. TypeOK'
    BY <1>1, <1>2, GoTypes DEF ClientInv, TypeOK, env, table
  <2>2. ~Loading'
    BY <1>2, GoTypes DEF Loading
  <2> QED BY <1>1, <2>1, <2>2, QuietStep
<1>3. ASSUME Reload, Exclusive
      PROVE  ClientInv'
  <2>1. TypeOK'
    BY <1>1, <1>3 DEF ClientInv, TypeOK, env, table, Reload
  <2> QED BY <1>1, <1>3, <2>1, QuietStep
<1>4. CASE RefreshTest
  BY <1>2, <1>4 DEF RefreshTest
<1>5. CASE RefreshLock
  BY <1>2, <1>3, <1>5 DEF RefreshLock
<1>6. CASE RefreshWoken
  BY <1>3, <1>6 DEF RefreshWoken
<1>7. CASE RefreshSleep
  BY <1>2, <1>7 DEF RefreshSleep
<1>8. CASE SpuriousWakeup
  BY <1>2, <1>8 DEF SpuriousWakeup
<1> QED BY <1>4, <1>5, <1>6, <1>7, <1>8

\* The client gives up a reload with the servers it has.
LEMMA GivesUp ==
  ASSUME ClientInv, Loading, Finish(FALSE),
         UNCHANGED <<env, m_bExit, call, destroyer, server, table>>
  PROVE  ClientInv'
<1>1. m_bValid' = FALSE /\ Go("Sleep")
  BY DEF Finish
<1>2. TypeOK'
  BY <1>1, GoTypes DEF ClientInv, TypeOK, env, table
<1> QED BY <1>1, <1>2, LoadingAlone, QuietStep DEF table

LEMMA RefreshAskStep ==
  ASSUME ClientInv, RefreshAsk
  PROVE  ClientInv'
<1>1. refresh = "Ask" /\ Loading /\ UNCHANGED <<env, m_bExit, table, call, destroyer>>
  BY DEF RefreshAsk, Loading
<1>2. CASE Finish(FALSE) /\ UNCHANGED server
  BY <1>1, <1>2, GivesUp
<1>3. ASSUME NEW n \in m_vecRedisServ \ asked, NEW back \in Conn,
             server[n].m_queIdleConn # <<>>,
             server' = [server EXCEPT ![n].m_queIdleConn =
                          Append(Tail(server[n].m_queIdleConn), back)],
             UNCHANGED m_bValid,
             refresh' \in {"Ask", "Build"}, asked' \subseteq asked \cup {n},
             regions' \in [Slots -> Nodes \cup {None}]
      PROVE  ClientInv'
  <2>0. n \in Nodes
    BY DEF ClientInv, TypeOK
  <2>1. /\ Tail(server[n].m_queIdleConn) \in Seq(Conn)
        /\ Len(Tail(server[n].m_queIdleConn)) = Len(server[n].m_queIdleConn) - 1
        /\ Len(server[n].m_queIdleConn) \in Nat
    BY <1>3, <2>0, QueueLength, HeadTailProperties DEF ClientInv
  <2>2. PICK q : q = Append(Tail(server[n].m_queIdleConn), back)
    OBVIOUS
  <2>3. q \in Seq(Conn) /\ Len(q) = Len(server[n].m_queIdleConn)
    BY <2>1, <2>2, AppendProperties
  <2>4. /\ server' \in [Nodes -> ServerStates]
        /\ \A m \in Nodes : Len(server'[m].m_queIdleConn) = Len(server[m].m_queIdleConn)
    BY <1>3, <2>0, <2>2, <2>3 DEF ClientInv, TypeOK, ServerStates
  <2>5. TypeOK'
    BY <1>1, <1>3, <2>0, <2>4 DEF ClientInv, TypeOK, env, table
  <2>6. PoolsKept'
    BY <1>1, <1>3, <2>4 DEF ClientInv, TypeOK, PoolsKept, Holders, table
  <2>7. OneServer'
    BY <1>1 DEF ClientInv, OneServer, table
  <2> QED BY <1>1, <2>5, <2>6, <2>7, LoadingAlone, OthersKeep
<1>4. ASSUME NEW n \in m_vecRedisServ \ asked, server[n].m_queIdleConn # <<>>
      PROVE  /\ n \in Nodes
             /\ Ready(n, Head(server[n].m_queIdleConn)) \in Conn
  <2>1. n \in Nodes
    BY DEF ClientInv, TypeOK
  <2>2. Head(server[n].m_queIdleConn) \in Conn
    BY <1>4, <2>1, QueueLength, HeadTailProperties DEF ClientInv
  <2> QED BY <2>1, <2>2, ReadyType DEF ClientInv
<1>5. ASSUME NEW n \in m_vecRedisServ \ asked, NEW q, q = server[n].m_queIdleConn, q # <<>>,
             NEW conn, conn = Ready(n, Head(q)),
             \/ /\ server' = [server EXCEPT ![n].m_queIdleConn = Append(Tail(q), conn)]
                /\ asked' = asked \cup {n}
                /\ UNCHANGED <<m_bValid, refresh, regions>>
             \/ /\ \E out \in Sent(n, conn) :
                     /\ server' = [server EXCEPT ![n].m_queIdleConn =
                                     Append(Tail(q), out.conn)]
                     /\ \/ regions' = owner /\ refresh' = "Build" /\ asked' = {}
                        \/ asked' = asked \cup {n} /\ UNCHANGED <<refresh, regions>>
                /\ UNCHANGED m_bValid
      PROVE  ClientInv'
  <2>1. conn \in Conn
    BY <1>4, <1>5
  <2>2. CASE /\ server' = [server EXCEPT ![n].m_queIdleConn = Append(Tail(q), conn)]
             /\ asked' = asked \cup {n}
             /\ UNCHANGED <<m_bValid, refresh, regions>>
    <3>1. regions' \in [Slots -> Nodes \cup {None}]
      BY <2>2 DEF ClientInv, TypeOK
    <3>2. refresh' \in {"Ask", "Build"}
      BY <1>1, <2>2
    <3> QED BY <1>3, <1>5, <2>1, <2>2, <3>1, <3>2
  <2>3. ASSUME NEW out \in Sent(n, conn), UNCHANGED m_bValid,
               server' = [server EXCEPT ![n].m_queIdleConn = Append(Tail(q), out.conn)],
               \/ regions' = owner /\ refresh' = "Build" /\ asked' = {}
               \/ asked' = asked \cup {n} /\ UNCHANGED <<refresh, regions>>
        PROVE  ClientInv'
    <3>1. out.conn \in Conn
      BY <2>1, SentType
    <3>2. /\ refresh' \in {"Ask", "Build"} /\ asked' \subseteq asked \cup {n}
          /\ regions' \in [Slots -> Nodes \cup {None}]
      BY <1>1, <2>3 DEF ClientInv, TypeOK
    <3> QED BY <1>3, <1>5, <2>3, <3>1, <3>2
  <2> QED BY <1>5, <2>2, <2>3
<1> QED BY <1>2, <1>5 DEF RefreshAsk

\* A reload that succeeds gives every server between one and m_nConnNum
\* connections, whatever it had before.
LEMMA RefreshClusterStep ==
  ASSUME ClientInv, RefreshCluster
  PROVE  ClientInv'
<1>1. m_bCluster /\ Loading /\ UNCHANGED <<env, m_bExit, call, destroyer>>
  BY DEF RefreshCluster, Loading
<1>2. CASE Finish(FALSE) /\ UNCHANGED <<table, server>>
  BY <1>1, <1>2, GivesUp
<1>3. ASSUME NEW new \in [Served -> Pools(0)],
             server' = [n \in Nodes |-> IF n \in Served THEN new[n] ELSE Deleted],
             m_vecSlot' = regions, m_vecRedisServ' = Served, Finish(TRUE)
      PROVE  ClientInv'
  <2>1. Served \subseteq Nodes
    BY DEF Served, ClientInv, TypeOK
  <2>2. \A n \in Served : /\ new[n] \in ServerStates
                          /\ Len(new[n].m_queIdleConn) \in 1 .. m_nConnNum
    BY PoolType
  <2>3. Deleted \in ServerStates
    BY EmptySeq DEF Deleted, ServerStates
  <2>4. m_bValid' = TRUE /\ refresh' = "Test" /\ asked' = {}
        /\ regions' \in [Slots -> Nodes \cup {None}]
    BY <1>3, GoTypes DEF Finish
  <2>5. server' \in [Nodes -> ServerStates]
    BY <1>3, <2>2, <2>3
  <2>6. TypeOK'
    BY <1>1, <1>3, <2>1, <2>4, <2>5 DEF ClientInv, TypeOK, env
  <2>7. PoolsKept'
    <3>1. \A n : Holders(n)' = {}
      BY <1>1, LoadingAlone DEF Holders
    <3>2. Cardinality({}) = 0
      BY FS_EmptySet
    <3>3. \A n \in Served : Len(server'[n].m_queIdleConn) \in 1 .. m_nConnNum
      BY <1>3, <2>1, <2>2
    <3>4. \A n \in Served :
            Len(server'[n].m_queIdleConn) + Cardinality(Holders(n)') \in 1 .. m_nConnNum
      <4>1. \A n : Cardinality(Holders(n)') = 0
        BY <3>1, <3>2
      <4>2. \A k \in 1 .. m_nConnNum : k + 0 = k
        BY ClientAssumption
      <4> QED BY <3>3, <4>1, <4>2
    <3>5. \A s \in Slots : m_vecSlot'[s] \in m_vecRedisServ' \cup {None}
      BY <1>3 DEF Served
    <3> QED BY <1>3, <2>4, <3>4, <3>5 DEF PoolsKept
  <2>8. OneServer'
    BY <1>1 DEF OneServer
  <2> QED BY <1>1, <2>6, <2>7, <2>8, LoadingAlone, OthersKeep
<1> QED BY <1>2, <1>3 DEF RefreshCluster

LEMMA RefreshSingleStep ==
  ASSUME ClientInv, RefreshSingle
  PROVE  ClientInv'
<1>1. ~m_bCluster /\ Loading /\ UNCHANGED <<env, m_bExit, table, call, destroyer>>
  BY DEF RefreshSingle, Loading
<1>2. ASSUME NEW n \in m_vecRedisServ, NEW pool \in ServerStates, NEW valid \in BOOLEAN,
             server' = [server EXCEPT ![n] = pool], Finish(valid),
             Len(pool.m_queIdleConn) \in (IF valid THEN 1 ELSE 0) .. m_nConnNum
      PROVE  ClientInv'
  <2>1. m_vecRedisServ = {n} /\ n \in Nodes
    BY <1>1 DEF ClientInv, OneServer, TypeOK
  <2>2. /\ m_bValid' = valid /\ refresh' \in {"Test", "Sleep"} /\ asked' = {}
        /\ regions' \in [Slots -> Nodes \cup {None}]
    BY <1>2, GoTypes DEF Finish
  <2>3. server' \in [Nodes -> ServerStates] /\ server'[n] = pool
    BY <1>2, <2>1 DEF ClientInv, TypeOK
  <2>4. TypeOK'
    BY <1>1, <2>2, <2>3 DEF ClientInv, TypeOK, env, table
  <2>5. PoolsKept'
    <3>1. Holders(n)' = {}
      BY <1>1, LoadingAlone DEF Holders
    <3>2. Cardinality({}) = 0
      BY FS_EmptySet
    <3>3. Len(server'[n].m_queIdleConn) + Cardinality(Holders(n)')
            \in (IF valid THEN 1 ELSE 0) .. m_nConnNum
      BY <1>2, <2>3, <3>1, <3>2
    <3> QED BY <1>1, <2>1, <2>2, <3>3 DEF PoolsKept, ClientInv, table
  <2>6. OneServer'
    BY <1>1 DEF ClientInv, OneServer, table
  <2> QED BY <1>1, <2>4, <2>5, <2>6, LoadingAlone, OthersKeep
<1>3. ASSUME NEW n \in m_vecRedisServ, NEW pool \in Pools(server[n].m_nSerTimeout),
             server' = [server EXCEPT ![n] = pool], Finish(TRUE)
      PROVE  ClientInv'
  <2>1. server[n].m_nSerTimeout \in Nat
    BY DEF ClientInv, TypeOK, ServerStates
  <2> QED BY <1>2, <1>3, <2>1, PoolType
<1>4. ASSUME NEW n \in m_vecRedisServ,
             server' = [server EXCEPT ![n].m_queIdleConn = <<>>], Finish(FALSE)
      PROVE  ClientInv'
  <2>1. n \in Nodes /\ server[n] \in ServerStates
    BY DEF ClientInv, TypeOK
  <2>2. <<>> \in Seq(Conn) /\ Len(<<>>) = 0
    BY EmptySeq
  <2>3. PICK pool \in ServerStates :
          pool = [server[n] EXCEPT !.m_queIdleConn = <<>>] /\ pool.m_queIdleConn = <<>>
    <3>1. ASSUME NEW q \in Seq(Conn)
          PROVE  /\ [server[n] EXCEPT !.m_queIdleConn = q] \in ServerStates
                 /\ [server[n] EXCEPT !.m_queIdleConn = q].m_queIdleConn = q
      BY <2>1 DEF ServerStates
    <3> QED BY <2>2, <3>1
  <2>4. server' = [server EXCEPT ![n] = pool]
    BY <1>4, <2>1, <2>3 DEF ClientInv, TypeOK
  <2>5. Len(pool.m_queIdleConn) \in 0 .. m_nConnNum
    BY <2>2, <2>3, ClientAssumption
  <2> QED BY <1>2, <1>4, <2>4, <2>5
<1> QED BY <1>3, <1>4 DEF RefreshSingle

LEMMA RefreshStep ==
  ASSUME ClientInv, Refresh
  PROVE  ClientInv'
BY RefreshMovesStep, RefreshAskStep, RefreshClusterStep, RefreshSingleStep DEF Refresh

LEMMA DestroyStep ==
  ASSUME ClientInv, DestroyBegins \/ Destroy
  PROVE  ClientInv'
<1>1. CASE DestroyBegins
  <2>1. TypeOK' /\ UNCHANGED <<call, server, table>> /\ m_bValid' = FALSE
    BY <1>1 DEF DestroyBegins, ClientInv, TypeOK, env, table, thread
  <2>2. Exclusive /\ destroyer # "Gone" /\ \A c \in Callers : call[c].pc = "Idle"
    BY <1>1 DEF DestroyBegins, Exclusive, Requesting
  <2> QED BY <2>1, <2>2, QuietStep
<1>2. CASE DestroyExits
  <2>1. /\ TypeOK' /\ UNCHANGED <<call, server, table>> /\ m_bValid' = m_bValid
        /\ destroyer = "Exit"
    BY <1>2 DEF DestroyExits, ClientInv, TypeOK, env, table, thread
  <2>2. Exclusive
    BY <2>1 DEF ClientInv, DestroyedIdle, Exclusive, Requesting
  <2> QED BY <2>1, <2>2, QuietStep
<1>3. CASE DestroyNotifies
  <2>1. /\ UNCHANGED <<call, server, table>> /\ m_bValid' = m_bValid
        /\ destroyer = "Notify" /\ Exclusive
    BY <1>3 DEF DestroyNotifies
  <2>2. TypeOK'
    BY <1>3 DEF DestroyNotifies, NotifyAll, ClientInv, TypeOK, env, table
  <2> QED BY <2>1, <2>2, QuietStep
<1>4. CASE DestroyEnds
  <2>1. /\ destroyer = "Join" /\ destroyer' = "Gone" /\ m_vecRedisServ' = {}
        /\ m_vecSlot' = [s \in Slots |-> None] /\ UNCHANGED call
    BY <1>4 DEF DestroyEnds
  <2>2. TypeOK'
    BY <1>4 DEF DestroyEnds, ClientInv, TypeOK, env, thread
  <2>3. PoolsKept' /\ OneServer'
    BY <2>1 DEF PoolsKept, OneServer
  <2>4. Exclusive
    BY <2>1 DEF ClientInv, DestroyedIdle, Exclusive, Requesting
  <2> QED BY <2>1, <2>2, <2>3, <2>4, OthersKeep
<1> QED BY <1>1, <1>2, <1>3, <1>4 DEF Destroy

-----------------------------------------------------------------------------
(* Redis and the clock.                                                      *)

\* A step that changes connections, but not how many there are.
LEMMA SameNumber ==
  ASSUME ClientInv,
         server' \in [Nodes -> ServerStates],
         \A n \in Nodes : Len(server'[n].m_queIdleConn) = Len(server[n].m_queIdleConn),
         call' \in [Callers -> CallStates],
         \A c \in Callers : /\ call'[c].pc = call[c].pc /\ call'[c].serv = call[c].serv
                            /\ call'[c].slot = call[c].slot /\ call'[c].try = call[c].try
                            /\ call'[c].done = call[c].done /\ call'[c].ret = call[c].ret,
         up' \subseteq Nodes,
         UNCHANGED <<owner, quiet, m_bValid, m_bExit, table, thread, destroyer>>
  PROVE  ClientInv'
<1>1. TypeOK'
  BY DEF ClientInv, TypeOK, table, thread
<1>2. CallsInOrder'
  BY DEF ClientInv, CallsInOrder, Working, SentAtMost
<1>3. DestroyedIdle' /\ OneServer'
  BY DEF ClientInv, DestroyedIdle, OneServer, table
<1>4. ServersOutliveRequests'
  BY DEF ClientInv, ServersOutliveRequests, Requesting, Loading, table, thread
<1>5. PoolsKept'
  <2>1. \A n : Holders(n)' = Holders(n)
    BY DEF Holders
  <2> QED BY <2>1 DEF ClientInv, TypeOK, PoolsKept, table
<1> QED BY <1>1, <1>2, <1>3, <1>4, <1>5 DEF ClientInv

\* A map over a queue is a queue of the same length.
LEMMA MapQueue ==
  ASSUME NEW q \in Seq(Conn), NEW p, DOMAIN p = 1 .. Len(q), p = [i \in 1 .. Len(q) |-> p[i]],
         \A i \in 1 .. Len(q) : p[i] \in Conn
  PROVE  p \in Seq(Conn) /\ Len(p) = Len(q)
<1>1. Len(q) \in Nat
  BY LenProperties
<1> QED BY <1>1

LEMMA NodeStopsStep ==
  ASSUME ClientInv, NEW n \in Nodes, NodeStops(n)
  PROVE  ClientInv'
<1>1. PICK q \in Seq(Conn) : q = server[n].m_queIdleConn
  BY QueueLength DEF ClientInv
<1>2. \A i \in 1 .. Len(q) : Broken(q[i]) \in Conn
  BY ElementOfSeq, ConnTypes
<1>3. PICK p : p = [i \in 1 .. Len(q) |-> Broken(q[i])]
  OBVIOUS
<1>4. p \in Seq(Conn) /\ Len(p) = Len(q)
  BY <1>2, <1>3, MapQueue
<1>5. server' = [server EXCEPT ![n].m_queIdleConn = p]
  BY <1>1, <1>3 DEF NodeStops
<1>6. /\ server' \in [Nodes -> ServerStates]
      /\ \A m \in Nodes : Len(server'[m].m_queIdleConn) = Len(server[m].m_queIdleConn)
  BY <1>1, <1>4, <1>5 DEF ClientInv, TypeOK, ServerStates
<1>7. /\ call' \in [Callers -> CallStates]
      /\ \A c \in Callers : /\ call'[c].pc = call[c].pc /\ call'[c].serv = call[c].serv
                            /\ call'[c].slot = call[c].slot /\ call'[c].try = call[c].try
                            /\ call'[c].done = call[c].done /\ call'[c].ret = call[c].ret
  <2>1. call' = [c \in Callers |-> IF call[c].serv = n
                   THEN [call[c] EXCEPT !.conn = Broken(call[c].conn)] ELSE call[c]]
    BY DEF NodeStops
  <2>2. \A c \in Callers : call[c] \in CallStates /\ Broken(call[c].conn) \in Conn
    BY ConnTypes DEF ClientInv, TypeOK, CallStates
  <2> QED BY <2>1, <2>2 DEF CallStates
<1> QED BY <1>6, <1>7, SameNumber DEF NodeStops, ClientInv, TypeOK

LEMMA TimePassesStep ==
  ASSUME ClientInv, TimePasses
  PROVE  ClientInv'
<1>1. ASSUME NEW n \in Nodes
      PROVE  /\ server'[n] \in ServerStates
             /\ Len(server'[n].m_queIdleConn) = Len(server[n].m_queIdleConn)
  <2>1. PICK q \in Seq(Conn) : q = server[n].m_queIdleConn
    BY QueueLength DEF ClientInv
  <2>2. \A i \in 1 .. Len(q) : [q[i] EXCEPT !.fresh = FALSE] \in Conn
    BY ElementOfSeq, ConnTypes
  <2>3. PICK p : p = [i \in 1 .. Len(q) |-> [q[i] EXCEPT !.fresh = FALSE]]
    OBVIOUS
  <2>4. p \in Seq(Conn) /\ Len(p) = Len(q)
    BY <2>2, <2>3, MapQueue
  <2>5. server'[n] = [server[n] EXCEPT !.m_queIdleConn = p]
    BY <2>1, <2>3 DEF TimePasses
  <2> QED BY <2>1, <2>4, <2>5 DEF ClientInv, TypeOK, ServerStates
<1>2. server' \in [Nodes -> ServerStates]
  <2>1. server' = [n \in Nodes |-> server'[n]]
    BY DEF TimePasses
  <2> QED BY <1>1, <2>1
<1> QED BY <1>1, <1>2, SameNumber DEF TimePasses, ClientInv, TypeOK, env

LEMMA EnvironmentStep ==
  ASSUME ClientInv, Environment
  PROVE  ClientInv'
<1>1. ASSUME NEW n \in Nodes, NodeStarts(n)
      PROVE  ClientInv'
  BY <1>1, SameNumber DEF NodeStarts, ClientInv, TypeOK
<1>2. ASSUME TypeOK', UNCHANGED <<call, server, table, m_bValid, thread, destroyer>>
      PROVE  ClientInv'
  <2>1. Exclusive \/ ~Loading'
    BY <1>2, LoadingAlone DEF Loading, thread
  <2> QED BY <1>2, <2>1, QuietStep
<1>3. ASSUME NEW s \in Slots, NEW n \in Nodes \cup {None}, Reshard(s, n)
      PROVE  ClientInv'
  BY <1>2, <1>3 DEF Reshard, ClientInv, TypeOK, table, thread
<1>4. CASE Calm
  BY <1>2, <1>4 DEF Calm, ClientInv, TypeOK, table, thread
<1>5. CASE SpuriousWakeup
  BY <1>5, RefreshMovesStep
<1> QED BY <1>1, <1>3, <1>4, <1>5, NodeStopsStep, TimePassesStep DEF Environment

-----------------------------------------------------------------------------
(* The invariant holds from the first state on.                              *)

LEMMA ClientBegins == Init => ClientInv
<1> SUFFICES ASSUME Init PROVE ClientInv
  OBVIOUS
<1>1. /\ m_vecRedisServ \subseteq Nodes
      /\ \A s \in Slots : owner[s] \in m_vecRedisServ
  BY DEF Init
<1>2. (SerTimeout > 0) \in BOOLEAN /\ SerTimeout \in Nat /\ m_nConnNum \in Nat
      /\ m_nConnNum >= 1
  BY Positive, ClientAssumption
<1>3. PICK conn \in Conn : conn = [ctx |-> "good", fresh |-> SerTimeout > 0]
  BY <1>2 DEF Conn
<1>4. PICK q : q = [i \in 1 .. m_nConnNum |-> conn]
  OBVIOUS
<1>5. q \in Seq(Conn) /\ Len(q) = m_nConnNum
  BY <1>2, <1>4
<1>6. server = [n \in Nodes |->
                  IF n \in m_vecRedisServ
                    THEN [m_queIdleConn |-> q, m_nSerTimeout |-> SerTimeout]
                    ELSE Deleted]
  BY <1>3, <1>4 DEF Init
<1>7. server \in [Nodes -> ServerStates]
  BY <1>2, <1>5, <1>6, EmptySeq DEF ServerStates, Deleted
<1>8. IdleCall \in CallStates /\ call = [c \in Callers |-> IdleCall]
  BY ConnTypes, CodesDistinct DEF Init, IdleCall, CallStates
<1>9. TypeOK
  BY <1>1, <1>7, <1>8 DEF Init, TypeOK
<1>10. CallsInOrder
  BY <1>8, CodesDistinct DEF CallsInOrder, IdleCall, Working, SentAtMost
<1>11. DestroyedIdle /\ ServersOutliveRequests
  BY <1>8 DEF Init, DestroyedIdle, ServersOutliveRequests, Requesting, IdleCall
<1>12. OneServer
  <2>1. SUFFICES ASSUME ~m_bCluster
                 PROVE  \E n : m_vecRedisServ = {n}
    BY DEF OneServer
  <2>2. Cardinality(m_vecRedisServ) = 1 /\ IsFiniteSet(m_vecRedisServ)
    BY <1>1, <2>1, ClientAssumption, FS_Subset DEF Init
  <2> QED BY <2>2, FS_Singleton
<1>13. PoolsKept
  <2>1. \A n : Holders(n) = {}
    BY <1>8 DEF Holders, IdleCall
  <2>2. Cardinality({}) = 0
    BY FS_EmptySet
  <2>3. \A n \in m_vecRedisServ : server[n].m_queIdleConn = q
    BY <1>1, <1>6
  <2>4. \A n \in m_vecRedisServ : 
          Len(server[n].m_queIdleConn) + Cardinality(Holders(n)) = m_nConnNum
    <3>1. \A n : Cardinality(Holders(n)) = 0
      BY <2>1, <2>2
    <3>2. m_nConnNum + 0 = m_nConnNum
      BY <1>2
    <3> QED BY <1>5, <2>3, <3>1, <3>2
  <2>5. m_bValid = TRUE /\ m_vecSlot = owner
    BY DEF Init
  <2> QED BY <1>1, <1>2, <2>4, <2>5 DEF PoolsKept
<1> QED BY <1>9, <1>10, <1>11, <1>12, <1>13 DEF ClientInv

LEMMA ClientStep == ClientInv /\ [Next]_vars => ClientInv'
<1> SUFFICES ASSUME ClientInv, [Next]_vars PROVE ClientInv'
  OBVIOUS
<1>1. CASE UNCHANGED vars
  <2>1. UNCHANGED <<owner, up, quiet, m_bValid, m_bExit, table, server, call, thread, destroyer>>
    BY <1>1 DEF vars, env
  <2>2. Exclusive \/ ~Loading'
    BY <2>1, LoadingAlone DEF Loading, thread
  <2>3. TypeOK'
    BY <2>1 DEF ClientInv, TypeOK, table, thread
  <2> QED BY <2>1, <2>2, <2>3, QuietStep DEF ClientInv, TypeOK
<1>2. CASE Next
  BY <1>1, <1>2, CallersStep, RefreshStep, DestroyStep, EnvironmentStep DEF Next, Stop
<1> QED BY <1>1, <1>2

LEMMA ClientAlways == Spec => []ClientInv
BY ClientBegins, ClientStep, PTL DEF Spec

-----------------------------------------------------------------------------

\* Type correctness: whatever the callers, the refresh thread, the destructor
\* and the nodes do, every variable of the client keeps its type.
THEOREM ClientTypes == Spec => []TypeOK
BY ClientAlways, PTL DEF ClientInv

\* The shared mutex does its work: as long as a caller of Execute works with a
\* CRedisServer, neither a reload nor the destructor deletes it.
THEOREM ServersStay == Spec => []ServersOutliveRequests
BY ClientAlways, PTL DEF ClientInv

\* However many callers there are and whatever fails, no server of the table
\* loses a connection for good or gains one.
THEOREM ConnectionsConserved == Spec => []PoolsKept
BY ClientAlways, PTL DEF ClientInv

\* Execute makes a command take effect four times at most, and twice at most
\* where it reports that no connection was free.
THEOREM AtMostFourEffects == Spec => []EffectsBounded
<1>1. ClientInv => EffectsBounded
  <2> SUFFICES ASSUME ClientInv, NEW c \in Callers
               PROVE  call[c].done <= IF call[c].ret = RC_NO_RESOURCE THEN 2 ELSE 4
    BY DEF EffectsBounded
  <2>1. call[c].done \in Nat /\ call[c] \in CallStates /\ call[c].try \in {1, 2}
    BY DEF ClientInv, TypeOK, CallStates
  <2>2. call[c].done <= SentAtMost(call[c])
    BY DEF ClientInv, CallsInOrder
  <2>3. CASE call[c].pc = "Idle"
    BY <2>2, <2>3 DEF SentAtMost
  <2>4. CASE call[c].pc # "Idle"
    <3>1. call[c].ret # RC_NO_RESOURCE
      BY <2>4, WorkingAlive, CodesDistinct
    <3>2. call[c].done <= 4
      BY <2>1, <2>2, <2>4 DEF SentAtMost, CallStates
    <3> QED BY <3>1, <3>2
  <2> QED BY <2>3, <2>4
<1> QED BY <1>1, ClientAlways, PTL

-----------------------------------------------------------------------------
(* What makes Execute ask for a reload.                                      *)

\* The connection given back last.
Last(q) == q[Len(q)]

LEMMA ReturnedLast ==
  ASSUME ClientInv, NEW m \in Nodes, NEW conn \in Conn, ReturnConnection(m, conn)
  PROVE  Last(server'[m].m_queIdleConn) = conn
<1>1. PICK q \in Seq(Conn) : q = server[m].m_queIdleConn
  BY QueueLength DEF ClientInv
<1>2. server'[m].m_queIdleConn = Append(q, conn)
  BY <1>1 DEF ReturnConnection, ClientInv, TypeOK, ServerStates
<1>3. Append(q, conn)[Len(Append(q, conn))] = conn
  BY AppendProperties, LenProperties
<1> QED BY <1>2, <1>3 DEF Last

\* A caller asks for a reload only when its request was not answered.
LEMMA AsksUnanswered ==
  ASSUME TypeOK, NEW c \in Callers, NEW record \in CallStates, NEW ret \in Codes,
         Result(c, ret, record), call'[c].pc = "Notify"
  PROVE  ret = RC_RQST_ERR
<1>1. PICK r \in CallStates : /\ call' = [call EXCEPT ![c] = r]
                              /\ r.pc = "Idle" \/ ret = RC_RQST_ERR
  BY ResultIs
<1>2. call'[c] = r
  BY <1>1 DEF TypeOK
<1> QED BY <1>1, <1>2

LEMMA AskingLeavesBroken ==
  ASSUME ClientInv, NEW c \in Callers, ConnRequest(c) \/ Resend(c), call'[c].pc = "Notify"
  PROVE  Last(server'[call[c].serv].m_queIdleConn).ctx # "good"
<1>0. PICK m \in Nodes : m = call[c].serv
  BY DEF ConnRequest, Resend, ClientInv, ServersOutliveRequests, Requesting, TypeOK
<1>1. call[c] \in CallStates /\ call[c].conn \in Conn
  BY DEF ClientInv, TypeOK, CallStates
<1>2. ASSUME NEW conn \in Conn, conn.ctx # "good", ReturnConnection(m, conn)
      PROVE  Last(server'[call[c].serv].m_queIdleConn).ctx # "good"
  BY <1>0, <1>2, ReturnedLast
<1>3. ASSUME NEW conn \in Conn, NEW out \in Sent(m, conn), NEW record \in CallStates,
             Result(c, Reply(c), record)
      PROVE  FALSE
  <2>1. Reply(c) \in Codes /\ Reply(c) # RC_RQST_ERR
    BY CodesDistinct DEF Reply, RC_SUCCESS, RC_RQST_ERR
  <2> QED BY <1>3, <2>1, AsksUnanswered DEF ClientInv
<1>4. ASSUME NEW conn \in Conn, NEW out \in Sent(m, conn), ~out.answered,
             ReturnConnection(m, out.conn)
      PROVE  Last(server'[call[c].serv].m_queIdleConn).ctx # "good"
  <2>1. out.conn \in Conn /\ out.conn.ctx = "broken"
    BY <1>4, SentType
  <2> QED BY <1>2, <1>4, <2>1
<1>5. CASE ConnRequest(c)
  <2>1. PICK conn \in Conn : conn = Ready(m, call[c].conn)
    BY <1>1, ReadyType DEF ClientInv
  <2>2. CASE conn.ctx = "none" /\ ReturnConnection(m, conn)
    BY <1>2, <2>2
  <2>3. ASSUME NEW out \in Sent(m, conn), Result(c, Reply(c), Done(c, out))
        PROVE  FALSE
    BY <1>3, <2>3, DoneIs DEF ClientInv
  <2>4. ASSUME NEW out \in Sent(m, conn), ~out.answered, ReturnConnection(m, out.conn)
        PROVE  Last(server'[call[c].serv].m_queIdleConn).ctx # "good"
    BY <1>4, <2>4
  <2>5. ASSUME NEW out \in Sent(m, conn),
               call' = [call EXCEPT ![c] = [Done(c, out) EXCEPT !.pc = "Resend",
                                                               !.conn = out.conn]]
        PROVE  FALSE
    <3>1. call'[c] = [Done(c, out) EXCEPT !.pc = "Resend", !.conn = out.conn]
      BY <2>5 DEF ClientInv, TypeOK
    <3>2. call'[c].pc = "Resend"
      BY <3>1, DoneIs DEF ClientInv, CallStates
    <3> QED BY <3>2
  <2>6. \/ conn.ctx = "none" /\ ReturnConnection(m, conn)
        \/ \E out \in Sent(m, conn) :
             \/ Result(c, Reply(c), Done(c, out))
             \/ ~out.answered /\ ReturnConnection(m, out.conn)
             \/ call' = [call EXCEPT ![c] = [Done(c, out) EXCEPT !.pc = "Resend",
                                                                 !.conn = out.conn]]
    BY <1>0, <1>5, <2>1 DEF ConnRequest
  <2> QED BY <2>2, <2>3, <2>4, <2>5, <2>6
<1>6. CASE Resend(c)
  <2>1. PICK conn \in Conn : conn = Reconnect(m, call[c].conn)
    BY <1>1, ReadyType DEF ClientInv
  <2>2. CASE conn.ctx = "none" /\ ReturnConnection(m, conn)
    BY <1>2, <2>2
  <2>3. ASSUME NEW out \in Sent(m, conn), ReturnConnection(m, out.conn),
               Result(c, IF out.answered THEN Reply(c) ELSE RC_RQST_ERR, Done(c, out))
        PROVE  Last(server'[call[c].serv].m_queIdleConn).ctx # "good"
    <3>1. CASE out.answered
      BY <1>3, <2>3, <3>1, DoneIs DEF ClientInv
    <3>2. CASE ~out.answered
      BY <1>4, <2>3, <3>2
    <3> QED BY <3>1, <3>2
  <2>4. \/ conn.ctx = "none" /\ ReturnConnection(m, conn)
        \/ \E out \in Sent(m, conn) :
             /\ ReturnConnection(m, out.conn)
             /\ Result(c, IF out.answered THEN Reply(c) ELSE RC_RQST_ERR, Done(c, out))
    BY <1>0, <1>6, <2>1 DEF Resend
  <2> QED BY <2>2, <2>3, <2>4
<1> QED BY <1>5, <1>6

\* Whoever else takes a step, a caller that is inside a request stays there.
LEMMA OthersLeaveAlone ==
  ASSUME ClientInv, NEW c \in Callers, Requesting(c), [Next]_vars,
         ~ConnRequest(c), ~Resend(c)
  PROVE  call'[c].pc # "Notify"
<1>1. call[c].pc \in {"Fetch", "Request", "Resend"} /\ call \in [Callers -> CallStates]
  BY DEF Requesting, ClientInv, TypeOK
<1>2. ASSUME NEW d \in Callers, d # c, Caller(d) \/ \E s \in Slots : Call(d, s)
      PROVE  call'[c] = call[c]
  <2>1. ASSUME NEW ret, NEW record, Result(d, ret, record)
        PROVE  call'[c] = call[c]
    BY <1>1, <1>2, <2>1 DEF Result
  <2>2. ASSUME NEW s \in Slots, Call(d, s)
        PROVE  call'[c] = call[c]
    BY <1>1, <1>2, <2>2 DEF Call
  <2>3. CASE Enter(d) \/ FetchConnection(d) \/ NoConnection(d)
    BY <1>1, <1>2, <2>1, <2>3 DEF Enter, FetchConnection, NoConnection
  <2>4. CASE ConnRequest(d) \/ Resend(d)
    BY <1>1, <1>2, <2>1, <2>4 DEF ConnRequest, Resend
  <2>5. CASE Notify(d) \/ Poll(d)
    BY <1>1, <1>2, <2>5 DEF Notify, Step, Poll
  <2> QED BY <1>2, <2>2, <2>3, <2>4, <2>5 DEF Caller
<1>3. ASSUME Caller(c) \/ \E s \in Slots : Call(c, s)
      PROVE  call'[c].pc # "Notify"
  <2>1. FetchConnection(c) \/ NoConnection(c)
    BY <1>1, <1>3 DEF Caller, Call, Enter, Notify, Poll
  <2>2. CASE FetchConnection(c)
    <3>1. \E conn : call' = [call EXCEPT ![c].pc = "Request", ![c].conn = conn]
      BY <2>2 DEF FetchConnection
    <3>2. call'[c].pc = "Request"
      BY <1>1, <3>1 DEF CallStates
    <3> QED BY <3>2
  <2>3. CASE NoConnection(c)
    <3>1. Result(c, RC_NO_RESOURCE, call[c]) /\ call[c] \in CallStates
      BY <1>1, <2>3 DEF NoConnection
    <3> QED BY <3>1, AsksUnanswered, CodesDistinct DEF ClientInv
  <2> QED BY <2>1, <2>2, <2>3
<1>4. CASE UNCHANGED call
  BY <1>1, <1>4
<1>5. ASSUME NEW n \in Nodes, NodeStops(n)
      PROVE  call'[c].pc # "Notify"
  <2>1. call'[c] \in {call[c], [call[c] EXCEPT !.conn = Broken(call[c].conn)]}
    BY <1>5 DEF NodeStops
  <2>2. call'[c].pc = call[c].pc
    BY <1>1, <2>1 DEF CallStates
  <2> QED BY <1>1, <2>2
<1>6. CASE Refresh \/ DestroyBegins \/ Destroy \/ Stop \/ UNCHANGED vars
  BY <1>4, <1>6 DEF Refresh, RefreshTest, RefreshLock, RefreshWoken, RefreshAsk,
     RefreshCluster, RefreshSingle, RefreshSleep, DestroyBegins, Destroy, DestroyExits,
     DestroyNotifies, DestroyEnds, Stop, vars
<1>7. CASE Environment
  BY <1>4, <1>5, <1>7 DEF Environment, NodeStarts, Reshard, Calm, TimePasses, SpuriousWakeup
<1> QED BY <1>1, <1>2, <1>3, <1>6, <1>7 DEF Next

\* Execute asks for a reload only after a request that got no answer, and the
\* connection it was made on goes back broken; an answer of MOVED never does.
THEOREM ReloadsOnlyForSilence == Spec => ReloadOnlyUnanswered
<1>1. ASSUME ClientInv, [Next]_vars, NEW c \in Callers, Requesting(c),
             call'[c].pc = "Notify"
      PROVE  Last(server'[call[c].serv].m_queIdleConn).ctx # "good"
  BY <1>1, OthersLeaveAlone, AskingLeavesBroken
<1>2. ClientInv /\ [Next]_vars =>
        \A c \in Callers :
          Requesting(c) /\ call'[c].pc = "Notify" =>
            LET q == server'[call[c].serv].m_queIdleConn
            IN  q[Len(q)].ctx # "good"
  BY <1>1 DEF Last
<1> QED BY <1>2, ClientAlways, PTL DEF Spec, ReloadOnlyUnanswered
=============================================================================
