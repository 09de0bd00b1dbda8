# Verification of the IOCP chat server

TLA+ models of the chat server in `src/`, the TLC runs that check them and the
theorems TLAPS proves about them. Paths are relative to `src/`.

## 1. The system

| Part | Code | State | Operations | Threads |
|---|---|---|---|---|
| Session slots | `Network/network.cpp`, `session.cpp` | per slot: socket, `is_activated_`, `is_sending_`, `latest_conn_closed_`, `send_buf_`; `current_session_cnt_` | accept, receive, send, close, reuse | accepter, sender, IOCP workers |
| Byte ring | `Network/ring_buffer.cpp` | cells, `front_`, `rear_` | enqueue, dequeue, peek, move, clear | its owner's |
| Callbacks | `Content/chat_server.cpp` | none | `OnConnect`, `OnRecv`, `OnDisconnect` | IOCP workers |
| Packet thread | `Content/packet_manager.cpp` | two queues | the loop, seven handlers | one |
| Users | `user.cpp`, `user_manager.cpp` | per slot: state, id, room, packet ring; `user_id_map_` | clear, log in, frame and complete packets | packet thread; workers append to the ring |
| Rooms | `room.cpp`, `room_manager.cpp` | member lists | enter, leave, notify | packet thread |
| Redis | `redis_manager.cpp` | request and answer queue | look up a password | one worker |
| Redis client | `RedisClient.cpp` | connection pools, slot table, `m_bValid`, `m_bExit` | execute a command, retry, reload the table, rename | its callers; a refresh thread of its own |
| Start-up, shutdown | `Start`/`Terminate` of each part, `IOCP_Chatting/host.cpp` | running flags, threads | start, post, join | main |

How they interact. A worker that takes a completion off the port calls a
callback. `OnConnect` and `OnDisconnect` put a system packet in one queue;
`OnRecv` appends bytes to the user's ring and then puts the user's index in
another. Each turn of the packet thread serves one user packet, one system
packet and one answer of Redis. Handlers call `Network::SendPacket`, which
appends to the slot's send ring; the sender thread empties it with `WSASend`.

What is hard. The two queues are not ordered with respect to each other, a
slot's users, queued packets and Redis answers outlive its connection, the
workers, the sender and the accepter change one slot without a common lock, and
a completion arrives whenever it likes. `PROJECT.json` lists each hazard with
its line and the properties that watch it.

What correct means, per part:

* ring: a bounded FIFO, wherever its indices are;
* slots: one receive and one send outstanding, one close per connection, every
  end of a connection reported, a closed slot usable again, after a while;
* a user's byte stream: packets come out whole, once and in order, and one that
  has come whole is served;
* packet thread: every request answered once, no packet left without a wakeup;
* users and rooms: an id belongs to one session, and users, id map, member lists
  and what the clients were told agree;
* start-up and shutdown: threads end before what they use is freed, whenever the
  key comes and however far `Start` came, and `Terminate` returns;
* Redis client: no server is deleted under a request, no connection is lost, a
  command takes effect a bounded number of times, calls return, failures lead to
  a reload, and a rename does not lose the value.

## 2. Modules

| Module | Models | Used by |
|---|---|---|
| `BoundedFifo` | the FIFO a ring promises (abstract) | `RingBuffer` |
| `RingBuffer` | `ring_buffer.cpp`, and `Session::SetWsaBuf` as `WsaBufs` | `MCRingBuffer` |
| `ChatService` | who is logged in and where (abstract) | `PacketManager` |
| `Callbacks` | the order in which the callbacks come (abstract) | `PacketManager`, `Network` |
| `PacketManager` | all of the content layer, driven by the three callbacks | `MCPacketManager` |
| `Network` | all threads of the network layer on the session slots | `MCNetwork` |
| `UserStream` | one user's `packet_buf_` byte by byte, without a lock | `MCUserStream` |
| `Lifecycle` | `main`, every `Start` and `Terminate`, and the threads they make | |
| `RedisClient` | `Execute`, the connection pools, the refresh thread, the destructor | |
| `RedisRename` | `Rename` and `Renamenx` across nodes | |
| `..._proofs` | the theorems about the module of that name (section 4) | |
| `OrderlyClients_proofs` | the theorems about `PacketManager` with orderly clients | |

How they fit together. `Callbacks` is between the two layers: every callback of
`PacketManager` is one of its steps by definition, whatever else clients may do, and
`Network` implements it (`ImplementsCallbacks`) as long as no slot is reused at once.
`Network`'s `OneReceive` is why
`UserStream` has one worker; `UserStream`'s `PacketsInOrder` and
`WholePacketsServed` are why a user's ring is a sequence of whole packets in
`PacketManager`; `PacketManager` takes a Redis task to be answered, which
`ExecuteReturns` of `RedisClient` supports; `RedisRename` takes a command to be
carried out up to four times, which is `EffectsBounded`.

Definitions keep the names of the code, also with its trailing `_`. An
operator whose comment starts with `Slip:` is not the code: it is a mistake
somebody could make in the definition below it, used to show that a property
notices that mistake. `PROJECT.json` names the source lines of every definition.

**RingBuffer.** One action per operation. `Enqueue` is the loop's whole effect;
`returned` is what the call returns, `called` the kind of call, so that a put which
removes bytes is not mistaken for a clear.

**PacketManager.** `pc` and `current` are where the packet thread is: `user`
(about to dequeue), `handle`, `complete`, `system`, `redis`. A handler is one step,
since nothing else touches what it reads. `EnqueuePacket` is two steps,
`EnqueuePacketData` and `PushUserIndex`, because the packet thread may run in
between. A user's ring is a sequence of whole packets. `room.cpp` keeps a
vector of users; `user_list_` says how often each is in it, and `Entries` are the
places taken. `live`, `awaiting` and
`roster` are no state of the server: sessions between CONNECT and DISCONNECT
being served, answers a client waits for, members a client was told of.

The constant `Liberties` says what clients and timing may do, from nothing (an
orderly client that waits for every answer) to everything; each is described in
the module. Properties that hold only for orderly clients are checked there, and
the others with the liberties on.

**Network.** Every access to what threads share is a step: the exchange of
`is_activated_`, the store of `latest_conn_closed_`, `closesocket`, the reset of
`is_sending_` and so on. `pc[t]` and `on[t]` are where a worker or the sender is and for
which slot, `scan` and `slot` the same of the accepter: the load of `is_activated_`
(`LookAt`), the two loads of `latest_conn_closed_` (`CompareTime`, `Subtract`), `BindAccept`.
Winsock is external: a request succeeds or fails, a pending one completes later,
`closesocket` aborts it, completions are taken in any order. Time is three values
of `latest_conn_closed_`: `max`, `now`, `old`. `Elapse` (`now` to `old`) assumes that
the five seconds of `kSESSION_REUSE_SECONDS` are enough for what was under way for
a closed slot to be over; without that assumption old completions meet the next
connection, and nothing could be said.

The accepter can break that assumption itself. A closer that comes late stores
`UINT64_MAX` (`network.cpp:490`); if it does so between the two loads of a slot just closed
(438, 442), the unsigned difference is `cur_time + 1` and the slot is reused at once.
`rushed[s]` says that this has happened to a slot. From then on completions of its
earlier connections may still come: `TakeOvertaken` lets a worker have one at any time
and in any number, which is more than the code can do. What holds nevertheless
(`ClosedOnce`, `CountIsActiveSlots`, `EveryCloseReported`, `TypeOK`) is stated of every slot;
`OneReceive`, `OneSend` and `ImplementsCallbacks` hold until the slot is rushed.

**UserStream.** A byte is its position in the client's stream, so that a cell says
what was written there last. The stream is given by `First`, where its packets begin;
their `size_` fields are the differences. `wpc` is where the worker is in `Enqueue`: the free
size, one byte, `rear_`, the index. `ppc` is where the packet thread is in `Peek`,
`GetSizeInUse` (which reads `rear_` twice: `compare`, `size`), the handler, `MoveFront`
and `CompleteProcess`. Bytes may come before CONNECT is served, or while it clears the
ring (`packet_manager.cpp:80-85`); `early` says that some have, and the properties of the
packets hold until then, as they do until bytes were `cut` off by a full ring.

**Lifecycle.** `main` goes through `ChatServer::Start` call by call, waits for the key
and goes through `ChatServer::Terminate`; every step that can fail is in `Failing`.
`pc[t]` is where another thread is: not made, made, in its loop, at what it works on,
ended. A slot is no more than its way from the first AcceptEx to a first packet.
Using what was never set is the state `main = "undefined"`.

**RedisClient.** A caller goes through `Lock`, `Fetch`, `Request`, `Resend`, `Notify` and
`Poll`; the refresh thread through `Test`, `Lock`, `Wait`, `Woken`, `Ask`, `Build`, `Sleep`.
A connection is the state of its context and whether `m_nSerTimeout` has passed. Nodes
stop and start and slots move until `Calm` makes Redis `quiet`. A server object is
named by its node.

**RedisRename.** `pc` is the command in progress. `Execute` is one operator: the command
is carried out or not, answered or not, repeated or not, or refused with MOVED. Keys
expire and another client writes in between. A value is `mine` (the caller's) or
`theirs`.

## 3. Runs

| Run | Result | What it shows |
|---|---|---|
| `ring_fifo` | passes | the ring implements `BoundedFifo`; the buffers for `WSASend` are its contents |
| `content_orderly` | passes | users, id map, member lists and rosters agree; `ChatService` is implemented |
| `content_answers` | passes | no lost wakeup; no request is answered twice or forgotten, every one is answered in the end |
| `content_wild` | passes | users and lists stay well formed and no room overfull, under every liberty one session can take |
| `content_race` | violated | two sessions log in with one id (`packet_manager.cpp:227`) |
| `network` | passes | one close, count and reporting, whatever the accepter does; one receive, one send and the order of `Callbacks` until a slot is reused at once |
| `network_resend` | violated | bytes of a pending send are sent again (`session.cpp:121`) |
| `lifecycle` | passes | the network's threads end before their memory does; one terminate message ends all workers; `Terminate` returns once the packet thread has begun |
| `user_stream` | passes | packets come out of the unlocked ring whole, once and in order, and none waits for ever, until bytes are cut off or come before CONNECT is served |
| `redis_liveness` | passes | a single server and its pool: calls return, failures lead to a reload, requests succeed again, the destructor returns |
| `redis_cluster` | passes | table, servers and connections stay consistent through reloads; effects are bounded; MOVED never leads to a reload |
| `redis_rename` | passes | `RC_SUCCESS` means the value has moved; a failure loses a value that does not expire in one case only |

A run that is violated states what a comment or the README of the code says;
`PROJECT.json` quotes it under `findings`.

Further configurations, each with one property TLC finds violated. They are kept as
counterexamples to read (`tlc -config <cfg> <module>`), and are not among the runs:

| Configuration | Property | What happens | What the code says |
|---|---|---|---|
| `MCRingBufferCount` | `EnqueueReturnsCount` | `Enqueue` returns a difference of indices, wrong when `rear_` wraps (`ring_buffer.cpp:71`) | session.cpp:193: it returns the size enqueued |
| `MCContentHangup` | `NoMemberAfterDisconnect` | a room request served after DISCONNECT puts a session that is gone into the room (`packet_manager.cpp:85`); a login answered then breaks `MapMatchesUsers` too | README.md:54-58: its data is deleted from the room |
| `MCContentSilent` | `MapMatchesUsers` | a connection is closed without `OnDisconnect` (`network.cpp:377`), and its id stays registered when the slot is used again | |
| `MCNetworkLeak` | `ReturnedSlotStaysReturned` | a second closer takes a returned slot out of the pool for good (`network.cpp:490`) | network.cpp:489: reuse is prevented for a moment |
| `MCNetworkRush` | `ReusedAfterAWhile` | a second closer stores `UINT64_MAX` between the accepter's two loads of the time, and the slot is reused at once (`network.cpp:442`) | network.cpp:489: reuse is prevented for a moment |
| `MCNetworkMuted` | `SendingMeansSending` | `is_sending_` stays set on a slot in use (`session.cpp:101`) | session.h:87: whether it is sending now |
| `MCLifecycleHang` | `TerminateReturns` | a packet thread that begins after `Terminate` has reset its flag sets it again; the join never returns (`packet_manager.cpp:74`) | chat_server.cpp:32: terminates both, then ends the server |
| `MCLifecycleFreed` | `NoSendAfterDelete` | the packet thread sends through `session_list_` after its delete (`network.cpp:164`) | network.cpp:160: all threads have ended |
| `MCLifecycleSlots` | `MarkedSlotsAreRequested` | the accepter runs before the socket listens; a slot whose AcceptEx fails stays marked for ever (`session.cpp:53`) | session.cpp:40: the mark prevents a second request |
| `MCLifecycleEarly` | `PacketsFindUsers` | the network starts before there are users, and a first packet is dropped (`chat_server.cpp:18`) | chat_server.cpp:10: the network starts after the logic thread |
| `MCLifecycleRedis` | `RedisAnswers` | when Redis cannot be reached the worker is not started, and logins wait for ever (`chat_server.cpp:25`) | README.md:81-84: a login request is answered |
| `MCLifecycleUnset` | `ManagersKnownToTerminate` | after a failed `Start`, `Terminate` uses a pointer nobody has set (`packet_manager.cpp:43`) | chat_server.cpp:32 |
| `MCUserStreamClear` | `NoPacketServedAgain` | `Clear` under a worker's `Enqueue`: the worker stores the `rear_` it had loaded, and packets are served again (`user.cpp:12`) | README.md:44-46: the user's data is initialised |

Bounds, and why they are enough:

* The ring has four cells of two values and chunks of up to three: every pair of
  indices, full and empty, every wrap, and a chunk longer than the space.
* `content_orderly`: two sessions, ids and rooms, five requests, three
  connections. Two users can log in and meet in a room, one can leave, drop out
  and be replaced; a third session would add no new pair. Sessions, ids and rooms
  are interchangeable and every property of this run is a safety property, so
  symmetry is sound.
* `content_answers`: two sessions after one id, two requests, which may come in
  one receive (the case in which one index stands for two packets), two
  connections. No symmetry, because of the liveness property.
* `content_wild`: one slot used twice and four requests: enough to log in, enter,
  log in again and enter again, with a room for one.
* `network`: two slots, two workers, the sender and the accepter, two connections (both
  on one slot, or one on each), one packet to send. Its bytes stay in the ring while
  `WSASend` is pending, so that there are several sends all the same, also one that
  outlasts a close. Two closers, a third thread and the accepter meet on one slot, and the
  second connection may be a reuse at once. `CntRange` is 8 for 2^32: what matters is that
  zero wraps.
* `lifecycle`: two workers, so that one terminate message must be passed on; one slot
  and two packets, so that a packet can be under way at every step of `main`; each
  of the six failures.
* `user_stream`: a ring of six cells, headers of two, and packets that fill and wrap it;
  the worker stops between any two bytes and the packet thread between any two reads.
* `redis_liveness`: two callers and one connection: one finds the pool empty, and one
  can hold the lock the refresh thread waits for. `redis_cluster`: two nodes and two
  slots that move, stop and start; one caller, which meets the refresh thread, and a
  timeout of 0, with which a connection is old at once and `Resend` depends on the clock.
* `redis_rename`: four tries per command, as `RedisClient` bounds them, and two writes of
  another client, one for each key.

Deadlock is checked in every `ring`, `content`, `redis_liveness` and `redis_cluster` run
that passes. `Network` bounds the connections, and when all are over nothing is left to
do; a server ends when the key was pressed, a stream ends, and a rename returns.

Fairness, where liveness is checked:

* `content_answers`: weak fairness of the packet thread, of the Redis worker and of the
  second half of `OnRecv`. All are loops or straight code that never wait for one
  another. Nothing is assumed of clients and connections.
* `user_stream`: weak fairness of the worker once it has bytes and of the packet thread
  while an index is queued; the client may stop.
* `lifecycle`: weak fairness of every thread that was made, and of `main` but for the key,
  which need not come.
* `redis_liveness`: strong fairness of callers, refresh thread and destructor, because
  they wait for a lock that is free now and then, and weak fairness of the clock.
  Nothing obliges anyone to call, to destroy or to fail. A `shared_mutex` does not
  promise that a writer gets in between readers that overlap: `RequestsSucceedAgain`
  supposes that the refresh thread is not starved (`[]<>Exclusive`).

What the models made plain beside the properties:

* A notification that comes just before the refresh thread waits is lost
  (`RedisClient.cpp:947`); the next failure makes up for it, unless it is the
  destructor's: if a reload has set `m_bValid` again after the destructor reset it, the
  join at 895 never returns. `DestructorReturns` excludes just this.
* `ServRequest` never returns `RC_REPLY_ERR`, so the test for MOVED (1907) is never
  reached: after resharding the table stays old until a request fails altogether.
* A reload that is told of no slots empties the list of servers, and then there is none
  to ask: the client never recovers (`ClientRecovers` excludes it).
* `WaitForRefresh` returns at once while `m_bValid` is still TRUE, so the second try may
  use the table of the first, and a command may take effect four times.
* `Rename` and `Renamenx` lose the value if the last `Del(strKey)` is carried out and not
  answered: the way out deletes the copy (1053, 1083). A key whose `Pttl` is 0 becomes
  permanent. `Rename` of a key that does not exist deletes the new name. `Renamenx`
  deletes what another client wrote under the new name after `Exists`.
* Read in the code, not modelled: `Renamenx` within one node always returns
  `RC_REPLY_ERR`, since the integer answer is read as a status; `FetchIntegerArray`
  tests for an integer instead of an array; `Mget` and `Mset` of a cluster fetch replies
  although the flush has failed, and then there is none; `FlushCommand` has no server
  for a slot nobody serves.

## 4. Proofs

TLAPS proves what follows for every value of the constants that meets the named
assumptions. Those say what the code or its environment gives: sizes are positive, a
packet fits into the ring (`StreamAssumption`), there is at least one connection per
server (`ClientAssumption`), there are finitely many slots, sessions, callers and nodes
(`FiniteAssumption`, `SessionsAssumption`, `ClientAssumption`), which the proofs need only
to count. TLC
evaluates each of them in the runs. Every inductive invariant below was first checked
by TLC on the instances of the runs.

| Module | Theorem | Property |
|---|---|---|
| `RingBuffer_proofs` | `RingTypes`, `SendBuffersComplete`, `RingImplementsFifo` | `TypeOK`, `SendBuffersAreContents`, `RingIsFifo` |
| `UserStream_proofs` | `StreamTyped`, `HandedOverInOrder`, `PacketStaysInPlace` | `TypeOK`, `PacketsInOrder`, `PacketKeptWhileHandled` |
| `PacketManager_proofs` | `TypeCorrect`, `NoPacketStranded`, `RoomsStayWithinLimit`, `EachRequestAnsweredOnce` | `TypeOK`, `NoStrandedPacket`, `RoomNotOverfull`, `AnswersOwed` |
| `OrderlyClients_proofs` | `RoomsFollowUsers`, `IdsFollowUsers`, `RostersFollowRooms`, `ContentImplementsService`, `ReadmeKept` | `RoomsMatchUsers`, `MapMatchesUsers`, `RostersAgree`, `ImplementsService`, `OneSessionPerId` and `NoMemberAfterDisconnect` |
| `Network_proofs` | `TypeCorrect`, `OneReceiveAtATime`, `OneSendAtATime`, `ClosedOnlyOnce`, `EveryCloseIsReported`, `CountSettles`, `CallbacksInOrder` | `TypeOK`, `OneReceive`, `OneSend`, `ClosedOnce`, `EveryCloseReported`, `CountIsActiveSlots`, `ImplementsCallbacks` |
| `Lifecycle_proofs` | `LifecycleTypes`, `MemoryOutlivesThreads` | `TypeOK`, `NetworkThreadsHaveMemory` |
| `RedisClient_proofs` | `ClientTypes`, `ServersStay`, `ConnectionsConserved`, `AtMostFourEffects`, `ReloadsOnlyForSilence` | `TypeOK`, `ServersOutliveRequests`, `PoolsKept`, `EffectsBounded`, `ReloadOnlyUnanswered` |
| `RedisRename_proofs` | `RenameTypes`, `RenameSucceeds`, `RenameKeepsValue`, `RenamenxKeepsName` | `TypeOK`, `SuccessMeansRenamed`, `ValueSurvives`, `ExistingNameKept` |

**RingBuffer.** `TypeOK` is inductive. `RingImplementsFifo` is the refinement, step by
step: `EnqueueIsPut` shows that the loop's bytes come behind the contents and touch none
of them, `FrontMoves` that `Dequeue`, `Peek` and `MoveFront` take a prefix. Both rest on
the arithmetic of the indices (`Advancing`, `Onward`, `Behind`), which replaces `%` by a
case split.

**UserStream.** The invariant is `StreamInv`: the ring holds the bytes of the stream
between `Position` (where the next packet begins) and `src` (the next byte to come) in
consecutive cells, `rear_` is that many cells past `front_` (`RingHoldsStream`), and the
packet thread knows no more of the packet at `front_` than is there (`PacketAtFront`).
That holds while nothing was cut off and no byte came too early; `ClearedEarly` is why
it survives `Clear`: then the ring is still empty and the worker idle. The point of the
proof is `SizeInUseIs`: the two reads of `rear_` never yield more than is in the ring,
because `less` can be out of date in one direction only. The header found is that of the
packet whose turn it is since no two packets begin at the same byte. The two theorems
about packets have no hypothesis: `PacketsInOrder` and `PacketKeptWhileHandled`
themselves promise nothing once a byte came before CONNECT was served, for which
`MCUserStreamClear` is the counterexample.

**PacketManager.** `HandleUserPacket` and `CompleteProcess` take the head of
`packet_buf_[current]`, so that there must be one: `PacketInHand` says that while
`pc` is `handle` or `complete`, `current` is a session with a packet. The argument for the
lost wakeup is that an index leaves the queue only when its user is served, that
a worker is `receiving` from its first step to its second, and that
`CompleteProcess` looks at what is left at the moment it removes the packet.
`RoomsStayWithinLimit` holds under every liberty, so that a user may be in a list
several times: the proof counts `Entries`, and shows that `EnterUser` adds one only where
there is room. `EachRequestAnsweredOnce` rests on `AnswersInv`: what a client waits for is
what is in its user's ring, before Redis, or in the answer queue, and a connection whose
CONNECT is not yet served owes nothing. The theorem excludes the liberties `early` and
`backlog`, for with either of them the claim is false: bytes that come before CONNECT is
served are thrown away by its `Clear`, and what a past connection left behind is
answered to the next one.

**OrderlyClients.** The hypothesis is `Liberties \subseteq {"unknown"}`: clients wait
for their answers and are connected when they ask, log in once, hang up only when
nothing is outstanding, and no two ask for one id at once; a packet without a handler
only keeps its sender waiting. The server enforces none of this, so that the theorems
say nothing of a race for an id or of an answer that comes after the disconnect:
`content_race`, `MCContentHangup` and `MCContentSilent` are the counterexamples with
other liberties. The invariant `OrderlyInv` has three parts. `SlotsInv` orders what is
queued for a session: its CONNECT, then its DISCONNECT, and between them at most one
request in the server, on a connection that is set up. `UsersInv` adds to
`MapMatchesUsers` and `RoomsMatchUsers` what is known of a login under way, which
neither of them mentions: the user keeps the id it asked with (`IdKnown`), nobody is
registered with it, and nobody else asks for it (`OneAsks`), so that an answer of Redis
finds the id as free as the request did. `RostersInv` relates what a client was told to
the list of its room. For `ContentImplementsService` every step is `LogIn`, `Enter`,
`Leave` or `Drop` of `ChatService` or shows no change; that a session is let into a room
only with space follows because the list holds each session once, so that sessions and
entries are equally many (`SpaceForSession`).

**Network.** `HeldInv` says who holds a slot at each of its stages: the pool, the
accepter that reuses it, the pending accept, the worker that sets it up, the one that
clears it, and where the threads may be meanwhile. Of what it says, who holds the slot
is true also of one that was reused at once, and `ClosedOnce` follows from that; where
the receive is (`OneReceiver`) only until then. `Due` is the moment the time of a slot
has come: from the accepter's last load on it does not matter that a closer stores
`UINT64_MAX`, so that a slot in the accepter's hands is `Due` as well (`AccepterHolds`),
unless it was rushed. `SendInv` adds that the send token, `is_sending_`, is held by one
thread or one pending send, again until the slot is rushed; `ReportInv` that a closed
connection has its receive left to report it; `BudgetInv` and `AcceptingInv` what the
abstract protocol counts, so that every step of the threads is a step of `Callbacks` or
stutters; the accepter's rush is `Overtake`. `CountInv` relates the counter to the slots
for any width: active slots and those on the way out, less those not counted yet, plus a
multiple of `CntRange`.

**Lifecycle.** `LifecycleInv` relates where `main` is to which threads exist and what was
made and freed: memory is made before the threads (`MadeAfterMemory`), freed in order
(`FreedInOrder`), and a thread that was joined has ended (`JoinedIsOver`).

**RedisClient.** `ClientInv` has the request in hand counted with the connections
(`PoolsKept`), a bound on the effects at each point of `Execute` (`SentAtMost`: one more
per command sent, two per try), nobody at work while the client is destroyed, and one
server without a cluster. Fetching and returning move a connection between the queue and
a caller (`FetchStep`, `CallerReturns`); the refresh thread replaces pools only while it
has the lock, when no caller holds any (`LoadingAlone`).

**RedisRename.** `RenameKeepsValue` is about values that do not expire, and excepts the
last `Del` of the old name failing after it was carried out. While nobody else writes,
`AloneInv` says at each command where the value can be (`OldName`, `Read`, `NewName`)
and what an outcome means; `Refused` is the branch of `Renamenx` for a name in use,
which holds whoever writes.

Only model-checked: every property under fairness (`WholePacketsServed`,
`ExecuteReturns`, `ClientRecovers`, `RequestsSucceedAgain`, `DestructorReturns`,
`EveryRequestAnswered`, `NetworkTerminates`,
`TerminateReturnsOnceBegun`): reasoning with fairness needs ENABLED, which the prover
does not have. Every other property of a passing run is a theorem.

## 5. Not modelled, and the plan

What is left out of the modules above:

* passwords, the text of a chat, result codes, console output; packets with the ids of
  system packets or Redis answers, which clients do not send; the limit of users,
  which no code ever counts towards;
* a packet whose header gives its `size_` as 0 or as less than a header
  (`user.cpp:51-57`): `StreamAssumption` has clients that send whole packets, and
  `PacketManager` takes a ring of them;
* an accept that fails when it completes, whose completion has no session
  (`network.cpp:345`); what a handler reads of a packet that wraps (`user.cpp:57`), which is
  a matter of memory layout;
* of the Redis client the one-command wrappers and the conversion of arguments and
  replies, which keep no state; pipelines and what is made of them (`Mget`, `Mset`,
  `Keys`), which the chat server does not use; the slaves, which `LoadSlaveInfo` never
  adds with the format of INFO today;
* `Network` and `PacketManager` in one state space: each alone has as many states as one
  run can go through. They are composed by `Callbacks` instead. What the content
  layer sends is in `Network` any number of packets, from the first one received until
  DISCONNECT is served.

Plan: pipelines of the Redis client, with the locks they do not take.
