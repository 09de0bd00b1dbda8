----------------------------- MODULE Callbacks -----------------------------
(* The order in which the network layer calls the content layer about a      *)
(* slot: what Network promises, and what PacketManager builds on.            *)
(*                                                                           *)
(* conn[s] is what has been reported of the slot: "open" since OnConnect,    *)
(* "closed" since a first OnDisconnect, "free" since a second one or before  *)
(* any. A connection of which both a receive and a send fail is reported     *)
(* twice (network.cpp:341-346), and one that could not be read any further   *)
(* not at all (network.cpp:377-382), so that the next OnConnect may find the *)
(* slot open. "lost" is a slot reused before its last connection was over    *)
(* (network.cpp:438-445): nothing is promised of it any more.                *)
CONSTANT Sessions
VARIABLES conn, receiving

calls == <<conn, receiving>>

NoCalls ==
  /\ conn = [s \in Sessions |-> "free"]
  /\ receiving = [s \in Sessions |-> FALSE]

Connect(s) ==
  /\ ~receiving[s]
  /\ conn' = [conn EXCEPT ![s] = "open"]
  /\ UNCHANGED receiving

Disconnect(s) ==
  /\ \/ conn[s] = "open"   /\ conn' = [conn EXCEPT ![s] = "closed"]
     \/ conn[s] = "closed" /\ conn' = [conn EXCEPT ![s] = "free"]
  /\ UNCHANGED receiving

\* OnRecv takes its time, but there is one at a time, also while another
\* worker reports the end of the connection.
RecvBegins(s) ==
  /\ conn[s] # "free"
  /\ ~receiving[s]
  /\ receiving' = [receiving EXCEPT ![s] = TRUE]
  /\ UNCHANGED conn

RecvEnds(s) ==
  /\ receiving[s]
  /\ receiving' = [receiving EXCEPT ![s] = FALSE]
  /\ UNCHANGED conn

Overtake(s) ==
  /\ conn' = [conn EXCEPT ![s] = "lost"]
  /\ receiving' = [receiving EXCEPT ![s] = FALSE]

Call(s) ==
  \/ Connect(s)
  \/ Disconnect(s)
  \/ RecvBegins(s)
  \/ RecvEnds(s)
  \/ Overtake(s)

CallSpec == NoCalls /\ [][\E s \in Sessions : Call(s)]_calls
=============================================================================
