---------------------------- MODULE ChatService ----------------------------
(* What the content layer promises its users: an id belongs to at most one   *)
(* session, only sessions that are logged in are in rooms, in one room at a  *)
(* time, and a room holds a limited number of them.                          *)
EXTENDS FiniteSets, Integers

CONSTANTS Sessions, UserIds, Rooms, NoId, NoRoom, Capacity

VARIABLES who,     \* the id each session is logged in with
          place    \* the room each session is in

ServiceInit ==
  /\ who = [s \in Sessions |-> NoId]
  /\ place = [s \in Sessions |-> NoRoom]

LogIn(s, u) ==
  /\ who[s] = NoId
  /\ \A x \in Sessions : who[x] # u
  /\ who' = [who EXCEPT ![s] = u]
  /\ UNCHANGED place

Enter(s, r) ==
  /\ who[s] # NoId
  /\ place[s] = NoRoom
  /\ Cardinality({x \in Sessions : place[x] = r}) < Capacity
  /\ place' = [place EXCEPT ![s] = r]
  /\ UNCHANGED who

Leave(s) ==
  /\ place[s] # NoRoom
  /\ place' = [place EXCEPT ![s] = NoRoom]
  /\ UNCHANGED who

\* The session ends, and with it its login and its place in a room.
Drop(s) ==
  /\ who[s] # NoId
  /\ who' = [who EXCEPT ![s] = NoId]
  /\ place' = [place EXCEPT ![s] = NoRoom]

ServiceNext ==
  \E s \in Sessions :
    \/ \E u \in UserIds : LogIn(s, u)
    \/ \E r \in Rooms : Enter(s, r)
    \/ Leave(s)
    \/ Drop(s)

ServiceSpec == ServiceInit /\ [][ServiceNext]_<<who, place>>
=============================================================================
