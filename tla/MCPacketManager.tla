-------------------------- MODULE MCPacketManager --------------------------
(* PacketManager on a few sessions, ids and rooms.                           *)
EXTENDS PacketManager, TLC

Symmetry ==
  Permutations(Sessions) \cup Permutations(UserIds) \cup Permutations(Rooms)
=============================================================================
