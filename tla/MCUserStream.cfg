SPECIFICATION FairSpec
CONSTANTS
  size_ = 6
  HeaderLen = 2
  First <- MCFirst
INVARIANTS
  TypeOK
  PacketsInOrder
  PacketKeptWhileHandled
PROPERTIES
  WholePacketsServed
\* The client's stream ends.
CHECK_DEADLOCK FALSE
