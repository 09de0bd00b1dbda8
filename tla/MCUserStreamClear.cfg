SPECIFICATION Spec
CONSTANTS
  size_ = 6
  HeaderLen = 2
  First <- MCFirst
INVARIANTS
  NoPacketServedAgain
\* The client's stream ends.
CHECK_DEADLOCK FALSE
