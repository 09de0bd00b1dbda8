\* Two slots, or one used twice, with two workers and the sender on them.
CONSTANTS
  Sessions = {s1, s2}
  Workers = {w1, w2}
  Sender = Sender
  NoSession = NoSession
  CntRange = 8
  MaxConnects = 2
  MaxSends = 1
SPECIFICATION Spec
SYMMETRY Symmetry
INVARIANTS TypeOK OneReceive OneSend ClosedOnce CountIsActiveSlots EveryCloseReported
PROPERTY ImplementsCallbacks
\* Two slots, or one used twice, with two workers and the sender on them.
CHECK_DEADLOCK FALSE
