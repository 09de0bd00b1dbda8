CONSTANTS
  Sessions = {s1}
  Workers = {w1, w2}
  Sender = Sender
  NoSession = NoSession
  CntRange = 8
  MaxConnects = 2
  MaxSends = 2
SPECIFICATION Spec
INVARIANT ReusedAfterAWhile
CHECK_DEADLOCK FALSE
