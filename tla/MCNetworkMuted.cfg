CONSTANTS
  Sessions = {s1}
  Workers = {w1, w2}
  Sender = Sender
  NoSession = NoSession
  CntRange = 8
  MaxConnects = 2
  MaxSends = 2
SPECIFICATION Spec
INVARIANT SendingMeansSending
CHECK_DEADLOCK FALSE
