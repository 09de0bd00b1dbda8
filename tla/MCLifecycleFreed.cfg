SPECIFICATION Spec
CONSTANTS
  Workers = {w1}
  SlotCnt = 1
  MaxPackets = 1
  Failing = {}
INVARIANTS
  NoSendAfterDelete
\* The server ends when the key was pressed.
CHECK_DEADLOCK FALSE
