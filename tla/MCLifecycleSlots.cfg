SPECIFICATION Spec
CONSTANTS
  Workers = {w1}
  SlotCnt = 1
  MaxPackets = 0
  Failing = {}
INVARIANTS
  MarkedSlotsAreRequested
\* The server ends when the key was pressed.
CHECK_DEADLOCK FALSE
