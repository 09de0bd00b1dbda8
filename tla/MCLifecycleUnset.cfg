SPECIFICATION Spec
CONSTANTS
  Workers = {w1}
  SlotCnt = 1
  MaxPackets = 0
  Failing = {"bind"}
INVARIANTS
  ManagersKnownToTerminate
\* The server ends when the key was pressed.
CHECK_DEADLOCK FALSE
