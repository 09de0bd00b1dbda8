SPECIFICATION FairSpec
CONSTANTS
  Workers = {w1}
  SlotCnt = 1
  MaxPackets = 1
  Failing = {"connect_redis"}
PROPERTIES
  RedisAnswers
\* The server ends when the key was pressed.
CHECK_DEADLOCK FALSE
