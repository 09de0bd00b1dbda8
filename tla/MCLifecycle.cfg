SPECIFICATION FairSpec
CONSTANTS
  Workers = {w1, w2}
  SlotCnt = 1
  MaxPackets = 2
  Failing = {"init_listen", "create_iocp", "bind", "listen", "register", "connect_redis"}
INVARIANTS
  TypeOK
  NetworkThreadsHaveMemory
PROPERTIES
  NetworkTerminates
  TerminateReturnsOnceBegun
\* The server ends when the key was pressed.
CHECK_DEADLOCK FALSE
