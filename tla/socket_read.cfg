SPECIFICATION FairSpec
CONSTANTS
  Kinds = {"tcp", "ssl"}
  SOCKET_BUF_SIZE = 2
  MaxBytes = 6
  MaxInterrupts = 2
INVARIANTS TcpKeepsToBuffer TcpReadDelivers Drained
PROPERTY UninterruptedReadReturns
CHECK_DEADLOCK FALSE
