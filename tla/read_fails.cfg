SPECIFICATION FairSpec
CONSTANTS
  Kinds = {"tcp", "ssl"}
  SOCKET_BUF_SIZE = 2
  MaxBytes = 2
  MaxInterrupts = 1
INVARIANT ReadDelivers
PROPERTY ReadReturns
CHECK_DEADLOCK FALSE
