SPECIFICATION Spec
CONSTANTS
  Kinds = {"tcp", "ssl"}
  SOCKET_BUF_SIZE = 2
  MaxBytes = 6
  MaxInterrupts = 2
INVARIANT ReadInv
CHECK_DEADLOCK FALSE
