SPECIFICATION Spec
CONSTANTS
  open = open
  malformed = malformed
  none = none
  SIZE = 8
  Kinds = {"tcp", "ssl"}
  SOCKET_BUF_SIZE = 2
  SendBuffer = 4
  MaxDrains = 2
  PageSize = 2
  Requests <- MCAll
  FileSizes <- MCFileSizes
  TextSize = 3
  MaxAnswers = 2
INVARIANTS SentIsPrefix SuccessExact PartIsMapped OneByteServed LongRangeServed
PROPERTIES AlwaysInSync LengthIsTold NotModifiedIsTrue
CHECK_DEADLOCK FALSE
