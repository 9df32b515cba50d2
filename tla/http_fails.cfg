SPECIFICATION Spec
CONSTANTS
  c1 = c1
  c2 = c2
  any = any
  none = none
  Word <- MCWord
  Conns <- MCConns
  Requests <- MCBoth
  Garbage <- MCJunk
  Cuts <- MCCuts
  Handlers <- MCOneHandler
  m_maxTimes = 1
  m_isAutoKeepAlive = TRUE
  MinHandlers = 1
  MaxPieces = 4
  OddStates = TRUE
  WritesMayFail = FALSE
INVARIANTS AlwaysOwnRequest OwnArguments OwnBody HandledIsComplete MaxTimesKept HandledIsAnswered
PROPERTIES WholeIsUnderstood ToldTheTruth
CHECK_DEADLOCK FALSE
