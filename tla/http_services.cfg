SPECIFICATION Spec
CONSTANTS
  c1 = c1
  c2 = c2
  any = any
  none = none
  Word <- MCWord
  Conns <- MCConns
  Requests <- MCBoth
  Garbage <- MCJunk
  Cuts <- MCCuts
  Handlers <- MCHandlers
  m_maxTimes = 1
  m_isAutoKeepAlive = TRUE
  MinHandlers = 4
  MaxPieces = 4
  OddStates = TRUE
  WritesMayFail = TRUE
SYMMETRY Symmetry
INVARIANTS OrderOfRegistration OwnRequest AnswersAreLimited
PROPERTY UnderstoodWhole
CHECK_DEADLOCK FALSE
