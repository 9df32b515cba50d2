SPECIFICATION Spec
CONSTANTS
  p1 = p1
  p2 = p2
  http = http
  https = https
  c1 = c1
  c2 = c2
  c3 = c3
  nullptr = nullptr
  Loops <- MCTwoLoops
  Listeners <- MCHttp
  SslListeners <- MCNone
  Conns <- MCTwoConns
  Timeout = 1
  MaxSends = 1
  MaxEvents = 2
  CountMod = 8
  AcceptMayFail = FALSE
  ListenerMayFail = FALSE
  MaxRequestQuits = 1
  QuitPoints <- MCAnyTime
SYMMETRY Symmetry
INVARIANTS NoDanglingPointer OneOwnerOneTimer NoLostEvent NoLostBacklog NoIdleServe GracefulExit CountsFit
PROPERTY ImplementsService
