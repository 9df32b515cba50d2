SPECIFICATION Spec
CONSTANTS
  p1 = p1
  p2 = p2
  http = http
  https = https
  c1 = c1
  c2 = c2
  c3 = c3
  nullptr = nullptr
  Loops <- MCOneLoop
  Listeners <- MCBoth
  SslListeners <- MCHttps
  Conns <- MCTwoConns
  Timeout = 2
  MaxSends = 2
  MaxEvents = 2
  CountMod = 8
  AcceptMayFail = TRUE
  ListenerMayFail = TRUE
  MaxRequestQuits = 0
  QuitPoints <- MCJoining
SYMMETRY Symmetry
INVARIANT QueuedForAReason
