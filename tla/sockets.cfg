SPECIFICATION Spec
CONSTANTS
  p1 = p1
  p2 = p2
  o1 = o1
  o2 = o2
  o3 = o3
  o4 = o4
  nullptr = nullptr
  Loops <- MCLoops
  Memory <- MCMemory
  Descriptors = {1, 2, 3, 4}
  Attempts <- MCAttempts
  Addresses = 1
  MaxClients = 2
  MaxFiles = 1
SYMMETRY Symmetry
INVARIANTS DescriptorsOwned HandlesOwned HandshakeDone
CHECK_DEADLOCK FALSE
