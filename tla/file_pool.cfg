SPECIFICATION Spec
CONSTANTS
  t1 = t1
  t2 = t2
  f1 = f1
  f2 = f2
  f3 = f3
  end = end
  none = none
  Threads <- MCTwoThreads
  Files <- MCThreeFiles
  MAX_SHARED_FILE = 2
  MaxFd = 3
  MaxChanges = 1
SYMMETRY Symmetry
INVARIANTS Bounded ReturnedIsOpen
CHECK_DEADLOCK FALSE
