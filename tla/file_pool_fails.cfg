SPECIFICATION Spec
CONSTANTS
  t1 = t1
  t2 = t2
  f1 = f1
  f2 = f2
  f3 = f3
  end = end
  none = none
  Threads <- MCTwoThreads
  Files <- MCTwoFiles
  MAX_SHARED_FILE = 1
  MaxFd = 2
  MaxChanges = 1
SYMMETRY Symmetry
INVARIANTS IteratorValid AlwaysReturnedIsOpen NothingLeaked
PROPERTY FoundIfThere
CHECK_DEADLOCK FALSE
