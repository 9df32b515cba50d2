SPECIFICATION Spec
CONSTANTS
  u1 = u1
  u2 = u2
  u3 = u3
  Users <- MCUsers
  Timeouts <- MCTimeouts
  TimeoutMayShrink = FALSE
  MaxTime = 5
SYMMETRY Symmetry
INVARIANT TimersInv
