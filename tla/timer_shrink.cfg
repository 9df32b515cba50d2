SPECIFICATION Spec
CONSTANTS
  u1 = u1
  u2 = u2
  u3 = u3
  Users <- MCUsers
  Timeouts <- MCTimeoutsFar
  TimeoutMayShrink = TRUE
  MaxTime = 5
PROPERTIES CheckoutExact
