SPECIFICATION Spec
CONSTANTS
  c1 = c1
  c2 = c2
  c3 = c3
  q1 = q1
  q2 = q2
  None = None
  Call <- ThreeCalls
  Request <- TwoRequests
  Slow = TRUE
  MaxTurns = 1
INVARIANT ReplayIsOwn
CHECK_DEADLOCK FALSE
