SPECIFICATION RequestSpec
CONSTANTS
  r1 = r1
  Requests <- OneRequest
  Timed = FALSE
  MaxRejects = 0
INVARIANT ErrorsRollBack
CHECK_DEADLOCK FALSE
