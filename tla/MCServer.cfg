SPECIFICATION ServerSpec
CONSTANTS
  c1 = c1
  c2 = c2
  Conns <- TwoConns
  Cap = 1
INVARIANT FatalDrains
CHECK_DEADLOCK FALSE
