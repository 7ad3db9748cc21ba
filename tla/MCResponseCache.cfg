SPECIFICATION Spec
CONSTANTS
  a = a
  b = b
  c = c
  Nobody = Nobody
  Requests <- Three
  Credentialed <- OnlyB
  Revalidating <- OnlyC
  Kinds <- AllKinds
  OldRelease = TRUE
  MaxWrites = 0
  MaxPurges = 0
  MaxExpiries = 1
  MaxFaults = 1
  MaxTime = 1
INVARIANTS
  ServedRightly
CHECK_DEADLOCK FALSE
