SPECIFICATION Spec
CONSTANTS
  a = a
  b = b
  c = c
  Nobody = Nobody
  Requests <- Three
  Credentialed <- NoRequests
  Revalidating <- NoRequests
  Kinds <- SharedNotOrThrows
  OldRelease = FALSE
  MaxWrites = 1
  MaxPurges = 2
  MaxExpiries = 1
  MaxFaults = 0
  MaxTime = 0
INVARIANTS
  StampedeBound
  FollowersServed
  PurgeHolds
SYMMETRY AnonymousSymmetry
CHECK_DEADLOCK FALSE
