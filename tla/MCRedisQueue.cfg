SPECIFICATION FairSpec
CONSTANTS
  j1 = j1
  j2 = j2
  c1 = c1
  c2 = c2
  Jobs <- OneJob
  MaxRetries <- OneJobRetries
  MaxDead = 1
  Callers <- MCCallers
  MaxLeases = 2
  MaxStored = 2
  MaxFaults = 1
INVARIANTS
  LostOnlyInHand
  CopiesSound
PROPERTIES
  ImplementsLifecycle
  StagingDrains
CHECK_DEADLOCK FALSE
