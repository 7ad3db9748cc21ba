SPECIFICATION FairWorkerSpec
CONSTANTS
  j1 = j1
  j2 = j2
  Jobs <- MCJobs
  MaxRetries <- MCMaxRetries
  MaxDead = 2
  MaxLeases = 3
  MaxStored = 8
  Concurrency = 1
  Unregistered <- MCUnregistered
  MaxStarts = 2
  MaxFaults = 1
INVARIANTS
  SlotsAccounted
  RunsExclusive
PROPERTIES
  KeepsQueueDiscipline
  EveryJobSettles
CHECK_DEADLOCK FALSE
