SPECIFICATION WorkerSpec
CONSTANTS
  j1 = j1
  j2 = j2
  Jobs <- MCJobs
  MaxRetries <- MCMaxRetries
  MaxDead = 2
  MaxLeases = 3
  MaxStored = 8
  Concurrency = 1
  Unregistered = {}
  MaxStarts = 1
  MaxFaults = 0
INVARIANT CleanStop
CHECK_DEADLOCK FALSE
