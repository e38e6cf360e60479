SPECIFICATION Spec
CHECK_DEADLOCK FALSE
CONSTANTS
  w1 = w1
  w2 = w2
  i1 = i1
  i2 = i2
  Workers = {w1, w2}
  Instances = {i1, i2}
  InstanceOf <- TwoProcesses
  Jobs = {j1}
  MaxRetries = 1
  MaxDLQ = 2
  NoPayload = NoPayload
  NoWorker = NoWorker
  NoJob = NoJob
  Scheduled = {}
  Pausable = {j1}
  RateLimited = TRUE
  MaxCrashes = 1
  MaxApiCrashes = 1
  MaxDrains = 1
  MaxReclaims = 1
  MaxCancels = 0
  MaxReplays = 0
  Apart = {}
INVARIANT TypeOK
INVARIANT InFlightPaired
INVARIANT SingleFlight
INVARIANT EarnedFailure
INVARIANT EarnedSuccess
 
