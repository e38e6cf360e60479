SPECIFICATION FairSpec
CHECK_DEADLOCK FALSE
CONSTANTS
  w1 = w1
  w2 = w2
  i1 = i1
  i2 = i2
  Workers = {w1, w2}
  Instances = {i1}
  InstanceOf <- OneProcess
  Jobs = {j1}
  MaxRetries = 1
  MaxDLQ = 2
  NoPayload = NoPayload
  NoWorker = NoWorker
  NoJob = NoJob
  Scheduled = {j1}
  Pausable = {}
  RateLimited = TRUE
  MaxCrashes = 1
  MaxApiCrashes = 0
  MaxDrains = 0
  MaxReclaims = 1
  MaxCancels = 1
  MaxReplays = 1
  Apart <- OneDisturbance
 
PROPERTY JobsSettle
INVARIANT RegistryFresh
 
PROPERTY ImplementsContract
