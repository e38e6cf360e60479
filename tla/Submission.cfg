SPECIFICATION FairSpec
CHECK_DEADLOCK FALSE
CONSTANTS
  a = a
  b = b
  c = c
  m = m
  k = k
  p = p
  x = x
  y = y
  z = z
  NoKey = NoKey
  Requests = {a, b, c, m, p, x, y, z}
  Key <- MCKey
  Deps <- MCDeps
  Batched = {m}
  Parent = p
  Fan <- MCFan
  Scenarios <- MCScenarios
  RateLimit = 1
  MaxQueueSize = 1
  MaxErrors = 1
  MaxCrashes = 1
  MaxEdits = 1
INVARIANT RateHeld
 
 
