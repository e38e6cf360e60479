SPECIFICATION Spec
CHECK_DEADLOCK FALSE
CONSTANTS
  a = a
  b = b
  c = c
  m = m
  k = k
  p = p
  x = x
  y = y
  z = z
  NoKey = NoKey
  Requests = {a, b, c}
  Key <- OneKey
  Deps <- NoDeps
  Batched = {}
  Parent = p
  Fan <- NoFan
  Scenarios <- All
  RateLimit = 3
  MaxQueueSize = 1
  MaxErrors = 0
  MaxCrashes = 0
  MaxEdits = 0
INVARIANT DuplicatesRejected
