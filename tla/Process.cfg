SPECIFICATION FairSpec
CHECK_DEADLOCK FALSE
CONSTANTS
  Workers = {w1, w2}
  NoWorker = NoWorker
  Threshold = 3
  Burst = 1
  MaxResets = 1
INVARIANT DrainStartsNothingNew
PROPERTY CircuitRecovers
PROPERTY ShutdownEnds
INVARIANT BreakerIsEarned
