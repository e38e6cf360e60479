SPECIFICATION FairSpec
CHECK_DEADLOCK FALSE
CONSTANTS
  Templates = {t1}
  Schedulers = {s1}
  Clients = {c1, c2}
  Gone = Gone
  MaxClock = 2
  MaxCrashes = 1
  MaxErrors = 1
  MaxEdits = 2
INVARIANT OneInstancePerTick
INVARIANT PauseHolds
INVARIANT InstancesAreWhole
PROPERTY DueIsSpawned
