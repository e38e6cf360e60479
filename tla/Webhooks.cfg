SPECIFICATION FairSpec
CHECK_DEADLOCK FALSE
CONSTANTS
  Jobs = {j1}
  Hooks = {h1}
  OwnHook = own
  JobEvents <- OwnEvents
  HookEvents <- AllEvents
  Dispatchers = {d1}
  Editors = {e1}
  None = None
  MaxRetries = 2
  ReadCount = 2
  MaxDeliveriesPerURL = 2
  MaxCrashes = 1
  MaxEdits = 1
  MaxRuns = 2
 
INVARIANT NoSpuriousEvents
INVARIANT DeletedStaysDeleted
PROPERTY MessagesSettle
