SPECIFICATION FairSpec
CHECK_DEADLOCK FALSE
CONSTANTS
  t1 = t1
  n1 = n1
  Jobs = {j1, j2}
  Types = {t1}
  Tenants = {n1}
  TypeOf <- OneType
  TenantOf <- OneTenant
  TypeLimit <- LimitOne
  Limits = {1}
  Workers = {w1, w2}
  NoJob = NoJob
  NoScope = NoScope
  MaxEvents = 1
 
 
PROPERTY DeferredJobsFinish
INVARIANT DeferralKeepsTheJob
