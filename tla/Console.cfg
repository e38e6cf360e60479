SPECIFICATION Spec
CONSTANTS
    Tenants = {"t1"}
    Callers = {c1, c2}
    None = ""
    MaxKeys = 3
    MaxTime = 4
    MaxAsks = 3
    MaxLogins = 4
    CacheTTL = 0
    SessionTTL = 0
    LoginMax = 2
    LoginWindow = 2
    Jobs <- MCJobs
    TenantOf <- MCTenantOf
    Operator = "operator"
    NoTenant = ""
    Watched <- MCWatched
    Traffic = {"keys", "logins", "browser"}
    MaxCalls = 2
    MaxReads = 2
    MaxClicks = 1
    MaxFaults = 1
    MaxEvents = 2
    MaxVisits = 1
    MaxSignIns = 1
    PageTime = 2
    ChanCap = 1
INVARIANTS StaleHasACause TenantKeepsAKey LoginBounded
PROPERTIES RevokedKeyFades ReconnectingSettles StreamEndsWithSession
CHECK_DEADLOCK FALSE
