SPECIFICATION Spec
CONSTANTS
    Jobs = {1, 2}
    Tenants = {"t1", "t2"}
    Types = {"email"}
    Workers = {"w1"}
    None = ""
    TenantOf <- TwoTenants
    TypeOf <- OneType
    HashOrder <- Backwards
    Procs = {p1, p2}
    NumVersions = 2
    Undoable = {2}
    MaxRetries = 1
    MaxRollbacks = 1
    Backends = {"memory", "redis", "postgres", "dual"}
    MaxCalls = 3
    MaxFaults = 1
INVARIANTS LastWriteStands MirrorAgrees PagesShowAll SchemaWhole
SYMMETRY Symmetry
CHECK_DEADLOCK FALSE
