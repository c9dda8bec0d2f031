SPECIFICATION MCSpec
CONSTANTS
    Gpu = {0, 1}
    LeaseId = {a, llm}
    s = s
    t = t
    v = v
    w = w
    Pid = {p, s, t, v, w, h, i}
    Holder = {h, i}
    Tenant = {p}
    TenantLease = {a}
    Runner = {p}
    Server = {s, t}
    Foreground = {s}
    VllmOf <- MCVllmOf
    LlmLease = llm
    HardKill = FALSE
    Overlap = FALSE
    Count = {1}
    Unleased = Unleased
    NoHold = NoHold
    MaxAsk = 2
    Repeats = FALSE
INVARIANTS
    LeasesDisjoint  NoUnownedHolder 
PROPERTIES LiveLeaseKept HoldsEnd
CHECK_DEADLOCK FALSE
