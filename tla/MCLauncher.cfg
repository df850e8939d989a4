\* Requests, restarts, runs and saves are bounded: each component stops.
SPECIFICATION MCSpec
CONSTANTS
    Providers = {"openai"}
    Flows = {f1}
    Requests = {r1, r2}
    Refreshes = {g}
    CanFail = TRUE
    User = u1
    Polls = {q1}
    MaxProcs = 2
    MaxRestarts = 1
    cap = 3
    MaxLines = 8
    MaxRuns = 3
    Tabs = {c, d}
    SharedNames = {x}
    SharedVendors = {v}
    MaxShared = 1
    Tab = c
    Names = {x, y}
    Vendors = {v, w}
    MaxModels = 2
    SkillCalls = {1, 2}
    Tools = {"t1", "t2"}
    SkillKinds = {"tool", "force", "registry", "github", "import", "delete", "uninstall"}
    Queries = {"a", "b", "c"}
    Unlike = "c"
    maxEntries = 2
    ttl = 2
    Registries = {"s1", "s2"}
    Callers = {"k1", "k2"}
    MaxSearches = 4
    MaxTime = 2
SYMMETRY MCSymmetry
CHECK_DEADLOCK FALSE
INVARIANTS
    IndexIsPending
    OAuthInv
    
    
    
