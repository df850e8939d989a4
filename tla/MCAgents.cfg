\* Rounds, turns, steps and messages are bounded: each component stops.
SPECIFICATION MCSpec
CONSTANTS
    p1 = p1
    p2 = p2
    Callers = {c1, c2}
    Providers = {p1, p2}
    Candidates <- Mixed
    Errors <- MCErrors
    Durations = {60, 1441}
    MaxErrors = 2
    MaxSteps = 2
    MainAgent = "main"
    ProviderFails = TRUE
    BusCap = 1
    LoopMaxMsgs = 2
    LoopMaxCalls = 2
    MaxTasks = 1
    LoopMaxGen = 3
    ToolNames = {a, b, c}
    MainTurn = "t1"
    TTL = 2
    MaxResults = 2
    ToolsMaxIterations = 4
    NoEngine = NoEngine
    MCPServers = {"s1", "s2"}
    MCPCallers = {d1, d2, d3}
    MCPMaxCalls = 4
    StoreMaxMsgs = 4
    Summaries = {"none", "some"}
    NoSummary = "none"
    Keys = {1, 2}
    BootMaxMsgs = 3
    WritesFail = TRUE
    RenamesFail = TRUE
    TurnMaxMsgs = 8
    TurnMaxIterations = 2
    MaxToolCalls = 2
    Threshold = 5
    MaxSummarizationMessages = 3
    CascadeConfigs <- MCCascadeConfigs
    CascadeInputs <- MCCascadeInputs
    SessionConfigs <- MCSessionConfigs
    SessionInputs <- MCSessionInputs
    MaxRouted = 2
    Names <- Texts
    Lower <- Lowered
SYMMETRY MCSymmetry
CHECK_DEADLOCK FALSE
INVARIANTS
    BackInTime
    LoopInv
    ToolsInv
    RoutingInv
    StoreInv
    StartupInv
    TurnsInv
PROPERTIES
    NeverShortened
    ImplementsStore
    
