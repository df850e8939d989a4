\* Two agents: a message is routed to one that is not the default.
SPECIFICATION Spec
CONSTANTS
    Agents = {main, helper}
    DefaultAgent = main
    Targets = {"own"}
    SideKinds = {}
    ProviderFails = TRUE
    BusCap = 2
    MaxMsgs = 1
    MaxCalls = 2
    MaxTasks = 0
    MaxGen = 1
CHECK_DEADLOCK FALSE
INVARIANT AnsweredOnce
