\* Messages, connections, deliveries and starts are bounded: each component stops.
SPECIFICATION MCSpec
CONSTANTS
    Conns = {"c1", "c2"}
    Sessions = {"a", "b"}
    Senders = {"s1"}
    maxConns = 1
    MaxTries = 2
    NoValue = NoValue
    WaLoops = {"l1", "l2"}
    WaMaxRuns = 2
    WaMaxBreaks = 3
    TypingMessages = {"m1", "m2", "m3"}
    TypingRepliers = {"r1"}
    TypingReplies = 1
    Nobody = "nobody"
    ReplyEvents = {"e1", "e2"}
    ReplyChats = {"c1", "c2"}
    ReplySenders = {"s1", "s2"}
    ReplyRetries = 1
CHECK_DEADLOCK FALSE
INVARIANTS
    TypingInv
    
    RepliesInv
PROPERTY
    EveryTab
