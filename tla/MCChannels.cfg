\* Messages, connections and questions are bounded: each component stops.
SPECIFICATION MCSpec
CONSTANTS
    IDs = {m1, m2, m3, m4, m5}
    NoID = NoID
    max = 3
    MaxCount = 6
    MaxCopies = 2
    Reactions = {r1}
    Loop = Loop
    MaxConns = 3
    MaxEcho = 5
    Chats = {c1, c2}
    MaxTasks = 2
    MaxParts = 2
    ReplyCounts = {0, 1, 2}
    IndicatorMessages = {m1, m2}
    IndicatorSenders = {s1}
    ChunkMessages = {m1}
    ChunkSenders = {s1, s2}
    ChunksPerReply = 2
    maxRetries = 1
    MaxReplies = 2
CHECK_DEADLOCK FALSE
INVARIANTS
    
    DedupInv
    OneBotInv
    AIBotInv
PROPERTIES
    NoCliff
    
