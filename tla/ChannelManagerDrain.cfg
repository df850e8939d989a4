SPECIFICATION Spec
CONSTANTS
    Channels = {a}
    QueueSize = 1
    MaxMsgs = 1
CHECK_DEADLOCK FALSE
INVARIANT StopAllDrains
