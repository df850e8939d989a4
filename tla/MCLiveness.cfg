\* The bounds stop the callers.
SPECIFICATION LiveSpec
CONSTANTS
    Publishers = {p1, p2}
    Consumers = {c1}
    Closers = {k1}
    BufferSize = 1
    MaxPublish = 1
CHECK_DEADLOCK FALSE
PROPERTIES
    CallsReturn
    
    Reconnects
