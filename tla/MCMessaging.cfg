\* Any of the components may stop: all calls returned, the bounds reached.
SPECIFICATION MCSpec
CONSTANTS
    Publishers = {p1}
    Consumers = {c1, c2}
    Closers = {k1}
    BufferSize = 2
    MaxPublish = 3
    Channels = {a, b}
    QueueSize = 1
    MaxMsgs = 2
    MaxDeliveries = 2
    PartMsgs = 2
    MaxParts = 2
    maxRetries = 1
SYMMETRY MCSymmetry
CHECK_DEADLOCK FALSE
INVARIANTS
    
    BusInv
    ManagerInv
    InboundInv
    OutboundInv
PROPERTY
    SplitRight
