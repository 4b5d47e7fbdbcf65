CONSTANTS
    Keys <- MCKeys
    KeyLen <- MCKeyLen
    Texts <- MCTexts
    TextLen <- MCTextLen
    I64Max = 1000
    None = None
    Requests = {r1, r2}
    Ops <- CrowdOps
    Times = {0}
    Workers = 2
    Route <- MCRoute
    QueueCapacity = 1
    QueueBytes = 1100
    ControlCapacity = 1
    KeysPerWorker = 1
    MaxPayloadBytes = 20
    MaxReplyBytes = 66
    ExpiryBatch = 1
    Events = {"stats", "shutdown", "drop_engine", "tick"}
    Stop = Stop
    a1 = a1
    a2 = a2
    b1 = b1
    b2 = b2
    t = t
    u = u
SPECIFICATION FairSpec
PROPERTIES
    EveryCallReturns
    StatsReturn
    ShutdownCompletes
    OwnersStopWithoutHandles
CHECK_DEADLOCK FALSE
