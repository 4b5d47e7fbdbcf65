CONSTANTS
    Keys <- MCKeys
    KeyLen <- MCKeyLen
    Texts <- MCTexts
    TextLen <- MCTextLen
    I64Max = 1000
    None = None
    Requests = {r1, r2, r3}
    Ops <- LinearOps
    Times = {0, 1}
    Workers = 2
    Route <- MCRoute
    QueueCapacity = 2
    QueueBytes = 2000
    ControlCapacity = 1
    KeysPerWorker = 1
    MaxPayloadBytes = 20
    MaxReplyBytes = 72
    ExpiryBatch = 1
    Events = {"clock", "tick"}
    Stop = Stop
    a1 = a1
    a2 = a2
    b1 = b1
    b2 = b2
    t = t
    u = u
SPECIFICATION Spec
SYMMETRY RequestSymmetry
PROPERTIES
    Linearizable
CHECK_DEADLOCK FALSE
