CONSTANTS
    Keys <- MCKeys
    KeyLen <- MCKeyLen
    Texts <- MCTexts
    TextLen <- MCTextLen
    I64Max = 1000
    None = None
    Requests = {r1, r2}
    Ops <- AdmissionOps
    Times = {0}
    Workers = 2
    Route <- MCRoute
    QueueCapacity = 1
    QueueBytes = 800
    ControlCapacity = 1
    KeysPerWorker = 1
    MaxPayloadBytes = 20
    MaxReplyBytes = 66
    ExpiryBatch = 1
    Events = {"tick", "timeout", "drop_future", "stats", "shutdown", "drop_engine"}
    Stop = Stop
    a1 = a1
    a2 = a2
    b1 = b1
    b2 = b2
    t = t
    u = u
SPECIFICATION Spec
SYMMETRY RequestSymmetry
INVARIANTS
    NeverAborts
    AcceptedExactlyOnce
    CreditsConserved
PROPERTIES
    Linearizable
CHECK_DEADLOCK FALSE
