CONSTANTS
    Keys <- MCKeys
    KeyLen <- MCKeyLen
    Texts <- MCTexts
    TextLen <- MCTextLen
    I64Max = 4000
    None = None
    Ops <- MCOps
    Times <- MCTimes
    Limits <- MCLimits
    ExpiryBatch = 1
    MaxRevision = 4
    a = a
    b = b
    c = c
    short = short
    long = long
SPECIFICATION Spec
INVARIANTS
    TimersMatchEntries
    PayloadExact
    WithinKeyBudget
    CommandsMeanTheReference
    OomExact
    RevisionGuardsPrepared
PROPERTIES
    ExpirationIsInvisible
CHECK_DEADLOCK FALSE
