CONSTANTS
    Characters <- MCCharacters
    Replies <- MCReplies
    Depth <- MCDepth
    MaxDepth = 2
    Numbers <- MCNumbers
    LimitText <- MCLimitText
    MaxReplyBytes = 40
    UsizeMax = 100
    None = None
SPECIFICATION EncoderSpec
INVARIANTS
    ReadsBack
    LengthExact
