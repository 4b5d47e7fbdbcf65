CONSTANTS
    Streams <- MCStreams
    MaxFrameBytes = 21
    MaxBulkBytes = 8
    MaxArguments = 2
    MaxHeaderBytes = 5
    UsizeMax = 21
    None = None
    Malformed = Malformed
SPECIFICATION Spec
INVARIANTS
    BufferSound
    NothingHeldBack
    DecodesTheStream
