SPECIFICATION FairSpec
CONSTANTS
    Message <- EmptyValueMessage
    Text <- RequestText
    Abandoned = {}
    BufferSize = 4
    kMaxPayloadSize = 12
PROPERTY EmptyBufferEndsLoop
