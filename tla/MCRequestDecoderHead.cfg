SPECIFICATION FairSpec
CONSTANTS
    Message <- HeadMessage
    Text <- RequestText
    Abandoned = {}
    BufferSize = 4
    kMaxPayloadSize = 12
INVARIANT NoInternalError
