SPECIFICATION FairSpec
CONSTANTS
    Message <- AverageMessage
    Text <- RequestText
    Abandoned = {}
    BufferSize = 4
    kMaxPayloadSize = 12
INVARIANT DecodesAsSent
