SPECIFICATION FairSpec
CONSTANTS
    Message <- MCMessage
    Text <- MCText
    Abandoned <- MCAbandoned
    BufferSize = 4
    kMaxPayloadSize = 12
INVARIANTS
    TypeOK
    BodyChecks
    DecodesAsSent
PROPERTIES
    HandsOver
    EveryRequestGetsResult
