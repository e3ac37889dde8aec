SPECIFICATION FairSpec
CONSTANTS
    MAX_SOCK_NUM = 3
    ForeignPort <- MCForeignPort
    Byte = {b1}
    RxMax = 2
    kDisconnectMaxMillis = 2
    FastHandshake = FALSE
    ReleaseIn = {"none"}
INVARIANTS
    LastStatusTracksSession
    ClosingIsTimed
    HalfClosedIsDrained
PROPERTIES
    ListenerProtocol
    ReturnsToService
    BreakIsReported
