SPECIFICATION FairConnectionSpec
CONSTANTS
    MAX_SOCK_NUM = 1
    ForeignPort = {}
    Byte = {"p", "t", "e", "b", "x"}
    RxMax = 2
    kDisconnectMaxMillis = 0
    FastHandshake = FALSE
    ReleaseIn = {}
    InputBufferSize = 2
    TransactionIds = 5
    MaxStream = 3
    MaxOthers = 1
INVARIANT HalfCloseErrorIsIncomplete
