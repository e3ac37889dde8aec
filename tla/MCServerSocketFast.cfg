SPECIFICATION FairSpec
CONSTANTS
    MAX_SOCK_NUM = 3
    ForeignPort <- MCForeignPort
    Byte = {b1}
    RxMax = 2
    kDisconnectMaxMillis = 2
    FastHandshake = TRUE
    ReleaseIn = {"none"}
INVARIANT LastStatusTracksSession
