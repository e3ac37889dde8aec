\* Peers may connect while Initialize is still choosing sockets.
SPECIFICATION SocketsSpec
CONSTANTS
    MAX_SOCK_NUM = 3
    kNumSockets = 2
    SkipIfLeaseFails = TRUE
INVARIANTS
    SocketsDedicated
