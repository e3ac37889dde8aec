SPECIFICATION DiscoverySpec
CONSTANTS
    MAX_SOCK_NUM = 3
    kNumSockets = 2
    SkipIfLeaseFails = FALSE
    Sources = {eth0}
    maxsize = 1
    RxMax = 2
    MaxCopies = 1
    MaxStray = 1
INVARIANTS
    DiscoverySocketKept
    ResponsesHandled
PROPERTIES
    AllServe
    RequestsAnswered
    DiscoveryEnds
