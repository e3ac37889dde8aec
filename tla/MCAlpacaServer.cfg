SPECIFICATION FairSpec
CONSTANTS
    Switches = {0, 1}
    Jumpers = {0}
    CoverFitted = TRUE
    kMaxBrightness = 1
    UInt32Values = 16
    TextOf <- WriteResponse
    ResponsesIn <- Make
    IsTo <- ReadsAs
    Requests <- MCRequests
    Pipelined = {"CalibratorOn", "Brightness"}
    ErrorStatuses = {400, 505}
    DeviceInfos <- MCDeviceInfos
    write_buffer_limit_ = 64
    TxSize = 64
    WriteSizes = {50, 64}
    TransactionIds = 2
INVARIANTS
    ResponsesFramed
    ClientInStep
    ReadsBack
PROPERTIES
    ResponsesEnd
