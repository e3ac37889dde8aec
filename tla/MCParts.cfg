SPECIFICATION PartsSpec
CONSTANTS
    kMaxUInt = 255
    IntWidth = 32
    Texts <- MCTexts
    Cycles <- MCCycles
    Micros <- MCMicros
    Nanos <- MCNanos
    Events <- MCEvents
    Pointers = {p1, p2, p3}
    NULL = NULL
    EDeviceTypes = {camera, dome}
    DeviceNumbers = {0, 1}
    UniqueIds = {u1, u2}
    MaxDevices = 3
    kMaxEvents = 2
    Stable = 2
    MaxCalls = 4
    kMaximumAllowedSteps = 3
    PulseTravel = 2
    MaxSpeed = 19550
    kName <- MCName
    OuiPrefixes <- MCPrefixes
    Draws <- MCDraws
    InitialCells <- MCInitialCells
    MaxPowerFailures = 2
    MAX_SOCK_NUM = 2
    TcpPorts = {80, 81}
    MaxFd = 3
    Covers = {c1, c2}
    NoHandler = NoHandler
    Travel = 2
    allowed_steps_ = 2
    allowed_start_steps_ = 1
    Channels = {led1}
    kMaxBrightness = 1
INVARIANTS
    NumberAsWritten
    ListChecked
    EventsAccounted
    StoredWhole
    SameAfterRestart
    DescriptorsHeld
    StepsLeft
    MovingIsDriven
    OnlyOneMoves
    OffIsDark
PROPERTIES
    LooksLikeTheChip
    StepsAsCommanded
    MotorComesToRest
    MovementReported
