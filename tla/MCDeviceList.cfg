SPECIFICATION DeviceListSpec
CONSTANTS
    Pointers = {p1, p2, p3}
    NULL = NULL
    EDeviceTypes = {camera, dome}
    DeviceNumbers = {0, 1}
    UniqueIds = {u1, u2}
    MaxDevices = 3
INVARIANT
    AcceptedAreValid
