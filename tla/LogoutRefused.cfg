SPECIFICATION Spec
CONSTANTS
    d1 = d1
    d2 = d2
    j1 = j1
    j2 = j2
    None = None
    Device <- MCOneDevice
    Job <- MCOneJob
    Sessions = 3
    MaxDevices = 1
    MaxClock = 1
    RawHeader = TRUE
PROPERTIES
    LogoutEnds
CHECK_DEADLOCK FALSE
