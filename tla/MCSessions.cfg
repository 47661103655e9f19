SPECIFICATION Spec
CONSTANTS
    d1 = d1
    d2 = d2
    j1 = j1
    j2 = j2
    None = None
    Device <- MCDevice
    Job <- MCJob
    Sessions = 3
    MaxDevices = 1
    MaxClock = 1
    RawHeader = FALSE
SYMMETRY Symmetry
INVARIANTS
    TypeOK
    DeviceLimit
    LoneLoginKeepsTheNewest
    CookieMatches
PROPERTIES
    EndedStaysEnded
    LogoutEnds
CHECK_DEADLOCK FALSE
