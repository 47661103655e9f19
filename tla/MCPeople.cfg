SPECIFICATION MCSpec
CONSTANTS
    p1 = p1
    p2 = p2
    c1 = c1
    c2 = c2
    a1 = a1
    a2 = a2
    r1 = r1
    r2 = r2
    e1 = e1
    e2 = e2
    f1 = f1
    f2 = f2
    u1 = u1
    u2 = u2
    s1 = s1
    Permission <- MCPermission
    Check <- MCCheck
    Assigner <- MCAssigner
    Request <- MCRequest
    Tokens = 3
    MaxRequests = 1
    MaxGuesses = 2
    OtpLife = 1
    ResetLife = 2
    AddressId <- MCAddressId
    Edit <- MCEdit
    Ward <- MCWard
    DistrictOf <- MCDistrictOf
    ProvinceOf <- MCProvinceOf
    Phone <- MCPhone
    User <- MCUser
    Send <- MCSend
    MaxRemovals = 1
SYMMETRY Symmetry
INVARIANTS
    TypeOK
    CacheIsCurrent
    ChecksRight
    GuessLimit
    MailLimit
    OwnRegistration
    AddressesResolve
    SignedInIsReached
PROPERTY
    LateConfirmChangesNothing
CHECK_DEADLOCK FALSE
