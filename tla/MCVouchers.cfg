SPECIFICATION Spec
CONSTANTS
    v1 = v1
    v2 = v2
    c1 = c1
    c2 = c2
    c3 = c3
    c4 = c4
    Vouchers <- MCVouchers
    Uses <- MCUses
    VoucherOf <- MCVoucherOf
    Qualifying <- MCQualifying
    Limits <- MCLimits
SYMMETRY Pair
INVARIANTS
    TypeOK
    UsedIsHolders
PROPERTIES
    ExhaustedStays
CHECK_DEADLOCK FALSE
