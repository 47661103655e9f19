SPECIFICATION FairSpec
CONSTANTS
    b1 = b1
    b2 = b2
    v1 = v1
    r1 = r1
    r2 = r2
    u1 = u1
    NoTx = NoTx
    Books <- MCBooks
    InitQty <- MCInitQty
    MaxEpoch = 1
    Vouchers <- MCVouchers
    VoucherOf <- MCVoucherOf
    Qualifying <- MCQualifying
    Limits <- MCLimits
    Buyers <- MCBuyers
    UserOf <- MCUserOf
    Items <- MCItems
INVARIANTS
    TypeOK
    UsesCoverOrders
PROPERTIES
    ImplementsAtomicCheckout
    EveryCheckoutEnds
CHECK_DEADLOCK FALSE
