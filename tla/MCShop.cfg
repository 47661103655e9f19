SPECIFICATION MCSpec
CONSTANTS
    b1 = b1
    b2 = b2
    l1 = l1
    q1 = q1
    a1 = a1
    a2 = a2
    t1 = t1
    t2 = t2
    NoPicture = NoPicture
    Elsewhere = Elsewhere
    Book <- MCBook
    Label <- MCLabel
    Promotion <- MCPromotion
    Admin <- MCAdmin
    Pictures = 3
    Title <- MCTitle
    Tab <- MCTab
    Price <- MCPrice
    Rates <- MCRates
    VoucherChoices <- MCVoucherChoices
    MaxUnits = 2
    MaxRows = 2
    Ids = 5
    Limit = 2
SYMMETRY Symmetry
INVARIANTS
    TypeOK
    ShownPicturesExist
    UnitsAccounted
    OrderAmounts
    NoRowTwice
    NoRowMissed
CHECK_DEADLOCK FALSE
