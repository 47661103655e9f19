SPECIFICATION Spec
CONSTANTS
    b1 = b1
    b2 = b2
    t1 = t1
    t2 = t2
    NoTx = NoTx
    Books <- MCBooks
    Tx <- MCTx
    Jobs <- MCLastCopies
    InitQty <- MCInitQty
    MaxEpoch = 2
INVARIANT
    NothingSoldTwice
CHECK_DEADLOCK FALSE
