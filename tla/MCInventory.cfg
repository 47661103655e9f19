SPECIFICATION FairSpec
CONSTANTS
    b1 = b1
    b2 = b2
    t1 = t1
    t2 = t2
    NoTx = NoTx
    Books <- MCBooks
    Tx <- MCTx
    Jobs <- MCJobs
    InitQty <- MCInitQty
    MaxEpoch = 2
INVARIANTS
    TypeOK
    StockNeverNegative
    LogTellsTheStock
    LostUpdateNeedsOverlap
    AllLinesOrNone
PROPERTY
    EveryTxEnds
CHECK_DEADLOCK FALSE
