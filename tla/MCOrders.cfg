SPECIFICATION FairSpec
CONSTANTS
    q1 = q1
    q2 = q2
    q3 = q3
    q4 = q4
    p1 = p1
    p2 = p2
    None = None
    Requests <- MCRequests
    Parcels <- MCParcels
INVARIANTS
    TypeOK
    StatusNeedsShipment
    SoldFollowsStock
    CancelReportsRestockOnce
PROPERTIES
    DatesNeverUnset
    ReturnEnds
CHECK_DEADLOCK FALSE
