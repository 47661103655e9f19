SPECIFICATION Spec
CONSTANTS
    q1 = q1
    q2 = q2
    q3 = q3
    q4 = q4
    p1 = p1
    p2 = p2
    None = None
    Requests <- MCRequests
    Parcels <- MCParcels
INVARIANT
    CancelledOnce
CHECK_DEADLOCK FALSE
