------------------------------ MODULE MCOrders ------------------------------
(* One order, four requests or webhook calls, two parcels at the carrier.    *)
EXTENDS Orders, TLC

CONSTANTS q1, q2, q3, q4, p1, p2

MCRequests == {q1, q2, q3, q4}
MCParcels == {p1, p2}
=============================================================================
