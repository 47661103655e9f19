----------------------------- MODULE MCCheckout -----------------------------
(* One customer who orders twice with the same voucher, the two requests     *)
(* naming the same two books in opposite orders.                             *)
EXTENDS Checkout, TLC

CONSTANTS b1, b2, v1, r1, r2, u1

Item(b, n) == [book |-> b, qty |-> n]

MCBooks == {b1, b2}
MCInitQty == {1}
MCVouchers == {v1}
MCBuyers == {r1, r2}
MCVoucherOf == (r1 :> v1) @@ (r2 :> v1)
MCQualifying == {r1, r2}
MCLimits == {1}
MCUserOf == (r1 :> u1) @@ (r2 :> u1)
MCItems == (r1 :> <<Item(b1, 1), Item(b2, 1)>>) @@ (r2 :> <<Item(b2, 1), Item(b1, 1)>>)
=============================================================================
