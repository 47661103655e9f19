----------------------------- MODULE MCVouchers -----------------------------
(* Three checkouts ask for one voucher, a fourth for another one; one of the *)
(* three does not reach the minimal amount.                                  *)
EXTENDS Vouchers, TLC

CONSTANTS v1, v2, c1, c2, c3, c4

MCVouchers == {v1, v2}
MCUses == {c1, c2, c3, c4}
MCVoucherOf == (c1 :> v1) @@ (c2 :> v1) @@ (c3 :> v1) @@ (c4 :> v2)
MCQualifying == {c1, c2, c4}
MCLimits == {1, 2}
MCOneUse == {1}
Pair == Permutations({c1, c2})
=============================================================================
