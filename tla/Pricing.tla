------------------------------ MODULE Pricing ------------------------------
(***************************************************************************)
(* What a customer pays: promotions per line, one voucher per order, and   *)
(* the price the shop window shows. Prices are whole dong, rates whole     *)
(* percents. The window divides by 100 without rounding, in floating       *)
(* point; its price is given here in hundredths, exactly.                  *)
(***************************************************************************)
EXTENDS Integers, FiniteSetsExt

\* The deepest of the promotions that run, 0 without one. Both the window
\* (getMaxDiscount) and the checkout (promotionLookup) take it.
BestRate(rates) == Max(rates \cup {0})

\* calculateDiscountedPrice, times 100.
ShownHundredths(price, rate) == IF rate <= 0 THEN 100 * price ELSE price * (100 - rate)

\* Mutant: rounded to the nearest, and so in the shop's disfavour.
LineDiscount_Rounds(price, quantity, rate) == (price * quantity * rate + 50) \div 100

\* validateAndPrepareOrderItems: rounded down, once for the line.
LineDiscount(price, quantity, rate) == (price * quantity * rate) \div 100

LineTotal(price, quantity, rate) ==
    price * quantity - LineDiscount(price, quantity, rate)

NoVoucher == [type |-> "none", value |-> 0, max |-> 0]

\* What validateDiscountRule lets into the table. max 0: no cap.
VoucherAllowed(v) ==
    /\ v.value > 0
    /\ v.type = "PERCENTAGE" => v.value <= 100
    /\ v.type = "FIXED_AMOUNT" => v.max = 0

\* Mutant: a fixed amount is not limited by the order.
VoucherDiscount_Unlimited(v, amount) ==
    CASE v.type = "none" -> 0
      [] v.type = "FIXED_AMOUNT" -> v.value
      [] OTHER -> LET raw == (amount * v.value) \div 100
                  IN  IF v.max # 0 /\ v.max < raw THEN v.max ELSE raw

\* calculateDiscount of the vouchers.
VoucherDiscount(v, amount) ==
    IF amount <= 0 \/ v.type = "none" THEN 0
    ELSE IF v.type = "FIXED_AMOUNT" THEN Max({0, Min({amount, v.value})})
    ELSE LET raw == (amount * v.value) \div 100
             capped == IF v.max # 0 THEN Min({raw, v.max}) ELSE raw
         IN  Max({0, Min({amount, capped})})

\* The amounts of an order, from its lines [price, quantity, rate]; lines is a
\* function from what was bought.
Subtotal(lines) ==
    MapThenSumSet(LAMBDA b : lines[b].price * lines[b].quantity, DOMAIN lines)
PromotionDiscount(lines) ==
    MapThenSumSet(LAMBDA b : LineDiscount(lines[b].price, lines[b].quantity, lines[b].rate),
                  DOMAIN lines)

\* What ApplyVoucherStep gives to the voucher.
VoucherAmount(lines) == Max({0, Subtotal(lines) - PromotionDiscount(lines)})

\* What CreateOrderRecordStep writes: the shipping fee is 0.
OrderTotal(lines, v) ==
    Max({0, Subtotal(lines)
            - (PromotionDiscount(lines) + VoucherDiscount(v, VoucherAmount(lines)))})
=============================================================================
