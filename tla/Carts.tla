-------------------------------- MODULE Carts --------------------------------
(***************************************************************************)
(* One customer's cart, used from several tabs, and the checkouts that     *)
(* read it. A checkout takes the selected rows as they are when it reads   *)
(* them, looks the promotions up, runs the saga (module Checkout) and,     *)
(* when the order stands, the listener of order.created deletes the rows   *)
(* it read, by their ids. Nothing locks the cart meanwhile.                *)
(*                                                                         *)
(* A row is its id and its quantity. An upsert is what Prisma makes of it  *)
(* on MySQL: a SELECT, then an INSERT that may hit the unique key or an    *)
(* UPDATE.                                                                 *)
(***************************************************************************)
EXTENDS Pricing

CONSTANTS
    Title,          \* the books
    Tab,            \* requests in progress at a time
    Price,          \* the price of each book
    Rates,          \* the rates promotions may have
    VoucherChoices, \* the vouchers a checkout may come with
    MaxUnits,       \* bound on the quantity of a row
    MaxRows         \* bound on the rows ever created

ASSUME CartAssumption == MaxUnits \in Nat \ {0} /\ MaxRows \in Nat

\* What the validation of books, promotions and vouchers lets in. A promotion
\* and a voucher take at most everything.
ASSUME PriceAssumption ==
    /\ IsFiniteSet(Title)
    /\ Price \in [Title -> Nat]
    /\ Rates \subseteq 1..100
    /\ \A v \in VoucherChoices : v.value \in Nat /\ v.max \in Nat

VARIABLES
    cart,           \* is there a cart row
    item,           \* per book: its cartitem row, id 0 when there is none
    rowIds,         \* ids given so far
    tab,            \* what each tab is doing
    balance,        \* units added, less units removed and units bought (history)
    raced           \* books whose row changed, or was ordered twice, while a
                    \* checkout had it (history)

cartVars == <<cart, item, rowIds, tab, balance, raced>>

NoRow == [id |-> 0, quantity |-> 0]
IdleTab == [pc |-> "idle", title |-> "none", units |-> 0, id |-> 0,
            lines |-> << >>, voucher |-> NoVoucher]

CartInit ==
    /\ cart = FALSE
    /\ item = [b \in Title |-> NoRow]
    /\ rowIds = 0
    /\ tab = [t \in Tab |-> IdleTab]
    /\ balance = [b \in Title |-> 0]
    /\ raced = {}

Tabs(t, pc) == tab[t].pc = pc
Closes(t) == tab' = [tab EXCEPT ![t] = IdleTab]
Row(b) == item[b].id # 0

\* Some checkout has read the row of b that is there now, and it has not been
\* cleaned up yet.
Held(b) ==
    \E t \in Tab :
        /\ tab[t].pc \in {"ordering", "placed"}
        /\ b \in DOMAIN tab[t].lines

\* The rows of S change, and the balance becomes new; a raced book has none.
Track(S, new) ==
    /\ raced' = raced \cup {b \in S : Held(b)}
    /\ balance' = [b \in Title |-> IF b \in raced' THEN 0 ELSE new[b]]

-----------------------------------------------------------------------------
(* addItemToCart.                                                          *)

Add(t, b, n) ==
    /\ Tabs(t, "idle")
    /\ tab' = [tab EXCEPT ![t] = [IdleTab EXCEPT !.pc = IF cart THEN "find" ELSE "create cart",
                                                 !.title = b, !.units = n]]
    /\ UNCHANGED <<cart, item, rowIds, balance, raced>>

\* userId is unique: the second of two carts is an error.
CreateCart(t) ==
    /\ Tabs(t, "create cart")
    /\ cart' = TRUE
    /\ IF cart THEN Closes(t) ELSE tab' = [tab EXCEPT ![t].pc = "find"]
    /\ UNCHANGED <<item, rowIds, balance, raced>>

FindRow(t) ==
    /\ Tabs(t, "find")
    /\ tab' = [tab EXCEPT ![t].id = item[tab[t].title].id, ![t].pc = "add"]
    /\ UNCHANGED <<cart, item, rowIds, balance, raced>>

\* Mutant: the quantity is written, not incremented.
AddUnits_Absolute(t) ==
    /\ Tabs(t, "add")
    /\ LET b == tab[t].title
       IN  /\ Row(b) /\ item[b].id = tab[t].id
           /\ item' = [item EXCEPT ![b].quantity = tab[t].units]
           /\ Track({b}, [balance EXCEPT ![b] = @ + tab[t].units])
    /\ Closes(t)
    /\ UNCHANGED <<cart, rowIds>>

\* quantity = quantity + n on the row that was found.
AddUnits(t) ==
    /\ Tabs(t, "add")
    /\ LET b == tab[t].title
       IN  /\ Row(b) /\ item[b].id = tab[t].id
           /\ item[b].quantity + tab[t].units <= MaxUnits
           /\ item' = [item EXCEPT ![b].quantity = @ + tab[t].units]
           /\ Track({b}, [balance EXCEPT ![b] = @ + tab[t].units])
    /\ Closes(t)
    /\ UNCHANGED <<cart, rowIds>>

AddRow(t) ==
    /\ Tabs(t, "add")
    /\ tab[t].id = 0
    /\ LET b == tab[t].title
       IN  /\ ~Row(b)
           /\ rowIds < MaxRows
           /\ item' = [item EXCEPT ![b] = [id |-> rowIds + 1, quantity |-> tab[t].units]]
           /\ Track({b}, [balance EXCEPT ![b] = @ + tab[t].units])
    /\ rowIds' = rowIds + 1
    /\ Closes(t)
    /\ UNCHANGED cart

\* The row found has gone, or one has appeared: an error, and nothing is added.
AddFails(t) ==
    /\ Tabs(t, "add")
    /\ tab[t].id # item[tab[t].title].id
    /\ Closes(t)
    /\ UNCHANGED <<cart, item, rowIds, balance, raced>>

-----------------------------------------------------------------------------
(* updateItem, removeCartItem, deleteMany.                                 *)

Change(t, b, n) ==
    /\ Tabs(t, "idle")
    /\ Row(b)
    /\ tab' = [tab EXCEPT ![t] = [IdleTab EXCEPT !.pc = "change", !.title = b,
                                                 !.units = n, !.id = item[b].id]]
    /\ UNCHANGED <<cart, item, rowIds, balance, raced>>

\* By id: when the row has gone the update fails.
ChangeWrites(t) ==
    /\ Tabs(t, "change")
    /\ LET b == tab[t].title
       IN  IF Row(b) /\ item[b].id = tab[t].id
           THEN /\ item' = [item EXCEPT ![b].quantity = tab[t].units]
                /\ Track({b}, [balance EXCEPT ![b] = @ + tab[t].units - item[b].quantity])
           ELSE UNCHANGED <<item, balance, raced>>
    /\ Closes(t)
    /\ UNCHANGED <<cart, rowIds>>

RemoveItems(S) ==
    /\ S # {} /\ \A b \in S : Row(b)
    /\ item' = [b \in Title |-> IF b \in S THEN NoRow ELSE item[b]]
    /\ Track(S, [b \in Title |-> balance[b] - IF b \in S THEN item[b].quantity ELSE 0])
    /\ UNCHANGED <<cart, rowIds, tab>>

-----------------------------------------------------------------------------
(* createOrder, as far as it reads the cart and counts money.              *)

\* findPromotionsActive: any set of promotions may run for each of the books.
ActivePromotions(S) == [S -> SUBSET Rates]

\* findUserCarts, and the rows of the cart that were selected; then
\* promotionLookup.
Checkout(t, S) ==
    /\ Tabs(t, "idle")
    /\ S # {} /\ \A b \in S : Row(b)
    /\ \E running \in ActivePromotions(S), v \in VoucherChoices :
          tab' = [tab EXCEPT ![t] = [IdleTab EXCEPT
                     !.pc = "ordering",
                     !.voucher = v,
                     !.lines = [b \in S |-> [id |-> item[b].id, quantity |-> item[b].quantity,
                                             price |-> Price[b], rate |-> BestRate(running[b])]]]]
    /\ Track(S, balance)
    /\ UNCHANGED <<cart, item, rowIds>>

\* An empty cart is created by the read, and refused.
CheckoutEmpty(t) ==
    /\ Tabs(t, "idle")
    /\ \A b \in Title : ~Row(b)
    /\ cart' = TRUE
    /\ UNCHANGED <<item, rowIds, tab, balance, raced>>

\* The saga has written the order, and order.created is emitted with the ids of
\* the rows. The prices are not needed any more.
CheckoutPlaces(t) ==
    /\ Tabs(t, "ordering")
    /\ LET L == tab[t].lines
       IN  /\ Track({}, [b \in Title |-> balance[b] - IF b \in DOMAIN L THEN L[b].quantity ELSE 0])
           /\ tab' = [tab EXCEPT ![t].pc = "placed", ![t].voucher = NoVoucher,
                     ![t].lines = [b \in DOMAIN L |-> [L[b] EXCEPT !.price = 0, !.rate = 0]]]
    /\ UNCHANGED <<cart, item, rowIds>>

\* Out of stock, voucher refused, address unknown, or an error.
CheckoutFails(t) ==
    /\ Tabs(t, "ordering")
    /\ Closes(t)
    /\ UNCHANGED <<cart, item, rowIds, balance, raced>>

\* Mutant: the listener clears the cart.
Clean_Everything(t) ==
    /\ Tabs(t, "placed")
    /\ item' = [b \in Title |-> NoRow]
    /\ Closes(t)
    /\ UNCHANGED <<cart, rowIds, balance, raced>>

\* removeManyCartItems of the listener.
Clean(t) ==
    /\ Tabs(t, "placed")
    /\ LET ids == {tab[t].lines[b].id : b \in DOMAIN tab[t].lines}
       IN  item' = [b \in Title |-> IF item[b].id \in ids THEN NoRow ELSE item[b]]
    /\ Closes(t)
    /\ UNCHANGED <<cart, rowIds, balance, raced>>

\* The listener's error is logged, or the process dies before it ran: what was
\* bought stays in the cart.
CleanFails(t) ==
    /\ Tabs(t, "placed")
    /\ Track(DOMAIN tab[t].lines, balance)
    /\ Closes(t)
    /\ UNCHANGED <<cart, item, rowIds>>

CartNext ==
    \/ \E t \in Tab :
          \/ \E b \in Title : Add(t, b, 1) \/ \E n \in 1..MaxUnits : Change(t, b, n)
          \/ CreateCart(t) \/ FindRow(t) \/ AddUnits(t) \/ AddRow(t) \/ AddFails(t)
          \/ ChangeWrites(t)
          \/ \E S \in SUBSET Title : Checkout(t, S)
          \/ CheckoutEmpty(t) \/ CheckoutPlaces(t) \/ CheckoutFails(t)
          \/ Clean(t) \/ CleanFails(t)
    \/ \E S \in SUBSET Title : RemoveItems(S)

-----------------------------------------------------------------------------
CartTypeOK ==
    /\ cart \in BOOLEAN
    /\ item \in [Title -> [id : 0..rowIds, quantity : 0..MaxUnits]]
    /\ \A b \in Title : Row(b) => cart /\ item[b].quantity > 0
    /\ rowIds \in 0..MaxRows
    /\ balance \in [Title -> Int]
    /\ raced \subseteq Title

Placed(b) ==
    LET T == {t \in Tab : Tabs(t, "placed") /\ b \in DOMAIN tab[t].lines}
    IN  MapThenSumSet(LAMBDA t : tab[t].lines[b].quantity, T)

\* No unit a customer has put into the cart gets lost, and none comes back:
\* what is in the cart is what was added and neither removed nor bought, from
\* the order's insertion to the clean-up with the bought ones on top. The
\* exceptions are the books whose row changed, or was taken by a second
\* checkout, while a checkout had read it: the listener deletes the whole row.
UnitsAccounted ==
    \A b \in Title \ raced : item[b].quantity = balance[b] + Placed(b)

\* An order never costs less than nothing: the discounts together never exceed
\* the subtotal, whatever promotions and voucher, so that the record's
\* Math.max(0, ...) never changes an amount. And a line costs what the window
\* showed, rounded up to a whole dong.
OrderAmounts ==
    \A t \in Tab :
        Tabs(t, "ordering") =>
            LET lines == tab[t].lines
                v == tab[t].voucher
            IN  /\ OrderTotal(lines, v) = Subtotal(lines) - PromotionDiscount(lines)
                                          - VoucherDiscount(v, VoucherAmount(lines))
                /\ VoucherDiscount(v, VoucherAmount(lines)) >= 0
                /\ \A b \in DOMAIN lines :
                      LET l == lines[b]
                          over == 100 * LineTotal(l.price, l.quantity, l.rate)
                                  - l.quantity * ShownHundredths(l.price, l.rate)
                      IN  0 <= over /\ over < 100
=============================================================================
