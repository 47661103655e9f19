------------------------------ MODULE Checkout ------------------------------
(***************************************************************************)
(* POST /orders: the saga that takes a use of the voucher, takes the stock   *)
(* and records the order, and undoes in reverse order what it had done when  *)
(* a step fails.                                                            *)
(*                                                                         *)
(* The saga lives in the memory of the request. Its steps are separate       *)
(* database statements (Vouchers), one transaction (Inventory) and one       *)
(* insert, so the checkouts of several customers interleave at every step.   *)
(* A step whose answer is lost has happened, and is not undone: only steps   *)
(* that returned are on the list of executed steps. A compensation that      *)
(* fails is logged and passed over. A process that dies leaves everything    *)
(* where it was.                                                            *)
(***************************************************************************)
EXTENDS Integers, Sequences, FiniteSets

CONSTANTS
    Books, NoTx, InitQty, MaxEpoch,     \* of Inventory
    Vouchers, VoucherOf, Qualifying, Limits,    \* of Vouchers: the voucher a
                                        \* request names, if it names one
    Buyers,     \* the requests
    UserOf,     \* the customer behind each of them
    Items       \* what each of them buys: a sequence of [book, qty]

\* The two stock transactions a request may run.
Tx == Buyers \X {"reserve", "release"}

JobOf(t) == [lines |-> [i \in DOMAIN Items[t[1]] |->
                 [book |-> Items[t[1]][i].book,
                  change |-> IF t[2] = "reserve" THEN -Items[t[1]][i].qty
                                                 ELSE Items[t[1]][i].qty]],
              skipMissing |-> t[2] = "release"]
BooksOf(r) == {Items[r][i].book : i \in DOMAIN Items[r]}

VARIABLES
    rows, stock, epoch, logs, lock, clock, job, pc, line, snap, written, entry,
    row, used, limit, open, use, edits,
    stage,      \* where the request of each buyer is
    orders,     \* the buyers whose order is recorded
    faulty      \* history: the requests that met a crash, a lost answer or a
                \* failed compensation

stockVars   == <<rows, stock, epoch, logs, lock, clock, job, pc, line, snap, written, entry>>
voucherVars == <<row, used, limit, open, use, edits>>
vars        == <<stockVars, voucherVars, stage, orders, faulty>>

I == INSTANCE Inventory WITH Jobs <- {JobOf(t) : t \in Tx}
V == INSTANCE Vouchers WITH Uses <- Buyers

ASSUME CheckoutAssumption ==
    /\ IsFiniteSet(Buyers)
    /\ DOMAIN Items = Buyers
    /\ \A r \in Buyers : Items[r] \in Seq([book : Books, qty : Nat])
    /\ DOMAIN UserOf = Buyers
    /\ VoucherOf \in [Buyers -> Vouchers]
    /\ Qualifying \subseteq Buyers
    /\ Limits \subseteq Nat \ {0}
    /\ InitQty \subseteq Nat
    /\ MaxEpoch \in Nat
    /\ NoTx \notin Tx

Ended == {"done", "failed", "crashed"}
Stage == {"idle", "voucher", "reserve", "record", "undoStock", "undoVoucher"} \cup Ended

Init ==
    /\ I!InitTables
    /\ I!InitTx
    /\ job = [t \in Tx |-> JobOf(t)]
    /\ V!Init
    /\ stage = [r \in Buyers |-> "idle"]
    /\ orders = {}
    /\ faulty = {}

Go(r, s)  == stage' = [stage EXCEPT ![r] = s]
Fault(r)  == faulty' = faulty \cup {r}
NoFault   == UNCHANGED faulty

-----------------------------------------------------------------------------
\* Does r carry a voucher code. It is known once the voucher step has begun.
WithVoucher(r) == use[r] # "none"

\* One query reads the stock of all the books, before the saga starts; the
\* request may or may not carry a voucher code.
Precheck(r) ==
    /\ stage[r] = "idle"
    /\ IF \A i \in DOMAIN Items[r] : /\ Items[r][i].book \in rows
                                     /\ stock[Items[r][i].book] >= Items[r][i].qty
         THEN Go(r, "voucher") \/ Go(r, "reserve")
         ELSE Go(r, "failed")
    /\ NoFault
    /\ UNCHANGED <<stockVars, voucherVars, orders>>

\* Mutant: the error of the increment is only logged, as a release's error is.
ApplyVoucher_Lenient(r) ==
    /\ stage[r] = "voucher"
    /\ V!Check(r) \/ V!Refuse(r) \/ V!Increment(r) \/ V!IncrementFails(r)
    /\ Go(r, IF use'[r] = "checked" THEN "voucher" ELSE "reserve")
    /\ IF use'[r] = "lost" THEN Fault(r) ELSE NoFault
    /\ UNCHANGED <<stockVars, orders>>

\* ApplyVoucherStep. On an error no step has been executed: nothing to undo.
ApplyVoucher(r) ==
    /\ stage[r] = "voucher"
    /\ V!Check(r) \/ V!Refuse(r) \/ V!Increment(r) \/ V!IncrementFails(r)
    /\ Go(r, CASE use'[r] = "checked" -> "voucher"
               [] use'[r] = "held"    -> "reserve"
               [] OTHER               -> "failed")
    /\ IF use'[r] = "lost" THEN Fault(r) ELSE NoFault
    /\ UNCHANGED <<stockVars, orders>>

\* The transaction of ReserveInventoryStep, or of its compensation.
StockStep(r) ==
    /\ \/ stage[r] = "reserve" /\ (I!Begin(<<r, "reserve">>) \/ I!Step(<<r, "reserve">>))
       \/ stage[r] = "undoStock" /\ (I!Begin(<<r, "release">>) \/ I!Step(<<r, "release">>))
    /\ UNCHANGED <<voucherVars, stage, orders, faulty>>

\* Mutant: only the answer of a committed transaction is waited for.
Reserved_NoCatch(r) ==
    /\ stage[r] = "reserve"
    /\ pc[<<r, "reserve">>] = "committed"
    /\ \/ Go(r, "record") /\ NoFault
       \/ Go(r, "undoVoucher") /\ Fault(r)
    /\ UNCHANGED <<stockVars, voucherVars, orders>>

\* The answer of the transaction, or the loss of it.
Reserved(r) ==
    /\ stage[r] = "reserve"
    /\ \/ pc[<<r, "reserve">>] = "committed" /\ Go(r, "record") /\ NoFault
       \/ pc[<<r, "reserve">>] = "committed" /\ Go(r, "undoVoucher") /\ Fault(r)
       \/ pc[<<r, "reserve">>] = "failed" /\ Go(r, "undoVoucher") /\ NoFault
    /\ UNCHANGED <<stockVars, voucherVars, orders>>

\* INSERT of the order: its voucher must exist, and (userId, voucherId) is
\* unique. The answer of a committed insert may be lost.
CreateOrderRecord(r) ==
    /\ stage[r] = "record"
    /\ WithVoucher(r) =>
          /\ V!Present(VoucherOf[r])
          /\ \A o \in orders : WithVoucher(o) /\ UserOf[o] = UserOf[r]
                                 => VoucherOf[o] # VoucherOf[r]
    /\ orders' = orders \cup {r}
    /\ \/ Go(r, "done") /\ NoFault
       \/ Go(r, "undoStock") /\ Fault(r)
    /\ UNCHANGED <<stockVars, voucherVars>>

\* Mutant: the saga forgets that the stock step was executed.
CreateOrderFails_KeepsStock(r) ==
    /\ stage[r] = "record"
    /\ Go(r, "undoVoucher")
    /\ NoFault
    /\ UNCHANGED <<stockVars, voucherVars, orders>>

\* One of the two constraints, or any other error of the database.
CreateOrderFails(r) ==
    /\ stage[r] = "record"
    /\ Go(r, "undoStock")
    /\ NoFault
    /\ UNCHANGED <<stockVars, voucherVars, orders>>

\* Mutant: a stage the saga does not know.
Restocked_Unknown(r) ==
    /\ stage[r] = "undoStock"
    /\ pc[<<r, "release">>] \in {"committed", "failed"}
    /\ Go(r, "undone")
    /\ NoFault
    /\ UNCHANGED <<stockVars, voucherVars, orders>>

\* The stock is back, or the error has been logged.
Restocked(r) ==
    /\ stage[r] = "undoStock"
    /\ \/ pc[<<r, "release">>] = "committed" /\ NoFault
       \/ pc[<<r, "release">>] = "failed" /\ Fault(r)
    /\ Go(r, "undoVoucher")
    /\ UNCHANGED <<stockVars, voucherVars, orders>>

\* The last compensation; the request then answers with the error.
GiveVoucherBack(r) ==
    /\ stage[r] = "undoVoucher"
    /\ IF WithVoucher(r)
         THEN \/ V!Release(r) /\ NoFault
              \/ V!ReleaseFails(r) /\ Fault(r)
         ELSE UNCHANGED voucherVars /\ NoFault
    /\ Go(r, "failed")
    /\ UNCHANGED <<stockVars, orders>>

\* The database ends a transaction: a deadlock, a time-out, a lost client.
StockAborted(r) ==
    /\ \E k \in {"reserve", "release"} :
          I!DeadlockVictim(<<r, k>>) \/ I!Abort(<<r, k>>)
    /\ UNCHANGED <<voucherVars, stage, orders, faulty>>

\* The process dies between two steps, or inside the stock transaction.
Crash(r) ==
    /\ stage[r] \notin Ended \cup {"idle"}
    /\ Go(r, "crashed")
    /\ Fault(r)
    /\ UNCHANGED <<stockVars, voucherVars, orders>>

\* The admin deletes a voucher meanwhile. (New limits and dates only decide
\* between acceptance and refusal; the module Vouchers has them.)
VoucherDeleted ==
    /\ \E v \in Vouchers : V!Delete(v)
    /\ UNCHANGED <<stockVars, stage, orders, faulty>>

Progress(r) ==
    \/ ApplyVoucher(r) \/ StockStep(r) \/ Reserved(r)
    \/ CreateOrderRecord(r) \/ CreateOrderFails(r)
    \/ Restocked(r) \/ GiveVoucherBack(r)

Next ==
    \/ \E r \in Buyers : Precheck(r) \/ Progress(r) \/ StockAborted(r) \/ Crash(r)
    \/ VoucherDeleted

\* A request that runs goes on; the database breaks deadlocks and rolls back
\* the transaction of a client that is gone.
DatabaseCleansUp(r) ==
    /\ \E k \in {"reserve", "release"} :
          I!DeadlockVictim(<<r, k>>) \/ (stage[r] = "crashed" /\ I!Abort(<<r, k>>))
    /\ UNCHANGED <<voucherVars, stage, orders, faulty>>

Fairness == \A r \in Buyers : WF_vars(Progress(r)) /\ WF_vars(DatabaseCleansUp(r))

Spec == Init /\ [][Next]_vars
FairSpec == Spec /\ Fairness

-----------------------------------------------------------------------------
TypeOK ==
    /\ I!TypeOK
    /\ V!TypeOK
    /\ stage \in [Buyers -> Stage]
    /\ orders \subseteq Buyers
    /\ faulty \subseteq Buyers

\* Every order with a voucher is behind one of the uses counted for it, unless
\* its own request met a fault: double-clicking customers, refused inserts
\* and rollbacks never leave a discounted order that no use was counted for.
UsesCoverOrders ==
    \A v \in Vouchers :
        Cardinality({o \in orders : WithVoucher(o) /\ VoucherOf[o] = v /\ o \notin faulty}) <= used[v]

\* What a request has left behind, read off the tables.
Logged(t) == {b \in Books : \E i \in DOMAIN logs[b] : logs[b][i].by = t}
HoldsUse(r) == use[r] \in {"held", "lost", "kept"}

outcome ==
    [r \in Buyers |->
        IF stage[r] \notin Ended \/ \E k \in {"reserve", "release"} : I!Active(<<r, k>>)
          THEN "open"
        ELSE IF /\ r \in orders
                /\ Logged(<<r, "reserve">>) = BooksOf(r)
                /\ Logged(<<r, "release">>) = {}
                /\ use[r] \in {"none", "held"}
          THEN "placed"
        ELSE IF /\ r \notin orders
                /\ Logged(<<r, "reserve">>) = Logged(<<r, "release">>)
                /\ ~HoldsUse(r)
          THEN "nothing"
        ELSE "part"]

A == INSTANCE AtomicCheckout

\* A checkout is all or nothing unless it meets a fault, and what it leaves
\* stays: the saga implements the atomic checkout.
ImplementsAtomicCheckout == A!Spec

\* Every checkout that has started comes to an end, although two of them may
\* lock the same books in opposite orders and a third may die holding a lock.
EveryCheckoutEnds ==
    \A r \in Buyers : (stage[r] # "idle") ~> (stage[r] \in Ended)
=============================================================================
