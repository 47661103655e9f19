----------------------------- MODULE MCInventory -----------------------------
(* Two transactions over two books: orders that touch the same books in      *)
(* opposite orders, a release, a restock and the admin's entries.             *)
EXTENDS Inventory

CONSTANTS b1, b2, t1, t2

Item(b, n) == [book |-> b, qty |-> n]

MCBooks == {b1, b2}
MCTx == {t1, t2}
MCJobs == {
    Reserve(<<Item(b1, 1), Item(b2, 2)>>),
    Reserve(<<Item(b2, 1), Item(b1, 1)>>),
    Release(<<Item(b1, 1), Item(b2, 1)>>),
    Restock(<<Item(b2, 1), Item(b1, 2)>>),
    StockIn(b1, 2),
    StockOut(b1, 1),
    Adjust(b2, -1)}
MCInitQty == {2}

\* Two orders for the last copies.
MCLastCopies == {Reserve(<<Item(b1, 2)>>)}
=============================================================================
