------------------------------- MODULE MCShop -------------------------------
(* Three modules that share no state, so a behaviour moves one of them,    *)
(* the focus: the states are those of each module and not their product.   *)
(*                                                                         *)
(* The catalogue is looked at twice: with one upload and everything else,  *)
(* and with all uploads but only with books and pictures ("pictures"),     *)
(* where a deletion may fail at any step but not for an item of the book.  *)
EXTENDS Catalogue, Carts, Listing, TLC

CONSTANTS b1, b2, l1, q1, a1, a2, t1, t2

VARIABLE focus

MCBook == {b1}
MCLabel == {l1}
MCPromotion == {q1}
MCAdmin == {a1, a2}
FewUploads == 1

MCTitle == {b1, b2}
MCTab == {t1, t2}
MCPrice == (b1 :> 101) @@ (b2 :> 3)
MCRates == {15, 33}

\* One of each kind, larger and smaller than the orders; the last is one that
\* validateDiscountRule does not let into the table.
MCOffers == {[type |-> "FIXED_AMOUNT", value |-> 150, max |-> 0],
             [type |-> "PERCENTAGE", value |-> 50, max |-> 20],
             [type |-> "PERCENTAGE", value |-> 150, max |-> 0]}
MCVoucherChoices == {NoVoucher} \cup {v \in MCOffers : VoucherAllowed(v)}

Symmetry == Permutations({a1, a2}) \cup Permutations({t1, t2})

\* Three pages of two rows; two pages where ties turn, and rows also change. One
\* row changes, as often as it may, and two change places over a border.
MaxTouched == 1
MaxTurned == 2
RowBound == IF list.byCursor THEN Ids ELSE IF list.moves \/ list.filters THEN 3 ELSE 4

Foci == {"catalogue", "pictures", "carts", "listing"}

MCInit ==
    /\ focus \in Foci
    /\ CatalogueInit
    /\ CartInit
    /\ ListingInit
    /\ focus # "listing" => created = 0 /\ list = CHOOSE l \in Lists : TRUE
    /\ created <= RowBound

MCNext ==
    /\ UNCHANGED focus
    /\ \/ focus = "catalogue" /\ CatalogueNext /\ uploads' <= FewUploads
          /\ UNCHANGED <<cartVars, listingVars>>
       \/ focus = "pictures" /\ CatalogueNext /\ UNCHANGED <<linked, shop>>
          /\ UNCHANGED <<cartVars, listingVars>>
       \/ focus = "carts" /\ CartNext /\ UNCHANGED <<catalogueVars, listingVars>>
       \/ focus = "listing" /\ ListingNext /\ created' <= RowBound
          /\ Cardinality(touched') <= MaxTouched /\ Cardinality(turned') <= MaxTurned
          /\ UNCHANGED <<catalogueVars, cartVars>>

MCSpec == MCInit /\ [][MCNext]_<<focus, catalogueVars, cartVars, listingVars>>

\* The type of the module in focus, and with it the foreign keys: links, image
\* rows, cart items and reviews refer to rows that exist.
TypeOK ==
    /\ focus \in {"catalogue", "pictures"} => CatalogueTypeOK
    /\ focus = "carts" => CartTypeOK
    /\ focus = "listing" => ListingTypeOK
=============================================================================
