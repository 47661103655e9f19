--------------------------- MODULE AtomicCheckout ---------------------------
(* What a checkout promises: it ends with an order, its stock and its use of *)
(* the voucher, or with none of the three. Only a fault, that is a crash, an *)
(* answer lost after the database has committed, or a compensation that       *)
(* fails, may leave a part behind. Once a checkout has ended nothing changes  *)
(* what it left.                                                             *)
CONSTANT Buyers

VARIABLES
    outcome,    \* open while the checkout runs
    faulty      \* the checkouts that met a fault

vars == <<outcome, faulty>>

TypeOK ==
    /\ outcome \in [Buyers -> {"open", "placed", "nothing", "part"}]
    /\ faulty \subseteq Buyers

Init ==
    /\ outcome = [r \in Buyers |-> "open"]
    /\ faulty = {}

Step(r) ==
    /\ outcome[r] = "open"
    /\ faulty' \in {faulty, faulty \cup {r}}
    /\ \E o \in {"open", "placed", "nothing", "part"} :
          /\ o = "part" => r \in faulty'
          /\ outcome' = [outcome EXCEPT ![r] = o]

Next == \E r \in Buyers : Step(r)

Spec == Init /\ [][Next]_vars
=============================================================================
