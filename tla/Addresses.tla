----------------------------- MODULE Addresses -----------------------------
(***************************************************************************)
(* Delivery addresses. A row names a province, a district and a ward; the  *)
(* first two are foreign keys, the ward is a code of GHN that no table     *)
(* knows. Whoever shows a row asks GHN for the wards of its district and   *)
(* fails on a row whose ward is not among them: one such row and the whole *)
(* list of the customer, and every order to it, is refused.                *)
(*                                                                         *)
(* Names, phones and isDefault are left out: they are stored as they are   *)
(* sent. GHN's division of the country does not change here.               *)
(***************************************************************************)
EXTENDS FiniteSets

CONSTANTS
    AddressId,
    Edit,           \* updates and checkouts in progress at a time
    Ward,
    DistrictOf,     \* of each ward, GHN
    ProvinceOf      \* of each district, table district

VARIABLES address, edit, shipTo

addressVars == <<address, edit, shipTo>>

Provinces == {ProvinceOf[d] : d \in DOMAIN ProvinceOf}
Place == [province : Provinces, district : DOMAIN ProvinceOf, ward : Ward]
NoPlace == [province |-> "none", district |-> "none", ward |-> "none"]

\* findProvinceById, findDistrictById and resolveWardFromApi.
Resolves(p) ==
    /\ ProvinceOf[p.district] = p.province
    /\ DistrictOf[p.ward] = p.district

NoEdit == [pc |-> "idle", id |-> "none", sent |-> NoPlace, place |-> NoPlace]

AddressesInit ==
    /\ address = [a \in AddressId |-> NoPlace]
    /\ edit = [e \in Edit |-> NoEdit]
    /\ shipTo = {}

There(a) == address[a] # NoPlace

\* The list of the customer, the administrator's and every single row: the wards
\* of the districts are fetched, and one that is not found is an error for all.
Shown == \A a \in AddressId : There(a) => Resolves(address[a])
Editing(e, pc) == edit[e].pc = pc
Finish(e) == edit' = [edit EXCEPT ![e] = NoEdit]

-----------------------------------------------------------------------------
Inserted(a, p) == [address EXCEPT ![a] = p]

CreateAddress(a, p) ==
    /\ ~There(a)
    /\ Resolves(p)
    /\ address' = Inserted(a, p)
    /\ UNCHANGED <<edit, shipTo>>

\* What the request does not send is taken from the row as it is read now.
Merged(old, sent) == [f \in DOMAIN old |-> IF f \in DOMAIN sent THEN sent[f] ELSE old[f]]

\* The row is read and what it will be is checked, with up to three awaits;
\* the request goes on when it is a place.
UpdateAddress(e, a, sent) ==
    /\ Editing(e, "idle")
    /\ There(a)
    /\ LET next == Merged(address[a], sent)
       IN  /\ Resolves(next)
           /\ edit' = [edit EXCEPT ![e] = [pc |-> "write", id |-> a, sent |-> sent,
                                           place |-> next]]
    /\ UNCHANGED <<address, shipTo>>

\* Mutant: only what was sent is written.
WriteAddress_OnlySent(e) ==
    /\ Editing(e, "write")
    /\ LET a == edit[e].id
       IN  address' = IF There(a)
                      THEN [address EXCEPT ![a] = Merged(address[a], edit[e].sent)]
                      ELSE address
    /\ Finish(e)
    /\ UNCHANGED shipTo

\* All three columns, sent or not; a row removed meanwhile is an error.
WriteAddress(e) ==
    /\ Editing(e, "write")
    /\ LET a == edit[e].id
       IN  address' = IF There(a) THEN [address EXCEPT ![a] = edit[e].place] ELSE address
    /\ Finish(e)
    /\ UNCHANGED shipTo

RemoveAddress(a) ==
    /\ There(a)
    /\ address' = [address EXCEPT ![a] = NoPlace]
    /\ UNCHANGED <<edit, shipTo>>

\* createOrder reads the row, and fails if GHN does not know it.
ReadForOrder(e, a) ==
    /\ Editing(e, "idle")
    /\ There(a)
    /\ Resolves(address[a])
    /\ edit' = [edit EXCEPT ![e] = [NoEdit EXCEPT !.pc = "order", !.place = address[a]]]
    /\ UNCHANGED <<address, shipTo>>

\* The order record keeps the place that was read, and the parcel goes there.
RecordOrder(e) ==
    /\ Editing(e, "order")
    /\ shipTo' = shipTo \cup {edit[e].place}
    /\ Finish(e)
    /\ UNCHANGED address

EditFails(e) ==
    /\ ~Editing(e, "idle")
    /\ Finish(e)
    /\ UNCHANGED <<address, shipTo>>

AddressesNext ==
    \/ \E a \in AddressId :
          \/ \E p \in Place : CreateAddress(a, p)
          \/ RemoveAddress(a)
          \/ \E e \in Edit :
                \/ \E fields \in SUBSET {"province", "district", "ward"} :
                   \E sent \in {[f \in fields |-> p[f]] : p \in Place} :
                      UpdateAddress(e, a, sent)
                \/ ReadForOrder(e, a)
    \/ \E e \in Edit : WriteAddress(e) \/ RecordOrder(e) \/ EditFails(e)

AddressesSpec == AddressesInit /\ [][AddressesNext]_addressVars

-----------------------------------------------------------------------------
AddressesTypeOK ==
    /\ address \in [AddressId -> Place \cup {NoPlace}]
    /\ \A e \in Edit : /\ edit[e].pc \in {"idle", "write", "order"}
                       /\ edit[e].id \in AddressId \cup {"none"}
                       /\ edit[e].place \in Place \cup {NoPlace}
    /\ shipTo \subseteq Place

\* Every address stays one that GHN can deliver to, and the lists are shown,
\* however partial updates of the same row overlap: an update of the ward alone
\* and a move to another district never leave the ward of the one in the
\* district of the other. And no order is sent to such a place (updateForUser,
\* AddressRepository.update, findAllForUser).
AddressesResolve ==
    /\ Shown
    /\ \A p \in shipTo : Resolves(p)
=============================================================================
