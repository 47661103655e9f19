---------------------------- MODULE OrdersProofs ----------------------------
(***************************************************************************)
(* What holds of an order for any number of requests, webhook calls and    *)
(* parcels.                                                                *)
(*                                                                         *)
(* A request writes what it read earlier, so every invariant here says     *)
(* something of the requests that are under way: what a confirmation, a    *)
(* return and a webhook may still write, and that of two webhooks which    *)
(* both believe the order is not cancelled one has set overlap.            *)
(***************************************************************************)
EXTENDS Orders, TLAPS

Hooking == {"hook", "hookCancel"}

\* What a request under way may still do to the order has a parcel behind it.
ReadyToConfirm ==
    \A q \in Requests :
        /\ pc[q] = "confirming" => /\ seen[q].parcel \in Parcels
                                   /\ phase[seen[q].parcel] # "none"
        /\ pc[q] \in Hooking => shipment # None
        /\ pc[q] = "returning" => shipment # None \/ overwritten

\* How many restocks the webhooks may have made, and the one in its
\* transaction may still make.
RestocksInOrder ==
    ~overlap =>
        /\ hookRestocks <= 1 + reopened
        /\ status # "CANCELLED" => hookRestocks <= reopened
        /\ \A q \in Requests :
              pc[q] = "hookCancel" /\ seen[q].status # "CANCELLED" => hookRestocks <= reopened
        /\ \A q, r \in Requests : pc[q] = "hookCancel" /\ pc[r] = "hookCancel" => q = r

IInv ==
    /\ TypeOK
    /\ StatusNeedsShipment
    /\ ReadyToConfirm
    /\ SoldFollowsStock
    /\ RestocksInOrder

-----------------------------------------------------------------------------
Place == {"idle", "asking", "confirming", "cancelling", "returning", "hook", "hookCancel",
          "ended"}
Sight == [parcel : Parcels \cup {None}, shipped : BOOLEAN, delivered : Date, status : Status]

LEMMA BlankTyped == NothingSeen \in Sight
  BY DEF NothingSeen, Sight, Date, Status

\* A request that moves, and what it has seen.
LEMMA PlacesKept ==
  ASSUME TypeOK, NEW q \in Requests, NEW from \in Place, NEW to \in Place, Goes(q, from, to)
  PROVE  /\ pc[q] = from
         /\ pc' \in [Requests -> Place]
         /\ \A r \in Requests : pc'[r] = IF r = q THEN to ELSE pc[r]
  BY DEF TypeOK, Goes, Place

LEMMA EndsIs ==
  ASSUME TypeOK, NEW q \in Requests, NEW from \in Place, Ends(q, from)
  PROVE  /\ pc[q] = from
         /\ pc' \in [Requests -> Place] /\ seen' \in [Requests -> Sight]
         /\ \A r \in Requests : pc'[r] = IF r = q THEN "ended" ELSE pc[r]
         /\ \A r \in Requests : seen'[r] = IF r = q THEN NothingSeen ELSE seen[r]
  <1>1. Goes(q, from, "ended") /\ seen' = [seen EXCEPT ![q] = NothingSeen]
    BY DEF Ends
  <1>2. "ended" \in Place
    BY DEF Place
  <1>3. seen \in [Requests -> Sight]
    BY DEF TypeOK, Sight
  <1>4. seen' \in [Requests -> Sight]
    BY <1>1, <1>3, BlankTyped
  <1>5. QED
    BY <1>1, <1>2, <1>3, <1>4, PlacesKept

LEMMA SetStatusIs ==
  ASSUME TypeOK, NEW s \in Status, SetStatus(s)
  PROVE  /\ status' = s /\ reopened' \in Nat /\ reopened' >= reopened
         /\ status = "CANCELLED" /\ s # "CANCELLED" => reopened' = reopened + 1
         /\ s = "CANCELLED" \/ status # "CANCELLED" => reopened' = reopened
  BY DEF TypeOK, SetStatus

LEMMA InitIInv == Init => IInv
  <1> SUFFICES ASSUME Init PROVE IInv
    OBVIOUS
  <1> USE DEF Init
  <1>1. TypeOK
    <2>1. shipped \in BOOLEAN /\ overwritten \in BOOLEAN /\ overlap \in BOOLEAN
          /\ eventLost \in BOOLEAN
      OBVIOUS
    <2>2. seen \in [Requests -> Sight]
      BY BlankTyped
    <2> HIDE DEF Init
    <2>3. /\ status \in Status /\ returnDate \in Date /\ delivered \in Date
          /\ shipment \in Parcels \cup {None} /\ pc \in [Requests -> Place]
      BY DEF Init, Status, Date, Place
    <2>4. /\ restocks \in Nat /\ sold \in Int /\ reopened \in Nat /\ hookRestocks \in Nat
          /\ unstocked \in Nat
          /\ events \in [created : Nat, cancelled : Nat]
      BY DEF Init
    <2>5. /\ phase \in [Parcels -> {"none", "created", "shipped", "delivered", "cancelled",
                                   "returning"}]
          /\ sent \in [Parcels -> SUBSET {"created", "shipped", "delivered", "cancelled",
                                         "returning"}]
      BY DEF Init
    <2>6. QED
      BY <2>1, <2>2, <2>3, <2>4, <2>5 DEF TypeOK, Sight, Place
  <1>2. StatusNeedsShipment
    BY DEF StatusNeedsShipment
  <1>3. ReadyToConfirm
    BY DEF ReadyToConfirm, Hooking
  <1>4. SoldFollowsStock
    BY DEF SoldFollowsStock
  <1>5. RestocksInOrder
    BY DEF RestocksInOrder
  <1>6. QED
    BY <1>1, <1>2, <1>3, <1>4, <1>5 DEF IInv

-----------------------------------------------------------------------------
(* What a request that ends, and one that goes on, leave of the invariants. *)

LEMMA EndKeepsOthers ==
  ASSUME IInv, NEW q \in Requests, NEW from \in Place, Ends(q, from), UNCHANGED phase,
         shipment # None => shipment' # None, overwritten => overwritten'
  PROVE  ReadyToConfirm'
  <1>1. TypeOK /\ ReadyToConfirm
    BY DEF IInv
  <1>2. /\ \A r \in Requests : pc'[r] = IF r = q THEN "ended" ELSE pc[r]
        /\ \A r \in Requests : seen'[r] = IF r = q THEN NothingSeen ELSE seen[r]
    BY <1>1, EndsIs
  <1>3. QED
    BY <1>1, <1>2 DEF ReadyToConfirm, Hooking

LEMMA EndKeepsCount ==
  ASSUME IInv, NEW q \in Requests, NEW from \in Place, Ends(q, from),
         UNCHANGED <<hookRestocks, overlap>>, NEW s \in Status, SetStatus(s)
  PROVE  RestocksInOrder'
  <1>1. TypeOK /\ RestocksInOrder /\ hookRestocks \in Nat /\ reopened \in Nat
    BY DEF IInv, TypeOK
  <1>2. /\ \A r \in Requests : pc'[r] = IF r = q THEN "ended" ELSE pc[r]
        /\ \A r \in Requests : seen'[r] = IF r = q THEN NothingSeen ELSE seen[r]
    BY <1>1, EndsIs
  <1>3. /\ status' = s /\ reopened' \in Nat /\ reopened' >= reopened
        /\ status = "CANCELLED" /\ s # "CANCELLED" => reopened' = reopened + 1
        /\ s = "CANCELLED" \/ status # "CANCELLED" => reopened' = reopened
    BY <1>1, SetStatusIs
  <1>4. ASSUME ~overlap
        PROVE  /\ hookRestocks <= 1 + reopened'
               /\ status' # "CANCELLED" => hookRestocks <= reopened'
    <2>1. /\ hookRestocks <= 1 + reopened
          /\ status # "CANCELLED" => hookRestocks <= reopened
      BY <1>1, <1>4 DEF RestocksInOrder
    <2>2. CASE status = "CANCELLED" /\ s # "CANCELLED"
      BY <1>1, <1>3, <2>1, <2>2
    <2>3. CASE s = "CANCELLED"
      BY <1>1, <1>3, <2>1, <2>3
    <2>4. CASE status # "CANCELLED" /\ s # "CANCELLED"
      BY <1>1, <1>3, <2>1, <2>4
    <2>5. QED
      BY <2>2, <2>3, <2>4
  <1>5. ASSUME ~overlap, NEW r \in Requests, pc'[r] = "hookCancel", seen'[r].status # "CANCELLED"
        PROVE  hookRestocks <= reopened'
    BY <1>1, <1>2, <1>3, <1>5 DEF RestocksInOrder
  <1>6. ASSUME ~overlap, NEW r \in Requests, NEW p \in Requests,
               pc'[r] = "hookCancel", pc'[p] = "hookCancel"
        PROVE  r = p
    BY <1>1, <1>2, <1>6 DEF RestocksInOrder
  <1>7. QED
    BY <1>4, <1>5, <1>6 DEF RestocksInOrder

\* Nothing that the count of restocks depends on has changed but the places of
\* requests, and none has come into the transaction of a cancellation.
LEMMA CountKept ==
  ASSUME IInv, UNCHANGED <<status, reopened, hookRestocks, overlap>>,
         \A r \in Requests : pc'[r] = "hookCancel" =>
                                pc[r] = "hookCancel" /\ seen'[r].status = seen[r].status
  PROVE  RestocksInOrder'
  BY DEF IInv, RestocksInOrder

LEMMA SoldKept ==
  ASSUME IInv, UNCHANGED <<sold, events, restocks, unstocked, eventLost>>
  PROVE  SoldFollowsStock'
  BY DEF IInv, SoldFollowsStock

-----------------------------------------------------------------------------
(* The admin and the customer.                                             *)

\* A status written without restocks: by hand, by a second confirmation, by a
\* return.
LEMMA Writing ==
  ASSUME IInv, NEW q \in Requests, SetByHand(q) \/ ConfirmAgain(q) \/ ReturnCommit(q)
  PROVE  IInv'
  <1>1. TypeOK /\ ReadyToConfirm /\ StatusNeedsShipment
    BY DEF IInv
  <1>2. PICK from \in {"idle", "returning"} : Ends(q, from)
    BY DEF SetByHand, ConfirmAgain, ReturnCommit
  <1>3. from \in Place
    BY <1>2 DEF Place
  <1>4. PICK s \in Status : SetStatus(s)
    BY DEF SetByHand, ConfirmAgain, ReturnCommit, Status
  <1>5. /\ UNCHANGED <<shipmentVars, stockVars, soldVars, carrierVars>>
        /\ returnDate' \in {returnDate, "fresh"}
        /\ overwritten' \in BOOLEAN
        /\ overwritten => overwritten'
    BY <1>1 DEF SetByHand, ConfirmAgain, ReturnCommit, TypeOK
  <1>6. TypeOK'
    BY <1>1, <1>2, <1>3, <1>4, <1>5, EndsIs, SetStatusIs
       DEF TypeOK, Sight, Place, Date, shipmentVars, stockVars, soldVars, carrierVars
  <1>7. StatusNeedsShipment'
    <2>1. CASE SetByHand(q)
      BY <1>1, <1>5, <2>1 DEF SetByHand, SetStatus, StatusNeedsShipment, shipmentVars, carrierVars
    <2>2. CASE ConfirmAgain(q)
      BY <1>1, <1>5, <2>2 DEF ConfirmAgain, SetStatus, StatusNeedsShipment, shipmentVars, carrierVars
    <2>3. CASE ReturnCommit(q)
      <3>1. shipment # None \/ overwritten
        BY <1>1, <2>3 DEF ReturnCommit, Ends, Goes, ReadyToConfirm
      <3>2. QED
        BY <1>1, <1>5, <2>3, <3>1
           DEF ReturnCommit, SetStatus, StatusNeedsShipment, shipmentVars, carrierVars
    <2>4. QED
      BY <2>1, <2>2, <2>3
  <1>8. ReadyToConfirm'
    BY <1>2, <1>3, <1>5, EndKeepsOthers DEF shipmentVars, carrierVars
  <1>9. SoldFollowsStock'
    BY <1>5, SoldKept DEF soldVars, stockVars
  <1>10. RestocksInOrder'
    BY <1>2, <1>3, <1>4, <1>5, EndKeepsCount DEF stockVars
  <1>11. QED
    BY <1>6, <1>7, <1>8, <1>9, <1>10 DEF IInv

\* The requests that have only asked: a confirmation, a cancellation, a return.
LEMMA Asking ==
  ASSUME IInv, NEW q \in Requests, Confirm(q) \/ Cancel(q) \/ RequestReturn(q)
  PROVE  IInv'
  <1>1. TypeOK /\ ReadyToConfirm /\ StatusNeedsShipment
    BY DEF IInv
  <1>2. PICK to \in {"asking", "cancelling", "returning"} :
            /\ Goes(q, "idle", to)
            /\ to = "returning" => status = "DELIVERED"
    BY DEF Confirm, Cancel, RequestReturn
  <1>3. "idle" \in Place /\ to \in Place
    BY <1>2 DEF Place
  <1>4. /\ pc' \in [Requests -> Place]
        /\ \A r \in Requests : pc'[r] = IF r = q THEN to ELSE pc[r]
    BY <1>1, <1>2, <1>3, PlacesKept
  <1>5. UNCHANGED <<status, reopened, returnDate, shipmentVars, stockVars, soldVars, carrierVars,
                    seen, overwritten>>
    BY DEF Confirm, Cancel, RequestReturn, SameStatus
  <1>6. TypeOK'
    BY <1>1, <1>4, <1>5 DEF TypeOK, Place, shipmentVars, stockVars, soldVars, carrierVars
  <1>7. StatusNeedsShipment'
    BY <1>1, <1>5 DEF StatusNeedsShipment, shipmentVars, carrierVars
  <1>8. ReadyToConfirm'
    <2>1. to = "returning" => shipment # None \/ overwritten
      BY <1>1, <1>2 DEF StatusNeedsShipment
    <2>2. QED
      BY <1>1, <1>2, <1>4, <1>5, <2>1 DEF ReadyToConfirm, Hooking, shipmentVars, carrierVars
  <1>9. SoldFollowsStock'
    BY <1>5, SoldKept DEF soldVars, stockVars
  <1>10. RestocksInOrder'
    BY <1>2, <1>4, <1>5, CountKept DEF stockVars
  <1>11. QED
    BY <1>6, <1>7, <1>8, <1>9, <1>10 DEF IInv

\* The carrier has created a parcel, and the request may know it or not.
LEMMA Creating ==
  ASSUME IInv, NEW q \in Requests, CarrierCreates(q)
  PROVE  IInv'
  <1>1. /\ TypeOK /\ ReadyToConfirm /\ StatusNeedsShipment
        /\ pc \in [Requests -> Place] /\ seen \in [Requests -> Sight]
    BY DEF IInv, TypeOK, Place, Sight
  <1>2. PICK p \in Parcels :
            /\ phase[p] = "none"
            /\ phase' = [phase EXCEPT ![p] = "created"]
            /\ sent' = [sent EXCEPT ![p] = {"created"}]
            /\ \/ Goes(q, "asking", "confirming") /\ seen' = [seen EXCEPT ![q].parcel = p]
               \/ Ends(q, "asking")
    BY DEF CarrierCreates
  <1>3. UNCHANGED <<status, reopened, returnDate, shipmentVars, stockVars, soldVars, overwritten>>
    BY DEF CarrierCreates, SameStatus
  <1>4. /\ pc' \in [Requests -> Place] /\ seen' \in [Requests -> Sight]
        /\ pc'[q] \in {"confirming", "ended"}
        /\ pc'[q] = "confirming" => seen'[q].parcel = p
        /\ \A r \in Requests \ {q} : pc'[r] = pc[r] /\ seen'[r] = seen[r]
    <2>1. "asking" \in Place /\ "confirming" \in Place
      BY DEF Place
    <2>2. CASE Ends(q, "asking")
      BY <1>1, <2>1, <2>2, EndsIs
    <2>3. CASE Goes(q, "asking", "confirming") /\ seen' = [seen EXCEPT ![q].parcel = p]
      <3>1. seen' \in [Requests -> Sight] /\ seen'[q].parcel = p
        BY <1>1, <2>3 DEF Sight
      <3>2. \A r \in Requests \ {q} : seen'[r] = seen[r]
        BY <1>1, <2>3
      <3>3. QED
        BY <1>1, <2>1, <2>3, <3>1, <3>2, PlacesKept
    <2>4. QED
      BY <1>2, <2>2, <2>3
  <1>5. /\ phase' \in [Parcels -> {"none", "created", "shipped", "delivered", "cancelled",
                                    "returning"}]
        /\ sent' \in [Parcels -> SUBSET {"created", "shipped", "delivered", "cancelled",
                                         "returning"}]
        /\ \A i \in Parcels : phase[i] # "none" => phase'[i] # "none"
        /\ phase'[p] # "none"
    BY <1>1, <1>2 DEF TypeOK
  <1>6. TypeOK'
    BY <1>1, <1>3, <1>4, <1>5 DEF TypeOK, Place, Sight, shipmentVars, stockVars, soldVars
  <1>7. StatusNeedsShipment'
    BY <1>1, <1>3, <1>5 DEF StatusNeedsShipment, TypeOK, shipmentVars
  <1>8. ReadyToConfirm'
    BY <1>1, <1>3, <1>4, <1>5 DEF ReadyToConfirm, Hooking, shipmentVars
  <1>9. SoldFollowsStock'
    BY <1>3, SoldKept DEF soldVars, stockVars
  <1>10. RestocksInOrder'
    BY <1>3, <1>4, CountKept DEF stockVars
  <1>11. QED
    BY <1>6, <1>7, <1>8, <1>9, <1>10 DEF IInv

\* The transaction of a confirmation.
LEMMA Confirming ==
  ASSUME IInv, NEW q \in Requests, ConfirmCommit(q)
  PROVE  IInv'
  <1>1. TypeOK /\ ReadyToConfirm /\ StatusNeedsShipment
    BY DEF IInv
  <1>2. Ends(q, "confirming") /\ pc[q] = "confirming" /\ "confirming" \in Place
    BY DEF ConfirmCommit, Ends, Goes, Place
  <1>3. SetStatus("PROCESSING") /\ "PROCESSING" \in Status
    BY DEF ConfirmCommit, Status
  <1>4. shipment' \in Parcels /\ phase[shipment'] # "none" /\ shipment' # None
    BY <1>1, <1>2, OrdersAssumption DEF ConfirmCommit, ReadyToConfirm
  <1>5. UNCHANGED <<returnDate, shipped, delivered, stockVars, soldVars, carrierVars, overwritten>>
    BY DEF ConfirmCommit
  <1>6. TypeOK'
    BY <1>1, <1>2, <1>3, <1>4, <1>5, EndsIs, SetStatusIs
       DEF TypeOK, Sight, Place, stockVars, soldVars, carrierVars
  <1>7. StatusNeedsShipment'
    BY <1>4, <1>5 DEF StatusNeedsShipment, carrierVars
  <1>8. ReadyToConfirm'
    BY <1>2, <1>4, <1>5, EndKeepsOthers DEF carrierVars
  <1>9. SoldFollowsStock'
    BY <1>5, SoldKept DEF soldVars, stockVars
  <1>10. RestocksInOrder'
    BY <1>2, <1>3, <1>5, EndKeepsCount DEF stockVars
  <1>11. QED
    BY <1>6, <1>7, <1>8, <1>9, <1>10 DEF IInv

\* The transaction of a cancellation by customer or admin.
LEMMA Cancelling ==
  ASSUME IInv, NEW q \in Requests, CancelCommit(q)
  PROVE  IInv'
  <1>1. TypeOK /\ ReadyToConfirm /\ StatusNeedsShipment /\ SoldFollowsStock
    BY DEF IInv
  <1>2. Ends(q, "cancelling") /\ "cancelling" \in Place
    BY DEF CancelCommit, Place
  <1>3. SetStatus("CANCELLED") /\ "CANCELLED" \in Status
    BY DEF CancelCommit, Status
  <1>4. /\ restocks' = restocks + 1
        /\ events' = [events EXCEPT !.cancelled = @ + 1]
        /\ UNCHANGED <<returnDate, shipmentVars, hookRestocks, unstocked, overlap, sold,
                       eventLost, carrierVars, overwritten>>
    BY DEF CancelCommit
  <1>5. /\ restocks \in Nat /\ unstocked \in Nat /\ sold \in Int
        /\ events \in [created : Nat, cancelled : Nat]
    BY <1>1 DEF TypeOK
  <1>6. /\ restocks' \in Nat /\ events' \in [created : Nat, cancelled : Nat]
        /\ events'.created = events.created /\ events'.cancelled = events.cancelled + 1
    BY <1>4, <1>5
  <1>7. TypeOK'
    BY <1>1, <1>2, <1>3, <1>4, <1>6, EndsIs, SetStatusIs
       DEF TypeOK, Sight, Place, shipmentVars, carrierVars
  <1>8. StatusNeedsShipment'
    BY <1>1, <1>3, <1>4 DEF StatusNeedsShipment, SetStatus, shipmentVars, carrierVars
  <1>9. ReadyToConfirm'
    BY <1>2, <1>4, EndKeepsOthers DEF shipmentVars, carrierVars
  <1>10. SoldFollowsStock'
    BY <1>1, <1>4, <1>5, <1>6 DEF SoldFollowsStock
  <1>11. RestocksInOrder'
    BY <1>2, <1>3, <1>4, EndKeepsCount
  <1>12. QED
    BY <1>7, <1>8, <1>9, <1>10, <1>11 DEF IInv

-----------------------------------------------------------------------------
(* The webhook.                                                            *)

LEMMA HookReading ==
  ASSUME IInv, NEW q \in Requests, HookRead(q)
  PROVE  IInv'
  <1>1. /\ TypeOK /\ ReadyToConfirm /\ StatusNeedsShipment
        /\ pc \in [Requests -> Place] /\ seen \in [Requests -> Sight]
    BY DEF IInv, TypeOK, Place, Sight
  <1>2. UNCHANGED <<orderVars, shipmentVars, stockVars, soldVars, carrierVars, overwritten,
                    reopened>>
    BY DEF HookRead
  <1>3. PICK p \in Parcels : \E report \in sent[p] :
            IF p = shipment
              THEN /\ pc' = [pc EXCEPT ![q] = "hook"]
                   /\ seen' = [seen EXCEPT ![q] =
                         [parcel |-> p, shipped |-> shipped, delivered |-> delivered,
                          status |-> StatusOf(report)]]
              ELSE Ends(q, "idle")
    BY DEF HookRead
  <1>4. PICK report \in sent[p] :
            IF p = shipment
              THEN /\ pc' = [pc EXCEPT ![q] = "hook"]
                   /\ seen' = [seen EXCEPT ![q] =
                         [parcel |-> p, shipped |-> shipped, delivered |-> delivered,
                          status |-> StatusOf(report)]]
              ELSE Ends(q, "idle")
    BY <1>3
  <1>5. /\ pc' \in [Requests -> Place] /\ seen' \in [Requests -> Sight]
        /\ (pc'[q] = "hook" /\ p = shipment) \/ pc'[q] = "ended"
        /\ \A r \in Requests \ {q} : pc'[r] = pc[r] /\ seen'[r] = seen[r]
    <2>1. CASE p = shipment
      <3> DEFINE x == [parcel |-> p, shipped |-> shipped, delivered |-> delivered,
                       status |-> StatusOf(report)]
      <3>1. report \in {"created", "shipped", "delivered", "cancelled", "returning"}
        BY <1>1, <1>4 DEF TypeOK
      <3>2. StatusOf(report) \in Status
        BY <3>1 DEF StatusOf, Status
      <3>3. shipped \in BOOLEAN
        BY <1>1 DEF TypeOK
      <3>4. delivered \in Date
        BY <1>1 DEF TypeOK
      <3>5. x \in Sight
        BY <3>2, <3>3, <3>4 DEF Sight
      <3>6. pc' = [pc EXCEPT ![q] = "hook"] /\ seen' = [seen EXCEPT ![q] = x]
        BY <1>4, <2>1
      <3> HIDE DEF x
      <3>7. QED
        BY <1>1, <2>1, <3>5, <3>6 DEF Place
    <2>2. CASE p # shipment
      <3>1. Ends(q, "idle") /\ "idle" \in Place
        BY <1>4, <2>2 DEF Place
      <3>2. QED
        BY <1>1, <3>1, EndsIs
    <2>3. QED
      BY <2>1, <2>2
  <1>6. TypeOK'
    BY <1>1, <1>2, <1>5
       DEF TypeOK, Place, Sight, orderVars, shipmentVars, stockVars, soldVars, carrierVars
  <1>7. StatusNeedsShipment'
    BY <1>1, <1>2 DEF StatusNeedsShipment, orderVars, shipmentVars, carrierVars
  <1>8. ReadyToConfirm'
    <2>1. pc'[q] = "hook" => shipment # None
      BY <1>3, <1>5, OrdersAssumption
    <2>2. QED
      BY <1>1, <1>2, <1>5, <2>1 DEF ReadyToConfirm, Hooking, orderVars, shipmentVars, carrierVars
  <1>9. SoldFollowsStock'
    BY <1>2, SoldKept DEF soldVars, stockVars
  <1>10. RestocksInOrder'
    BY <1>2, <1>5, CountKept DEF stockVars, orderVars
  <1>11. QED
    BY <1>6, <1>7, <1>8, <1>9, <1>10 DEF IInv

\* Every report but a cancellation.
LEMMA HookWriting ==
  ASSUME IInv, NEW q \in Requests, HookStatus(q)
  PROVE  IInv'
  <1>1. /\ TypeOK /\ ReadyToConfirm /\ StatusNeedsShipment
        /\ seen[q].status \in Status
    BY DEF IInv, TypeOK
  <1>2. Ends(q, "hook") /\ pc[q] = "hook" /\ "hook" \in Place
    BY DEF HookStatus, Ends, Goes, Place
  <1>3. SetStatus(seen[q].status)
    BY DEF HookStatus
  <1>4. UNCHANGED <<returnDate, shipment, stockVars, soldVars, carrierVars, overwritten>>
    BY DEF HookStatus
  <1>5. shipped' \in BOOLEAN
    BY DEF HookStatus
  <1>6. delivered' \in Date
    BY <1>1 DEF HookStatus, TypeOK, Date
  <1>7. TypeOK'
    BY <1>1, <1>2, <1>3, <1>4, <1>5, <1>6, EndsIs, SetStatusIs
       DEF TypeOK, Sight, Place, stockVars, soldVars, carrierVars
  <1>8. shipment # None
    BY <1>1, <1>2 DEF ReadyToConfirm, Hooking
  <1>9. StatusNeedsShipment'
    BY <1>1, <1>4, <1>8 DEF StatusNeedsShipment, carrierVars
  <1>10. ReadyToConfirm'
    BY <1>2, <1>4, EndKeepsOthers DEF carrierVars
  <1>11. SoldFollowsStock'
    BY <1>4, SoldKept DEF soldVars, stockVars
  <1>12. RestocksInOrder'
    BY <1>1, <1>2, <1>3, <1>4, EndKeepsCount DEF stockVars
  <1>13. QED
    BY <1>7, <1>9, <1>10, <1>11, <1>12 DEF IInv

\* The transaction of a cancellation begins. A second one sets overlap.
LEMMA HookBeginning ==
  ASSUME IInv, NEW q \in Requests, HookCancel(q)
  PROVE  IInv'
  <1>1. /\ TypeOK /\ ReadyToConfirm /\ StatusNeedsShipment /\ RestocksInOrder
        /\ pc \in [Requests -> Place] /\ seen \in [Requests -> Sight] /\ status \in Status
    BY DEF IInv, TypeOK, Place, Sight
  <1>2. /\ Goes(q, "hook", "hookCancel") /\ "hook" \in Place /\ "hookCancel" \in Place
        /\ seen' = [seen EXCEPT ![q].status = status]
    BY DEF HookCancel, Place
  <1>3. /\ overlap' = (overlap \/ \E other \in Requests : pc[other] = "hookCancel")
        /\ UNCHANGED <<orderVars, shipmentVars, restocks, hookRestocks, unstocked, soldVars,
                       carrierVars, overwritten, reopened>>
    BY DEF HookCancel
  <1>4. /\ pc' \in [Requests -> Place] /\ pc[q] = "hook"
        /\ \A r \in Requests : pc'[r] = IF r = q THEN "hookCancel" ELSE pc[r]
    BY <1>1, <1>2, PlacesKept
  <1>5. /\ seen' \in [Requests -> Sight] /\ seen'[q].status = status
        /\ \A r \in Requests \ {q} : seen'[r] = seen[r]
    <2>1. seen' \in [Requests -> Sight]
      BY <1>1, <1>2 DEF Sight
    <2>2. QED
      BY <1>1, <1>2, <2>1 DEF Sight
  <1>6. overlap' \in BOOLEAN
    BY <1>3
  <1>7. TypeOK'
    BY <1>1, <1>3, <1>4, <1>5, <1>6
       DEF TypeOK, Place, Sight, orderVars, shipmentVars, soldVars, carrierVars
  <1>8. StatusNeedsShipment'
    BY <1>1, <1>3 DEF StatusNeedsShipment, orderVars, shipmentVars, carrierVars
  <1>9. ReadyToConfirm'
    <2>1. shipment # None
      BY <1>1, <1>4 DEF ReadyToConfirm, Hooking
    <2>2. \A r \in Requests \ {q} : pc'[r] = pc[r] /\ seen'[r] = seen[r]
      BY <1>4, <1>5
    <2>3. QED
      BY <1>1, <1>3, <1>4, <2>1, <2>2 DEF ReadyToConfirm, Hooking, shipmentVars, carrierVars
  <1>10. SoldFollowsStock'
    BY <1>3, SoldKept DEF soldVars
  <1>11. ASSUME ~overlap'
         PROVE  /\ hookRestocks' <= 1 + reopened'
                /\ status' # "CANCELLED" => hookRestocks' <= reopened'
                /\ \A r \in Requests :
                      pc'[r] = "hookCancel" /\ seen'[r].status # "CANCELLED" =>
                          hookRestocks' <= reopened'
                /\ \A r, i \in Requests : pc'[r] = "hookCancel" /\ pc'[i] = "hookCancel" => r = i
    <2>1. ~overlap /\ \A other \in Requests : pc[other] # "hookCancel"
      BY <1>3, <1>11
    <2>2. /\ hookRestocks <= 1 + reopened
          /\ status # "CANCELLED" => hookRestocks <= reopened
      BY <1>1, <2>1 DEF RestocksInOrder
    <2>3. UNCHANGED <<status, hookRestocks, reopened>>
      BY <1>3 DEF orderVars
    <2>4. QED
      BY <1>4, <1>5, <2>1, <2>2, <2>3
  <1>12. RestocksInOrder'
    BY <1>11 DEF RestocksInOrder
  <1>13. QED
    BY <1>7, <1>8, <1>9, <1>10, <1>12 DEF IInv

\* It ends: nothing is done if the order was cancelled already.
LEMMA HookEnding ==
  ASSUME IInv, NEW q \in Requests, HookCancelCommit(q)
  PROVE  IInv'
  <1>1. /\ TypeOK /\ ReadyToConfirm /\ StatusNeedsShipment /\ RestocksInOrder /\ SoldFollowsStock
        /\ restocks \in Nat /\ hookRestocks \in Nat /\ sold \in Int /\ reopened \in Nat
        /\ unstocked \in Nat
        /\ events \in [created : Nat, cancelled : Nat]
    BY DEF IInv, TypeOK
  <1>2. Ends(q, "hookCancel") /\ pc[q] = "hookCancel" /\ "hookCancel" \in Place
    BY DEF HookCancelCommit, Ends, Goes, Place
  <1>3. UNCHANGED <<returnDate, shipmentVars, events, eventLost, overlap, carrierVars, overwritten>>
    BY DEF HookCancelCommit
  <1>4. ReadyToConfirm'
    BY <1>2, <1>3, EndKeepsOthers DEF shipmentVars, carrierVars
  <1>5. CASE seen[q].status = "CANCELLED"
    <2>1. UNCHANGED <<restocks, hookRestocks, unstocked, sold, status, reopened>>
      BY <1>5 DEF HookCancelCommit, SameStatus
    <2>2. TypeOK'
      BY <1>1, <1>2, <1>3, <2>1, EndsIs DEF TypeOK, Sight, Place, shipmentVars, carrierVars
    <2>3. StatusNeedsShipment'
      BY <1>1, <1>3, <2>1 DEF StatusNeedsShipment, shipmentVars, carrierVars
    <2>4. SoldFollowsStock'
      BY <1>3, <2>1, SoldKept
    <2>5. \A r \in Requests : pc'[r] = "hookCancel" =>
                                 pc[r] = "hookCancel" /\ seen'[r].status = seen[r].status
      BY <1>1, <1>2, EndsIs
    <2>6. RestocksInOrder'
      BY <1>3, <2>1, <2>5, CountKept
    <2>7. QED
      BY <1>4, <2>2, <2>3, <2>4, <2>6 DEF IInv
  <1>6. CASE seen[q].status # "CANCELLED"
    <2>1. CancelByCarrier(q)
      BY <1>6 DEF HookCancelCommit
    <2>2. PICK n \in {0, 1}, back \in {0, 1} :
             /\ back <= n
             /\ restocks' = restocks + back
             /\ hookRestocks' = hookRestocks + back
             /\ unstocked' = unstocked + n - back
             /\ sold' = sold - n
      <3>1. PICK found \in BOOLEAN :
               LET n == IF seen[q].status = "PENDING" \/ ~seen[q].shipped THEN 1 ELSE 0
                   back == IF found THEN n ELSE 0
               IN  /\ restocks' = restocks + back
                   /\ hookRestocks' = hookRestocks + back
                   /\ unstocked' = unstocked + n - back
                   /\ sold' = sold - n
        BY <2>1 DEF CancelByCarrier
      <3>2. QED
        BY <3>1
    <2>3. SetStatus("CANCELLED") /\ "CANCELLED" \in Status
      BY <2>1 DEF CancelByCarrier, Status
    <2>4. status' = "CANCELLED" /\ reopened' = reopened
      BY <1>1, <2>3, SetStatusIs
    <2>5. restocks' \in Nat /\ hookRestocks' \in Nat /\ unstocked' \in Nat /\ sold' \in Int
      BY <1>1, <2>2
    <2>6. TypeOK'
      BY <1>1, <1>2, <1>3, <2>3, <2>4, <2>5, EndsIs
         DEF TypeOK, Sight, Place, shipmentVars, carrierVars
    <2>7. StatusNeedsShipment'
      BY <1>1, <1>3, <2>4 DEF StatusNeedsShipment, shipmentVars, carrierVars
    <2>8. SoldFollowsStock'
      BY <1>1, <1>3, <2>2 DEF SoldFollowsStock
    <2>9. ASSUME ~overlap'
          PROVE  /\ hookRestocks' <= 1 + reopened'
                 /\ \A r \in Requests : pc'[r] # "hookCancel"
      <3>1. /\ hookRestocks <= reopened
            /\ \A r \in Requests : pc[r] = "hookCancel" => q = r
        BY <1>1, <1>2, <1>3, <1>6, <2>9 DEF RestocksInOrder
      <3>2. hookRestocks' <= 1 + reopened'
        BY <1>1, <2>2, <2>4, <3>1
      <3>3. QED
        BY <1>1, <1>2, <3>1, <3>2, EndsIs
    <2>10. RestocksInOrder'
      BY <2>4, <2>9 DEF RestocksInOrder
    <2>11. QED
      BY <1>4, <2>6, <2>7, <2>8, <2>10 DEF IInv
  <1>7. QED
    BY <1>5, <1>6

-----------------------------------------------------------------------------
(* Failures, the carrier, time and the listeners.                          *)

LEMMA Failing ==
  ASSUME IInv, NEW q \in Requests, Fails(q)
  PROVE  IInv'
  <1>1. TypeOK /\ StatusNeedsShipment /\ pc \in [Requests -> Place]
    BY DEF IInv, TypeOK, Place
  <1>2. Ends(q, pc[q]) /\ pc[q] \in Place
    BY <1>1 DEF Fails
  <1>3. UNCHANGED <<orderVars, shipmentVars, stockVars, soldVars, carrierVars, overwritten,
                    reopened>>
    BY DEF Fails
  <1>4. TypeOK'
    BY <1>1, <1>2, <1>3, EndsIs
       DEF TypeOK, Sight, Place, orderVars, shipmentVars, stockVars, soldVars, carrierVars
  <1>5. StatusNeedsShipment'
    BY <1>1, <1>3 DEF StatusNeedsShipment, orderVars, shipmentVars, carrierVars
  <1>6. ReadyToConfirm'
    BY <1>2, <1>3, EndKeepsOthers DEF shipmentVars, carrierVars
  <1>7. SoldFollowsStock'
    BY <1>3, SoldKept DEF soldVars, stockVars
  <1>8. \A r \in Requests : pc'[r] = "hookCancel" =>
                               pc[r] = "hookCancel" /\ seen'[r].status = seen[r].status
    BY <1>1, <1>2, EndsIs
  <1>9. RestocksInOrder'
    BY <1>3, <1>8, CountKept DEF orderVars, stockVars
  <1>10. QED
    BY <1>4, <1>5, <1>6, <1>7, <1>9 DEF IInv

\* A parcel that the carrier has created stays with it.
LEMMA Moving ==
  ASSUME IInv, NEW p \in Parcels, CarrierMoves(p)
  PROVE  IInv'
  <1>1. /\ TypeOK /\ ReadyToConfirm /\ StatusNeedsShipment
        /\ phase \in [Parcels -> {"none", "created", "shipped", "delivered", "cancelled",
                                  "returning"}]
        /\ sent \in [Parcels -> SUBSET {"created", "shipped", "delivered", "cancelled",
                                        "returning"}]
    BY DEF IInv, TypeOK
  <1>2. PICK next \in {"shipped", "cancelled", "delivered", "returning"} :
            /\ phase' = [phase EXCEPT ![p] = next]
            /\ sent' = [sent EXCEPT ![p] = @ \cup {next}]
    <2>1. CASE phase[p] = "created"
      BY <2>1 DEF CarrierMoves
    <2>2. CASE phase[p] = "shipped"
      BY <2>2 DEF CarrierMoves
    <2>3. CASE phase[p] # "created" /\ phase[p] # "shipped"
      BY <2>3 DEF CarrierMoves
    <2>4. QED
      BY <2>1, <2>2, <2>3
  <1>3. UNCHANGED <<orderVars, shipmentVars, stockVars, soldVars, requestVars, overwritten,
                    reopened>>
    BY DEF CarrierMoves
  <1>4. /\ phase' \in [Parcels -> {"none", "created", "shipped", "delivered", "cancelled",
                                   "returning"}]
        /\ \A i \in Parcels : phase[i] # "none" => phase'[i] # "none"
    BY <1>1, <1>2
  <1>5. sent' \in [Parcels -> SUBSET {"created", "shipped", "delivered", "cancelled",
                                      "returning"}]
    BY <1>1, <1>2
  <1>6. TypeOK'
    BY <1>1, <1>3, <1>4, <1>5
       DEF TypeOK, orderVars, shipmentVars, stockVars, soldVars, requestVars
  <1>7. StatusNeedsShipment'
    BY <1>1, <1>3, <1>4 DEF StatusNeedsShipment, TypeOK, orderVars, shipmentVars
  <1>8. ReadyToConfirm'
    BY <1>1, <1>3, <1>4 DEF ReadyToConfirm, requestVars, shipmentVars
  <1>9. SoldFollowsStock'
    BY <1>3, SoldKept DEF soldVars, stockVars
  <1>10. RestocksInOrder'
    BY <1>3, CountKept DEF orderVars, stockVars, requestVars
  <1>11. QED
    BY <1>6, <1>7, <1>8, <1>9, <1>10 DEF IInv

\* The hourly job.
LEMMA ReturnEnding ==
  ASSUME IInv, EndReturn
  PROVE  IInv'
  <1>1. TypeOK /\ ReadyToConfirm /\ StatusNeedsShipment /\ RestocksInOrder
    BY DEF IInv
  <1>2. /\ status = "RETURNING" /\ SetStatus("DELIVERED") /\ "DELIVERED" \in Status
        /\ returnDate' = "unset" /\ "unset" \in Date
        /\ UNCHANGED <<shipmentVars, stockVars, soldVars, carrierVars, requestVars, overwritten>>
    BY DEF EndReturn, Status, Date
  <1>3. status' = "DELIVERED" /\ reopened' = reopened
    BY <1>1, <1>2, SetStatusIs
  <1>4. TypeOK'
    BY <1>1, <1>2, <1>3
       DEF TypeOK, shipmentVars, stockVars, soldVars, carrierVars, requestVars
  <1>5. StatusNeedsShipment'
    BY <1>1, <1>2, <1>3 DEF StatusNeedsShipment, shipmentVars, carrierVars
  <1>6. ReadyToConfirm'
    BY <1>1, <1>2 DEF ReadyToConfirm, shipmentVars, carrierVars, requestVars
  <1>7. SoldFollowsStock'
    BY <1>2, SoldKept DEF soldVars, stockVars
  <1>8. RestocksInOrder'
    BY <1>1, <1>2, <1>3 DEF RestocksInOrder, stockVars, requestVars
  <1>9. QED
    BY <1>4, <1>5, <1>6, <1>7, <1>8 DEF IInv

LEMMA TimePassing ==
  ASSUME IInv, SevenDaysPass
  PROVE  IInv'
  <1>1. TypeOK /\ ReadyToConfirm /\ StatusNeedsShipment /\ seen \in [Requests -> Sight]
    BY DEF IInv, TypeOK, Sight
  <1>2. UNCHANGED <<status, shipment, shipped, stockVars, soldVars, carrierVars, pc, overwritten,
                    reopened>>
    BY DEF SevenDaysPass
  <1>3. returnDate' \in Date /\ delivered' \in Date
    BY <1>1 DEF SevenDaysPass, TypeOK, Date
  <1>4. /\ seen' \in [Requests -> Sight]
        /\ \A r \in Requests : /\ seen'[r].parcel = seen[r].parcel
                               /\ seen'[r].status = seen[r].status
    <2>1. CASE UNCHANGED seen
      BY <1>1, <2>1
    <2>2. CASE seen' = [r \in Requests |-> [seen[r] EXCEPT
                           !.delivered = IF @ = "fresh" THEN "expired" ELSE @]]
      <3>1. ASSUME NEW r \in Requests
            PROVE  /\ seen'[r] \in Sight
                   /\ seen'[r].parcel = seen[r].parcel
                   /\ seen'[r].status = seen[r].status
        <4>1. PICK d \in Date : seen'[r] = [seen[r] EXCEPT !.delivered = d]
          BY <1>1, <2>2 DEF Sight, Date
        <4>2. seen[r] \in Sight
          BY <1>1
        <4>3. QED
          BY <4>1, <4>2 DEF Sight
      <3>2. seen' = [r \in Requests |-> seen'[r]]
        BY <2>2
      <3>3. QED
        BY <3>1, <3>2
    <2>3. QED
      BY <2>1, <2>2 DEF SevenDaysPass
  <1>5. TypeOK'
    BY <1>1, <1>2, <1>3, <1>4 DEF TypeOK, Sight, stockVars, soldVars, carrierVars
  <1>6. StatusNeedsShipment'
    BY <1>1, <1>2 DEF StatusNeedsShipment, carrierVars
  <1>7. ReadyToConfirm'
    BY <1>1, <1>2, <1>4 DEF ReadyToConfirm, carrierVars
  <1>8. SoldFollowsStock'
    BY <1>2, SoldKept DEF soldVars, stockVars
  <1>9. RestocksInOrder'
    BY <1>2, <1>4, CountKept DEF stockVars
  <1>10. QED
    BY <1>5, <1>6, <1>7, <1>8, <1>9 DEF IInv

\* A listener that counts an event keeps soldCount in step, one that fails is
\* remembered.
LEMMA Listening ==
  ASSUME IInv, BookListener
  PROVE  IInv'
  <1>1. /\ TypeOK /\ ReadyToConfirm /\ StatusNeedsShipment /\ RestocksInOrder /\ SoldFollowsStock
        /\ sold \in Int /\ restocks \in Nat /\ unstocked \in Nat
        /\ events \in [created : Nat, cancelled : Nat]
        /\ eventLost \in BOOLEAN
    BY DEF IInv, TypeOK
  <1>2. UNCHANGED <<orderVars, shipmentVars, stockVars, carrierVars, requestVars, overwritten,
                    reopened>>
    BY DEF BookListener
  <1>3. eventLost' \in BOOLEAN
    BY <1>1 DEF BookListener
  <1>4. /\ events' \in [created : Nat, cancelled : Nat] /\ sold' \in Int
        /\ eventLost' = FALSE =>
              /\ eventLost = FALSE
              /\ sold' + events'.created - events'.cancelled
                     = sold + events.created - events.cancelled
    <2>1. CASE /\ events.created > 0
               /\ events' = [events EXCEPT !.created = events.created - 1]
               /\ \/ sold' = sold + 1 /\ UNCHANGED eventLost
                  \/ eventLost' = TRUE /\ UNCHANGED sold
      <3>1. /\ events' \in [created : Nat, cancelled : Nat]
            /\ events'.created = events.created - 1 /\ events'.cancelled = events.cancelled
        BY <1>1, <2>1
      <3>2. CASE sold' = sold + 1 /\ UNCHANGED eventLost
        BY <1>1, <3>1, <3>2
      <3>3. CASE eventLost' = TRUE /\ UNCHANGED sold
        BY <1>1, <3>1, <3>3
      <3>4. QED
        BY <2>1, <3>2, <3>3
    <2>2. CASE /\ events.cancelled > 0
               /\ events' = [events EXCEPT !.cancelled = events.cancelled - 1]
               /\ \/ sold' = sold - 1 /\ UNCHANGED eventLost
                  \/ eventLost' = TRUE /\ UNCHANGED sold
      <3>1. /\ events' \in [created : Nat, cancelled : Nat]
            /\ events'.cancelled = events.cancelled - 1 /\ events'.created = events.created
        BY <1>1, <2>2
      <3>2. CASE sold' = sold - 1 /\ UNCHANGED eventLost
        BY <1>1, <3>1, <3>2
      <3>3. CASE eventLost' = TRUE /\ UNCHANGED sold
        BY <1>1, <3>1, <3>3
      <3>4. QED
        BY <2>2, <3>2, <3>3
    <2>3. QED
      BY <2>1, <2>2 DEF BookListener
  <1>5. TypeOK'
    BY <1>1, <1>2, <1>3, <1>4
       DEF TypeOK, orderVars, shipmentVars, stockVars, carrierVars, requestVars
  <1>6. StatusNeedsShipment'
    BY <1>1, <1>2 DEF StatusNeedsShipment, orderVars, shipmentVars, carrierVars
  <1>7. ReadyToConfirm'
    BY <1>1, <1>2 DEF ReadyToConfirm, shipmentVars, carrierVars, requestVars
  <1>8. SoldFollowsStock'
    <2>1. SUFFICES ASSUME eventLost' = FALSE
                   PROVE  sold' + unstocked' = 1 - events'.created - restocks' + events'.cancelled
      BY <1>3 DEF SoldFollowsStock
    <2>2. sold + unstocked = 1 - events.created - restocks + events.cancelled
      BY <1>1, <1>4, <2>1 DEF SoldFollowsStock
    <2>3. restocks' = restocks /\ unstocked' = unstocked
      BY <1>2 DEF stockVars
    <2>4. sold' + events'.created - events'.cancelled = sold + events.created - events.cancelled
      BY <1>4, <2>1
    <2>5. /\ events.created \in Nat /\ events.cancelled \in Nat
          /\ events'.created \in Nat /\ events'.cancelled \in Nat
          /\ sold' \in Int
      BY <1>1, <1>4
    <2>6. QED
      BY <1>1, <2>2, <2>3, <2>4, <2>5
  <1>9. RestocksInOrder'
    BY <1>1, <1>2 DEF RestocksInOrder, orderVars, stockVars, requestVars
  <1>10. QED
    BY <1>5, <1>6, <1>7, <1>8, <1>9 DEF IInv

LEMMA Staying ==
  ASSUME IInv, UNCHANGED vars
  PROVE  IInv'
  <1>1. /\ UNCHANGED <<status, returnDate, shipment, shipped, delivered, restocks, sold, events,
                       pc, seen, phase, sent>>
        /\ UNCHANGED <<overwritten, reopened, hookRestocks, unstocked, overlap, eventLost>>
    BY DEF vars, orderVars, shipmentVars, stockVars, soldVars, carrierVars, requestVars
  <1>2. TypeOK'
    BY <1>1 DEF IInv, TypeOK
  <1>3. StatusNeedsShipment' /\ ReadyToConfirm' /\ SoldFollowsStock' /\ RestocksInOrder'
    BY <1>1 DEF IInv, StatusNeedsShipment, ReadyToConfirm, SoldFollowsStock, RestocksInOrder
  <1>4. QED
    BY <1>2, <1>3 DEF IInv

LEMMA NextIInv == IInv /\ [Next]_vars => IInv'
  <1> SUFFICES ASSUME IInv, [Next]_vars PROVE IInv'
    OBVIOUS
  <1>1. ASSUME NEW q \in Requests, SetByHand(q) \/ ConfirmAgain(q) \/ ReturnCommit(q)
        PROVE  IInv'
    BY <1>1, Writing
  <1>2. ASSUME NEW q \in Requests, Confirm(q) \/ Cancel(q) \/ RequestReturn(q)
        PROVE  IInv'
    BY <1>2, Asking
  <1>3. ASSUME NEW q \in Requests, CarrierCreates(q) \/ ConfirmCommit(q) \/ CancelCommit(q)
        PROVE  IInv'
    BY <1>3, Creating, Confirming, Cancelling
  <1>4. ASSUME NEW q \in Requests, \/ HookRead(q) \/ HookStatus(q) \/ HookCancel(q)
                                   \/ HookCancelCommit(q)
        PROVE  IInv'
    BY <1>4, HookReading, HookWriting, HookBeginning, HookEnding
  <1>5. ASSUME NEW q \in Requests, Fails(q)
        PROVE  IInv'
    BY <1>5, Failing
  <1>6. ASSUME NEW p \in Parcels, CarrierMoves(p)
        PROVE  IInv'
    BY <1>6, Moving
  <1>7. CASE EndReturn
    BY <1>7, ReturnEnding
  <1>8. CASE SevenDaysPass
    BY <1>8, TimePassing
  <1>9. CASE BookListener
    BY <1>9, Listening
  <1>10. CASE UNCHANGED vars
    BY <1>10, Staying
  <1>11. QED
    BY <1>1, <1>2, <1>3, <1>4, <1>5, <1>6, <1>7, <1>8, <1>9, <1>10 DEF Next

LEMMA SpecIInv == Spec => []IInv
  BY InitIInv, NextIInv, PTL DEF Spec

-----------------------------------------------------------------------------
\* The variables of an order stay in their types, whatever webhooks bring.
THEOREM OrderTyped == Spec => []TypeOK
  <1>1. IInv => TypeOK
    BY DEF IInv
  <1>2. QED
    BY <1>1, SpecIInv, PTL

\* An order on its way has a parcel behind it: confirmation and shipment are one
\* transaction, and webhooks are only heard for a shipment that is there.
THEOREM StatusHasShipment == Spec => []StatusNeedsShipment
  <1>1. IInv => StatusNeedsShipment
    BY DEF IInv
  <1>2. QED
    BY <1>1, SpecIInv, PTL

\* Restocks, events pending for the listener and the webhooks that found no stock
\* row account for every copy sold, unless a listener has failed.
THEOREM SoldInStep == Spec => []SoldFollowsStock
  <1>1. IInv => SoldFollowsStock
    BY DEF IInv
  <1>2. QED
    BY <1>1, SpecIInv, PTL

\* However often the carrier reports a cancellation, the items are put back once
\* for each time the order was not cancelled, unless two reports overlap.
THEOREM ReportsRestockOnce == Spec => []CancelReportsRestockOnce
  <1>1. IInv => CancelReportsRestockOnce
    BY DEF IInv, RestocksInOrder, CancelReportsRestockOnce
  <1>2. QED
    BY <1>1, SpecIInv, PTL

\* No handler takes back the date of a shipment: what the return window and the
\* restocking decision rest on is only ever added.
THEOREM DatesStay == Spec => DatesNeverUnset
  <1> DEFINE Kept == /\ shipped => shipped'
                     /\ delivered # "unset" => delivered' # "unset"
  <1>1. ASSUME NEW q \in Requests, HookStatus(q)
        PROVE  Kept
    BY <1>1 DEF HookStatus
  <1>2. ASSUME SevenDaysPass
        PROVE  Kept
    BY <1>2 DEF SevenDaysPass
  <1>3. ASSUME NEW q \in Requests,
               \/ SetByHand(q) \/ ConfirmAgain(q) \/ Confirm(q) \/ CarrierCreates(q)
               \/ ConfirmCommit(q) \/ Cancel(q) \/ CancelCommit(q)
               \/ RequestReturn(q) \/ ReturnCommit(q)
               \/ HookRead(q) \/ HookCancel(q) \/ HookCancelCommit(q) \/ Fails(q)
        PROVE  Kept
    <2>1. UNCHANGED <<shipped, delivered>>
      BY <1>3
         DEF SetByHand, ConfirmAgain, Confirm, CarrierCreates, ConfirmCommit, Cancel,
             CancelCommit, RequestReturn, ReturnCommit, HookRead, HookCancel,
             HookCancelCommit, Fails, shipmentVars
    <2>2. QED
      BY <2>1
  <1>4. ASSUME (\E p \in Parcels : CarrierMoves(p)) \/ EndReturn \/ BookListener \/ UNCHANGED vars
        PROVE  Kept
    <2>1. UNCHANGED <<shipped, delivered>>
      BY <1>4 DEF CarrierMoves, EndReturn, BookListener, vars, shipmentVars
    <2>2. QED
      BY <2>1
  <1>5. [Next]_vars => [Kept]_vars
    BY <1>1, <1>2, <1>3, <1>4 DEF Next
  <1>6. QED
    BY <1>5, PTL DEF Spec, DatesNeverUnset

-----------------------------------------------------------------------------
(* Why an order is put back twice, and why a parcel is left without an      *)
(* order. CancelledOnce and NoOrphanParcel fail in the runs double_cancel   *)
(* and orphan_parcel; the theorems here say that there is no other cause    *)
(* than the ones they exclude.                                              *)

\* At most one request at a time is at one of these places.
AtMostOneAt(places) ==
    \A q, r \in Requests : pc[q] \in places /\ pc[r] \in places => q = r

\* A cancellation by customer, admin or carrier begins when the last is over.
CancelsOneAtATime == AtMostOneAt({"cancelling", "hookCancel"})

RestocksOnce == restocks <= 1 + reopened

RestocksFit ==
    /\ RestocksOnce
    /\ status # "CANCELLED" => restocks <= reopened
    /\ \A q \in Requests :
          (\/ pc[q] = "cancelling"
           \/ pc[q] = "hookCancel" /\ seen[q].status # "CANCELLED") => restocks <= reopened

LEMMA InitRestocksFit == Init => RestocksFit
  BY DEF Init, RestocksFit, RestocksOnce

LEMMA CountRises ==
  ASSUME NEW n \in Nat, NEW k \in Nat, NEW m \in Nat, m >= k, n <= 1 + k
  PROVE  /\ n <= 1 + m
         /\ n <= k => n <= m
         /\ m = k + 1 => n <= m
  OBVIOUS

\* A step that puts nothing back and begins no cancellation.
LEMMA FitKept ==
  ASSUME TypeOK, RestocksFit, UNCHANGED restocks,
         SameStatus \/ \E s \in Status : SetStatus(s),
         \A r \in Requests :
            /\ pc'[r] = "cancelling" => pc[r] = "cancelling"
            /\ pc'[r] = "hookCancel" => /\ pc[r] = "hookCancel"
                                        /\ seen'[r].status = seen[r].status
  PROVE  RestocksFit'
  <1>1. restocks \in Nat /\ reopened \in Nat
    BY DEF TypeOK
  <1>2. /\ reopened' \in Nat /\ reopened' >= reopened
        /\ \/ reopened' = reopened /\ (status' = status \/ status' = "CANCELLED")
           \/ reopened' = reopened /\ status # "CANCELLED"
           \/ reopened' = reopened + 1
    <2>1. CASE SameStatus
      BY <1>1, <2>1 DEF SameStatus
    <2>2. CASE \E s \in Status : SetStatus(s)
      BY <1>1, <2>2 DEF SetStatus
    <2>3. QED
      BY <2>1, <2>2
  <1>3. restocks <= 1 + reopened' /\ (status' # "CANCELLED" => restocks <= reopened')
    <2>1. restocks <= 1 + reopened /\ (status # "CANCELLED" => restocks <= reopened)
      BY DEF RestocksFit, RestocksOnce
    <2>2. PICK n : n = reopened' /\ n \in Nat /\ n >= reopened
      BY <1>2
    <2>3. /\ restocks <= 1 + n
          /\ restocks <= reopened => restocks <= n
          /\ n = reopened + 1 => restocks <= n
      BY <1>1, <2>1, <2>2, CountRises
    <2>4. status' # "CANCELLED" => status # "CANCELLED" \/ n = reopened + 1
      BY <1>2, <2>2
    <2>5. QED
      BY <2>1, <2>2, <2>3, <2>4
  <1>4. ASSUME NEW r \in Requests,
               \/ pc'[r] = "cancelling"
               \/ pc'[r] = "hookCancel" /\ seen'[r].status # "CANCELLED"
        PROVE  restocks <= reopened'
    <2>1. restocks <= reopened
      BY <1>4 DEF RestocksFit
    <2>2. QED
      BY <1>1, <1>2, <2>1
  <1>5. QED
    BY <1>3, <1>4 DEF RestocksFit, RestocksOnce

\* A cancellation that puts the items back, while no other one is under way.
LEMMA FitRestocked ==
  ASSUME TypeOK, RestocksFit, CancelsOneAtATime, SetStatus("CANCELLED"),
         restocks' = restocks + 1,
         NEW q \in Requests, pc[q] \in {"cancelling", "hookCancel"}, restocks <= reopened,
         \A r \in Requests : pc'[r] = IF r = q THEN "ended" ELSE pc[r]
  PROVE  RestocksFit'
  <1>1. restocks \in Nat /\ reopened \in Nat
    BY DEF TypeOK
  <1>2. reopened' = reopened /\ status' = "CANCELLED"
    BY DEF SetStatus
  <1>3. \A r \in Requests : pc'[r] \notin {"cancelling", "hookCancel"}
    BY DEF CancelsOneAtATime, AtMostOneAt
  <1>4. restocks' <= 1 + reopened'
    BY <1>1, <1>2
  <1>5. QED
    BY <1>2, <1>3, <1>4 DEF RestocksFit, RestocksOnce

LEMMA NextRestocksFit ==
  TypeOK /\ CancelsOneAtATime /\ RestocksFit /\ [Next]_vars => RestocksFit'
  <1> SUFFICES ASSUME TypeOK, CancelsOneAtATime, RestocksFit, [Next]_vars PROVE RestocksFit'
    OBVIOUS
  <1>1. ASSUME NEW q \in Requests, NEW from \in Place, NEW s \in Status, Ends(q, from),
               UNCHANGED restocks, SetStatus(s) \/ SameStatus
        PROVE  RestocksFit'
    <2>1. \A r \in Requests : /\ pc'[r] = IF r = q THEN "ended" ELSE pc[r]
                              /\ seen'[r] = IF r = q THEN NothingSeen ELSE seen[r]
      BY <1>1, EndsIs
    <2>2. QED
      BY <1>1, <2>1, FitKept
  <1>2. ASSUME NEW q \in Requests,
               SetByHand(q) \/ ConfirmAgain(q) \/ ConfirmCommit(q) \/ ReturnCommit(q)
               \/ HookStatus(q)
        PROVE  RestocksFit'
    <2>1. PICK from \in Place : Ends(q, from)
      BY <1>2 DEF SetByHand, ConfirmAgain, ConfirmCommit, ReturnCommit, HookStatus, Place
    <2>2. PICK s \in Status : SetStatus(s)
      <3>1. seen[q].status \in Status
        BY DEF TypeOK
      <3>2. QED
        BY <1>2, <3>1 DEF SetByHand, ConfirmAgain, ConfirmCommit, ReturnCommit, HookStatus, Status
    <2>3. UNCHANGED restocks
      BY <1>2 DEF SetByHand, ConfirmAgain, ConfirmCommit, ReturnCommit, HookStatus, stockVars
    <2>4. QED
      BY <1>1, <2>1, <2>2, <2>3
  <1>3. ASSUME NEW q \in Requests, Fails(q)
        PROVE  RestocksFit'
    <2>1. pc[q] \in Place /\ Ends(q, pc[q]) /\ UNCHANGED restocks /\ SameStatus
      BY <1>3 DEF Fails, TypeOK, Place, stockVars, SameStatus, orderVars
    <2>2. status \in Status
      BY DEF TypeOK
    <2>3. QED
      BY <1>1, <2>1, <2>2
  <1>4. ASSUME NEW q \in Requests, NEW to \in Place \ {"cancelling", "hookCancel"},
               NEW from \in Place, Goes(q, from, to),
               UNCHANGED restocks, SameStatus,
               \A r \in Requests \ {q} : seen'[r] = seen[r]
        PROVE  RestocksFit'
    <2>1. \A r \in Requests : pc'[r] = IF r = q THEN to ELSE pc[r]
      BY <1>4, PlacesKept
    <2>2. QED
      BY <1>4, <2>1, FitKept
  <1>5. ASSUME NEW q \in Requests, Confirm(q) \/ RequestReturn(q)
        PROVE  RestocksFit'
    <2>1. \E to \in {"asking", "returning"} : Goes(q, "idle", to)
      BY <1>5 DEF Confirm, RequestReturn
    <2>2. UNCHANGED restocks /\ SameStatus /\ seen' = seen
      BY <1>5 DEF Confirm, RequestReturn, stockVars
    <2>3. QED
      BY <1>4, <2>1, <2>2 DEF Place
  <1>6. ASSUME NEW q \in Requests, CarrierCreates(q)
        PROVE  RestocksFit'
    <2>1. UNCHANGED restocks /\ SameStatus
      BY <1>6 DEF CarrierCreates, stockVars
    <2>2. CASE Ends(q, "asking")
      <3>1. status \in Status
        BY DEF TypeOK
      <3>2. QED
        BY <1>1, <2>1, <2>2, <3>1 DEF Place
    <2>3. CASE \E p \in Parcels : /\ Goes(q, "asking", "confirming")
                                  /\ seen' = [seen EXCEPT ![q].parcel = p]
      <3>1. \A r \in Requests \ {q} : seen'[r] = seen[r]
        BY <2>3 DEF TypeOK
      <3>2. QED
        BY <1>4, <2>1, <2>3, <3>1 DEF Place
    <2>4. QED
      BY <1>6, <2>2, <2>3 DEF CarrierCreates
  <1>7. ASSUME NEW q \in Requests, Cancel(q)
        PROVE  RestocksFit'
    <2>1. /\ \A r \in Requests : pc'[r] = IF r = q THEN "cancelling" ELSE pc[r]
          /\ UNCHANGED <<restocks, status, reopened, seen>> /\ status = "PENDING"
      BY <1>7, PlacesKept DEF Cancel, Place, stockVars, SameStatus
    <2>2. QED
      BY <2>1 DEF RestocksFit, RestocksOnce
  <1>8. ASSUME NEW q \in Requests, CancelCommit(q)
        PROVE  RestocksFit'
    <2>1. pc[q] = "cancelling" /\ \A r \in Requests : pc'[r] = IF r = q THEN "ended" ELSE pc[r]
      BY <1>8, EndsIs DEF CancelCommit, Place
    <2>2. restocks <= reopened
      BY <2>1 DEF RestocksFit
    <2>3. QED
      BY <1>8, <2>1, <2>2, FitRestocked DEF CancelCommit
  <1>9. ASSUME NEW q \in Requests, HookRead(q)
        PROVE  RestocksFit'
    <2>1. UNCHANGED restocks /\ SameStatus
      BY <1>9 DEF HookRead, stockVars, SameStatus, orderVars
    <2>2. CASE Ends(q, "idle")
      <3>1. status \in Status
        BY DEF TypeOK
      <3>2. QED
        BY <1>1, <2>1, <2>2, <3>1 DEF Place
    <2>3. CASE ~Ends(q, "idle")
      <3>1. Goes(q, "idle", "hook")
        BY <1>9, <2>3 DEF HookRead, Goes
      <3>2. \A r \in Requests \ {q} : seen'[r] = seen[r]
        BY <1>9, <2>3 DEF HookRead, TypeOK
      <3>3. QED
        BY <1>4, <2>1, <3>1, <3>2 DEF Place
    <2>4. QED
      BY <2>2, <2>3
  <1>10. ASSUME NEW q \in Requests, HookCancel(q)
         PROVE  RestocksFit'
    <2>1. /\ \A r \in Requests : pc'[r] = IF r = q THEN "hookCancel" ELSE pc[r]
          /\ UNCHANGED <<restocks, status, reopened>>
      BY <1>10, PlacesKept DEF HookCancel, Place, orderVars
    <2>2. /\ seen'[q].status = status
          /\ \A r \in Requests \ {q} : seen'[r] = seen[r]
      BY <1>10 DEF HookCancel, TypeOK
    <2>3. QED
      BY <2>1, <2>2 DEF RestocksFit, RestocksOnce
  <1>11. ASSUME NEW q \in Requests, HookCancelCommit(q)
         PROVE  RestocksFit'
    <2>1. /\ pc[q] = "hookCancel"
          /\ \A r \in Requests : /\ pc'[r] = IF r = q THEN "ended" ELSE pc[r]
                                 /\ seen'[r] = IF r = q THEN NothingSeen ELSE seen[r]
      BY <1>11, EndsIs DEF HookCancelCommit, Place
    <2>2. CASE SameStatus /\ UNCHANGED restocks
      BY <2>1, <2>2, FitKept
    <2>3. CASE seen[q].status # "CANCELLED" /\ CancelByCarrier(q)
      <3>1. restocks <= reopened
        BY <2>1, <2>3 DEF RestocksFit
      <3>2. restocks \in Nat
        BY DEF TypeOK
      <3>3. SetStatus("CANCELLED") /\ (restocks' = restocks + 1 \/ restocks' = restocks + 0)
        <4>1. PICK back \in {0, 1} : restocks' = restocks + back
          BY <2>3 DEF CancelByCarrier
        <4>2. QED
          BY <2>3, <4>1 DEF CancelByCarrier
      <3>4. CASE restocks' = restocks + 1
        BY <2>1, <3>1, <3>3, <3>4, FitRestocked
      <3>5. CASE restocks' = restocks
        BY <2>1, <3>3, <3>5, FitKept DEF Status
      <3>6. QED
        BY <3>2, <3>3, <3>4, <3>5
    <2>4. QED
      BY <1>11, <2>2, <2>3 DEF HookCancelCommit
  <1>12. CASE EndReturn
    <2>1. UNCHANGED <<restocks, pc, seen>> /\ SetStatus("DELIVERED")
      BY <1>12 DEF EndReturn, stockVars, requestVars
    <2>2. QED
      BY <2>1, FitKept DEF Status
  <1>13. CASE SevenDaysPass
    <2>1. UNCHANGED <<restocks, pc, status, reopened>>
      BY <1>13 DEF SevenDaysPass, stockVars
    <2>2. \A r \in Requests : seen'[r].status = seen[r].status
      BY <1>13 DEF SevenDaysPass, TypeOK
    <2>3. QED
      BY <2>1, <2>2, FitKept DEF SameStatus
  <1>14. CASE (\E p \in Parcels : CarrierMoves(p)) \/ BookListener \/ UNCHANGED vars
    <2>1. UNCHANGED <<restocks, pc, seen, status, reopened>>
      BY <1>14 DEF CarrierMoves, BookListener, vars, stockVars, requestVars, orderVars
    <2>2. QED
      BY <2>1, FitKept DEF SameStatus
  <1>15. QED
    BY <1>2, <1>3, <1>5, <1>6, <1>7, <1>8, <1>9, <1>10, <1>11, <1>12, <1>13, <1>14 DEF Next

\* An order whose cancellations do not overlap is put back in stock once, and once
\* more for each time it has left CANCELLED since: whatever the admin sets by hand,
\* whatever is confirmed, delivered, sent back or reported between the check for
\* PENDING and the transaction of cancelOrder.
THEOREM RestockedOnceOneAtATime ==
  Spec /\ []CancelsOneAtATime => [](RestocksOnce /\ CancelledOnce)
  <1>1. TypeOK /\ RestocksFit => RestocksOnce /\ CancelledOnce
    BY DEF TypeOK, RestocksFit, RestocksOnce, CancelledOnce
  <1>2. QED
    BY <1>1, InitRestocksFit, NextRestocksFit, OrderTyped, PTL DEF Spec

-----------------------------------------------------------------------------
\* A confirmation begins when the last one is over.
ConfirmsOneAtATime == AtMostOneAt({"asking", "confirming"})

\* A confirmation for which the carrier has created a parcel gets its answer and
\* commits: no lost answer, no error and no crash in between.
ConfirmsSucceed ==
    \A q \in Requests :
        /\ pc[q] = "asking" /\ pc'[q] = "ended" => UNCHANGED phase
        /\ pc[q] = "confirming" /\ pc'[q] = "ended" => shipment' = seen[q].parcel

\* Every parcel is the order's, or in the hands of a confirmation that will make
\* it so.
ParcelsKnown ==
    /\ \A p \in Parcels : phase[p] # "none" =>
          \/ p = shipment
          \/ \E q \in Requests : pc[q] = "confirming" /\ seen[q].parcel = p
    /\ \A q \in Requests : pc[q] \in {"asking", "confirming"} => shipment = None

LEMMA InitParcelsKnown == Init => ParcelsKnown
  BY DEF Init, ParcelsKnown

\* A step of anything but a confirmation.
LEMMA ParcelsStay ==
  ASSUME ParcelsKnown, UNCHANGED shipment,
         \A p \in Parcels : phase'[p] # "none" => phase[p] # "none",
         \A r \in Requests :
            /\ pc'[r] \in {"asking", "confirming"} => pc[r] \in {"asking", "confirming"}
            /\ pc[r] = "confirming" => /\ pc'[r] = "confirming"
                                       /\ seen'[r].parcel = seen[r].parcel
  PROVE  ParcelsKnown'
  BY DEF ParcelsKnown

LEMMA NextParcelsKnown ==
  IInv /\ ConfirmsOneAtATime /\ ParcelsKnown /\ [Next /\ ConfirmsSucceed]_vars => ParcelsKnown'
  <1> SUFFICES ASSUME IInv, ConfirmsOneAtATime, ParcelsKnown, [Next /\ ConfirmsSucceed]_vars
               PROVE  ParcelsKnown'
    OBVIOUS
  <1>0. TypeOK /\ ReadyToConfirm
    BY DEF IInv
  <1>1. ASSUME NEW q \in Requests, NEW from \in Place \ {"asking", "confirming"},
               Ends(q, from), UNCHANGED <<shipment, phase>>
        PROVE  ParcelsKnown'
    <2>1. /\ pc[q] = from
          /\ \A r \in Requests : /\ pc'[r] = IF r = q THEN "ended" ELSE pc[r]
                                 /\ seen'[r] = IF r = q THEN NothingSeen ELSE seen[r]
      BY <1>0, <1>1, EndsIs
    <2>2. QED
      BY <1>1, <2>1, ParcelsStay
  <1>2. ASSUME NEW q \in Requests,
               SetByHand(q) \/ ConfirmAgain(q) \/ CancelCommit(q) \/ ReturnCommit(q)
               \/ HookStatus(q) \/ HookCancelCommit(q)
        PROVE  ParcelsKnown'
    <2>1. \E from \in Place \ {"asking", "confirming"} : Ends(q, from)
      BY <1>2 DEF SetByHand, ConfirmAgain, CancelCommit, ReturnCommit, HookStatus,
                  HookCancelCommit, Place
    <2>2. UNCHANGED <<shipment, phase>>
      BY <1>2 DEF SetByHand, ConfirmAgain, CancelCommit, ReturnCommit, HookStatus,
                  HookCancelCommit, shipmentVars, carrierVars
    <2>3. QED
      BY <1>1, <2>1, <2>2
  <1>3. ASSUME NEW q \in Requests, Confirm(q)
        PROVE  ParcelsKnown'
    <2>1. /\ pc[q] = "idle" /\ shipment = None
          /\ UNCHANGED <<shipment, phase, seen>>
          /\ \A r \in Requests : pc'[r] = IF r = q THEN "asking" ELSE pc[r]
      BY <1>0, <1>3, PlacesKept DEF Confirm, Goes, Place, shipmentVars, carrierVars
    <2>2. QED
      BY <2>1 DEF ParcelsKnown
  <1>4. ASSUME NEW q \in Requests, ConfirmsSucceed, CarrierCreates(q)
        PROVE  ParcelsKnown'
    <2>1. PICK p \in Parcels :
             /\ phase[p] = "none"
             /\ phase' = [phase EXCEPT ![p] = "created"]
             /\ \/ Goes(q, "asking", "confirming") /\ seen' = [seen EXCEPT ![q].parcel = p]
                \/ Ends(q, "asking")
      BY <1>4 DEF CarrierCreates
    <2>2. phase'[p] # phase[p]
      BY <1>0, <2>1 DEF TypeOK
    <2>3. ~Ends(q, "asking")
      <3>1. SUFFICES ASSUME Ends(q, "asking") PROVE FALSE
        OBVIOUS
      <3>2. pc[q] = "asking" /\ pc'[q] = "ended"
        BY <1>0, <3>1, EndsIs DEF Place
      <3>3. QED
        BY <1>4, <2>2, <3>2 DEF ConfirmsSucceed
    <2>4. pc[q] = "asking" /\ \A r \in Requests : pc'[r] = IF r = q THEN "confirming" ELSE pc[r]
      BY <1>0, <2>1, <2>3, PlacesKept DEF Place
    <2>5. /\ seen'[q].parcel = p
          /\ \A r \in Requests \ {q} : seen'[r] = seen[r]
      BY <1>0, <2>1, <2>3 DEF TypeOK
    <2>6. UNCHANGED shipment
      BY <1>4 DEF CarrierCreates, shipmentVars
    <2>7. \A other \in Parcels \ {p} : phase'[other] = phase[other]
      BY <1>0, <2>1 DEF TypeOK
    <2>8. QED
      BY <2>4, <2>5, <2>6, <2>7 DEF ParcelsKnown
  <1>5. ASSUME NEW q \in Requests, ConfirmCommit(q)
        PROVE  ParcelsKnown'
    <2>1. /\ pc[q] = "confirming"
          /\ \A r \in Requests : pc'[r] = IF r = q THEN "ended" ELSE pc[r]
      BY <1>0, <1>5, EndsIs DEF ConfirmCommit, Place
    <2>2. shipment = None /\ shipment' = seen[q].parcel /\ phase' = phase
      BY <1>5 DEF ConfirmCommit, carrierVars
    <2>3. \A r \in Requests : pc'[r] \notin {"asking", "confirming"}
      BY <2>1 DEF ConfirmsOneAtATime, AtMostOneAt
    <2>4. \A r \in Requests : pc[r] = "confirming" => r = q
      BY <2>1 DEF ConfirmsOneAtATime, AtMostOneAt
    <2>5. \A p \in Parcels : p # shipment
      BY <2>2, OrdersAssumption
    <2>6. QED
      BY <2>2, <2>3, <2>4, <2>5 DEF ParcelsKnown
  <1>6. ASSUME NEW q \in Requests, Cancel(q) \/ RequestReturn(q) \/ HookCancel(q)
        PROVE  ParcelsKnown'
    <2>1. PICK from \in {"idle", "hook"}, to \in {"cancelling", "returning", "hookCancel"} :
             Goes(q, from, to)
      BY <1>6 DEF Cancel, RequestReturn, HookCancel
    <2>2. pc[q] = from /\ \A r \in Requests : pc'[r] = IF r = q THEN to ELSE pc[r]
      BY <1>0, <2>1, PlacesKept DEF Place
    <2>3. UNCHANGED <<shipment, phase>> /\ \A r \in Requests \ {q} : seen'[r] = seen[r]
      BY <1>0, <1>6 DEF Cancel, RequestReturn, HookCancel, shipmentVars, carrierVars, TypeOK
    <2>4. QED
      BY <2>2, <2>3, ParcelsStay
  <1>7. ASSUME NEW q \in Requests, HookRead(q)
        PROVE  ParcelsKnown'
    <2>1. UNCHANGED <<shipment, phase>>
      BY <1>7 DEF HookRead, shipmentVars, carrierVars
    <2>2. CASE Ends(q, "idle")
      BY <1>1, <2>1, <2>2 DEF Place
    <2>3. CASE ~Ends(q, "idle")
      <3>1. /\ pc[q] = "idle"
            /\ \A r \in Requests : pc'[r] = IF r = q THEN "hook" ELSE pc[r]
        BY <1>0, <1>7, <2>3 DEF HookRead, TypeOK
      <3>2. \A r \in Requests \ {q} : seen'[r] = seen[r]
        BY <1>0, <1>7, <2>3 DEF HookRead, TypeOK
      <3>3. QED
        BY <2>1, <3>1, <3>2, ParcelsStay
    <2>4. QED
      BY <2>2, <2>3
  <1>8. ASSUME NEW q \in Requests, ConfirmsSucceed, Fails(q)
        PROVE  ParcelsKnown'
    <2>1. pc[q] \in Place /\ Ends(q, pc[q]) /\ UNCHANGED <<shipment, phase>>
      BY <1>0, <1>8 DEF Fails, TypeOK, Place, shipmentVars, carrierVars
    <2>2. \A r \in Requests : /\ pc'[r] = IF r = q THEN "ended" ELSE pc[r]
                              /\ seen'[r] = IF r = q THEN NothingSeen ELSE seen[r]
      BY <1>0, <2>1, EndsIs
    <2>3. pc[q] # "confirming"
      <3>1. SUFFICES ASSUME pc[q] = "confirming" PROVE FALSE
        OBVIOUS
      <3>2. shipment' = seen[q].parcel
        BY <1>8, <2>2, <3>1 DEF ConfirmsSucceed
      <3>3. shipment = None /\ seen[q].parcel \in Parcels
        BY <1>0, <3>1 DEF ParcelsKnown, ReadyToConfirm
      <3>4. QED
        BY <2>1, <3>2, <3>3, OrdersAssumption
    <2>4. QED
      BY <2>1, <2>2, <2>3, ParcelsStay
  <1>9. ASSUME NEW p \in Parcels, CarrierMoves(p)
        PROVE  ParcelsKnown'
    <2>1. phase[p] # "none" /\ UNCHANGED <<shipment, pc, seen>>
      BY <1>9 DEF CarrierMoves, shipmentVars, requestVars
    <2>2. \A other \in Parcels \ {p} : phase'[other] = phase[other]
      BY <1>0, <1>9 DEF CarrierMoves, TypeOK
    <2>3. QED
      BY <2>1, <2>2, ParcelsStay
  <1>10. CASE EndReturn \/ BookListener \/ UNCHANGED vars
    <2>1. UNCHANGED <<shipment, phase, pc, seen>>
      BY <1>10 DEF EndReturn, BookListener, vars, shipmentVars, carrierVars, requestVars
    <2>2. QED
      BY <2>1, ParcelsStay
  <1>11. CASE SevenDaysPass
    <2>1. UNCHANGED <<shipment, phase, pc>>
      BY <1>11 DEF SevenDaysPass, carrierVars
    <2>2. \A r \in Requests : seen'[r].parcel = seen[r].parcel
      BY <1>0, <1>11 DEF SevenDaysPass, TypeOK
    <2>3. QED
      BY <2>1, <2>2, ParcelsStay
  <1>12. QED
    BY <1>2, <1>3, <1>4, <1>5, <1>6, <1>7, <1>8, <1>9, <1>10, <1>11 DEF Next

\* Every parcel at the carrier has its order while confirmations do not overlap
\* and none is cut off after the carrier has created its parcel: updateOrderStatus,
\* which creates it before the transaction, leaves no parcel alone otherwise.
THEOREM ParcelsHaveOrders ==
  Spec /\ []ConfirmsOneAtATime /\ [][ConfirmsSucceed]_vars => []NoOrphanParcel
  <1>1. ParcelsKnown => NoOrphanParcel
    BY DEF ParcelsKnown, NoOrphanParcel
  <1>2. [Next]_vars /\ [ConfirmsSucceed]_vars => [Next /\ ConfirmsSucceed]_vars
    OBVIOUS
  <1>3. QED
    BY <1>1, <1>2, InitParcelsKnown, NextParcelsKnown, SpecIInv, PTL DEF Spec
=============================================================================
