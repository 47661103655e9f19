------------------------------- MODULE Orders -------------------------------
(***************************************************************************)
(* One placed order until the end of its life: the admin confirms it and it  *)
(* is given to the carrier (GHN), the carrier reports by webhook, customer   *)
(* and admin cancel it, the customer sends it back, an hourly job ends        *)
(* returns that nobody dealt with.                                           *)
(*                                                                         *)
(* Every handler reads the order or the shipment first and writes later,     *)
(* without a condition: only the hourly job repeats its condition in the      *)
(* UPDATE. The transaction of a webhook reads the order from the snapshot    *)
(* that its first statement, on the shipment, has taken.                     *)
(*                                                                         *)
(* The carrier is modelled from its use: a parcel goes through its phases     *)
(* once, and each phase is reported any number of times, late or not at all.  *)
(***************************************************************************)
EXTENDS Integers, FiniteSets

CONSTANTS
    Requests,       \* HTTP requests and webhook calls
    Parcels,        \* shipping orders at the carrier
    None            \* no parcel, no request

ASSUME OrdersAssumption == None \notin Requests \cup Parcels

Status == {"PENDING", "PROCESSING", "SHIPPED", "DELIVERED", "CANCELLED",
           "RETURNING", "REFUNDED"}

\* A date that is unset, set less than seven days ago, or before that.
Date == {"unset", "fresh", "expired"}

VARIABLES
    status,         \* the order's status
    returnDate,     \* its returnRequestedAt
    shipment,       \* the parcel of its shipment row, None while there is none
    shipped,        \* does that row have a shippedAt
    delivered,      \* its deliveredAt
    restocks,       \* how often a book of the order was put back in stock
    sold,           \* what the order adds to its books' soldCount
    events,         \* emitted order.created and order.cancelled, not yet handled
    pc,             \* where each request is
    seen,           \* what it has read: parcel, shippedAt, deliveredAt, status
    phase,          \* the carrier's view of each parcel
    sent,           \* the phases it has reported for each parcel
    overwritten,    \* history: the admin has set a status by hand
    reopened,       \* history: how often the order has left CANCELLED
    hookRestocks,   \* history: restocks made by webhooks
    unstocked,      \* history: webhooks that would have restocked it, without a row to
    overlap,        \* history: two webhooks were in their transaction together
    eventLost       \* history: a listener failed

orderVars    == <<status, returnDate>>
shipmentVars == <<shipment, shipped, delivered>>
stockVars    == <<restocks, hookRestocks, unstocked, overlap>>
soldVars     == <<sold, events, eventLost>>
carrierVars  == <<phase, sent>>
requestVars  == <<pc, seen>>
vars == <<orderVars, shipmentVars, stockVars, soldVars, carrierVars,
          requestVars, overwritten, reopened>>

NothingSeen == [parcel |-> None, shipped |-> FALSE, delivered |-> "unset", status |-> "PENDING"]

Init ==
    /\ status = "PENDING"
    /\ returnDate = "unset"
    /\ shipment = None
    /\ shipped = FALSE
    /\ delivered = "unset"
    /\ restocks = 0
    /\ sold = 0
    /\ events = [created |-> 1, cancelled |-> 0]
    /\ pc = [q \in Requests |-> "idle"]
    /\ seen = [q \in Requests |-> NothingSeen]
    /\ phase = [p \in Parcels |-> "none"]
    /\ sent = [p \in Parcels |-> {}]
    /\ overwritten = FALSE
    /\ reopened = 0
    /\ hookRestocks = 0
    /\ unstocked = 0
    /\ overlap = FALSE
    /\ eventLost = FALSE

-----------------------------------------------------------------------------
SetStatus(s) ==
    /\ status' = s
    /\ reopened' = IF status = "CANCELLED" /\ s # "CANCELLED" THEN reopened + 1 ELSE reopened

SameStatus == UNCHANGED <<status, reopened>>

Goes(q, from, to) == pc[q] = from /\ pc' = [pc EXCEPT ![q] = to]

\* A request that is over forgets what it has read.
Ends(q, from) == Goes(q, from, "ended") /\ seen' = [seen EXCEPT ![q] = NothingSeen]

\* A request that ends with an error, or by a crash, before its last write.
Fails(q) ==
    /\ pc[q] \notin {"idle", "ended"}
    /\ Ends(q, pc[q])
    /\ UNCHANGED <<orderVars, shipmentVars, stockVars, soldVars, carrierVars,
                   overwritten, reopened>>

-----------------------------------------------------------------------------
(* PATCH /orders/:id/status.                                               *)

\* Any status but PROCESSING, CANCELLED and RETURNED is simply written.
\* (RETURNED is refused: the database's enum does not have it.)
SetByHand(q) ==
    /\ Ends(q, "idle")
    /\ \E s \in Status \ {"PROCESSING", "CANCELLED"} : SetStatus(s)
    /\ overwritten' = TRUE
    /\ UNCHANGED <<returnDate, shipmentVars, stockVars, soldVars, carrierVars>>

\* PROCESSING, and the order has a shipment already.
ConfirmAgain(q) ==
    /\ Ends(q, "idle")
    /\ shipment # None
    /\ SetStatus("PROCESSING")
    /\ UNCHANGED <<returnDate, shipmentVars, stockVars, soldVars, carrierVars, overwritten>>

\* PROCESSING, and no shipment was found. The order's status is not looked at.
Confirm(q) ==
    /\ Goes(q, "idle", "asking")
    /\ shipment = None
    /\ SameStatus
    /\ UNCHANGED <<returnDate, shipmentVars, stockVars, soldVars, carrierVars, seen, overwritten>>

\* The carrier creates a parcel; its answer may be lost.
CarrierCreates(q) ==
    /\ \E p \in Parcels :
          /\ phase[p] = "none"
          /\ phase' = [phase EXCEPT ![p] = "created"]
          /\ sent' = [sent EXCEPT ![p] = {"created"}]
          /\ \/ Goes(q, "asking", "confirming") /\ seen' = [seen EXCEPT ![q].parcel = p]
             \/ Ends(q, "asking")
    /\ SameStatus
    /\ UNCHANGED <<returnDate, shipmentVars, stockVars, soldVars, overwritten>>

\* Mutant: the shipment is created after the transaction, by somebody else.
ConfirmCommit_NoShipment(q) ==
    /\ Ends(q, "confirming")
    /\ shipment = None
    /\ SetStatus("PROCESSING")
    /\ UNCHANGED <<returnDate, shipmentVars, stockVars, soldVars, carrierVars, overwritten>>

\* One transaction creates the shipment (orderId is unique) and sets the status.
ConfirmCommit(q) ==
    /\ Ends(q, "confirming")
    /\ shipment = None
    /\ shipment' = seen[q].parcel
    /\ SetStatus("PROCESSING")
    /\ UNCHANGED <<returnDate, shipped, delivered, stockVars, soldVars, carrierVars, overwritten>>

-----------------------------------------------------------------------------
(* Cancelling, by the customer or by the admin.                            *)

Cancel(q) ==
    /\ Goes(q, "idle", "cancelling")
    /\ status = "PENDING"
    /\ SameStatus
    /\ UNCHANGED <<returnDate, shipmentVars, stockVars, soldVars, carrierVars, seen, overwritten>>

\* Mutant: no order.cancelled is emitted.
CancelCommit_Silent(q) ==
    /\ Ends(q, "cancelling")
    /\ restocks' = restocks + 1
    /\ SetStatus("CANCELLED")
    /\ UNCHANGED <<returnDate, shipmentVars, hookRestocks, unstocked, overlap, soldVars,
                   carrierVars, overwritten>>

\* One transaction restocks every item and sets the status, whatever it is by
\* now; then order.cancelled is emitted. An item without a stock row makes it
\* fail (Fails).
CancelCommit(q) ==
    /\ Ends(q, "cancelling")
    /\ restocks' = restocks + 1
    /\ SetStatus("CANCELLED")
    /\ events' = [events EXCEPT !.cancelled = @ + 1]
    /\ UNCHANGED <<returnDate, shipmentVars, hookRestocks, unstocked, overlap, sold, eventLost,
                   carrierVars, overwritten>>

-----------------------------------------------------------------------------
(* Returns.                                                                *)

RequestReturn(q) ==
    /\ Goes(q, "idle", "returning")
    /\ status = "DELIVERED"
    /\ delivered = "fresh"
    /\ SameStatus
    /\ UNCHANGED <<returnDate, shipmentVars, stockVars, soldVars, carrierVars, seen, overwritten>>

ReturnCommit(q) ==
    /\ Ends(q, "returning")
    /\ SetStatus("RETURNING")
    /\ returnDate' = "fresh"
    /\ UNCHANGED <<shipmentVars, stockVars, soldVars, carrierVars, overwritten>>

\* Mutant: the comparison with the cutoff is the wrong way round.
EndReturn_WrongSide ==
    /\ status = "RETURNING"
    /\ returnDate = "fresh"
    /\ SetStatus("DELIVERED")
    /\ returnDate' = "unset"
    /\ UNCHANGED <<shipmentVars, stockVars, soldVars, carrierVars, requestVars, overwritten>>

\* The hourly job; its updateMany repeats the condition of its findMany.
EndReturn ==
    /\ status = "RETURNING"
    /\ returnDate = "expired"
    /\ SetStatus("DELIVERED")
    /\ returnDate' = "unset"
    /\ UNCHANGED <<shipmentVars, stockVars, soldVars, carrierVars, requestVars, overwritten>>

SevenDaysPass ==
    /\ \/ /\ returnDate = "fresh"
          /\ returnDate' = "expired"
          /\ UNCHANGED <<delivered, seen>>
       \/ /\ delivered = "fresh"
          /\ delivered' = "expired"
          /\ seen' = [q \in Requests |-> [seen[q] EXCEPT
                        !.delivered = IF @ = "fresh" THEN "expired" ELSE @]]
          /\ UNCHANGED returnDate
    /\ UNCHANGED <<status, shipment, shipped, stockVars, soldVars, carrierVars, pc,
                   overwritten, reopened>>

-----------------------------------------------------------------------------
(* The carrier and its webhook.                                            *)

\* A parcel can be cancelled until it is on its way, and comes back from there.
CarrierMoves(p) ==
    /\ \E next \in CASE phase[p] = "created" -> {"shipped", "cancelled"}
                     [] phase[p] = "shipped" -> {"delivered", "returning"}
                     [] OTHER -> {} :
          /\ phase' = [phase EXCEPT ![p] = next]
          /\ sent' = [sent EXCEPT ![p] = @ \cup {next}]
    /\ UNCHANGED <<orderVars, shipmentVars, stockVars, soldVars, requestVars,
                   overwritten, reopened>>

\* Mutant: a parcel coming back sets the status that is only in the enum of the
\* TypeScript code.
StatusOf_Returned(report) ==
    CASE report = "created"   -> "PROCESSING"
      [] report = "shipped"   -> "SHIPPED"
      [] report = "delivered" -> "DELIVERED"
      [] report = "cancelled" -> "CANCELLED"
      [] report = "returning" -> "RETURNED"

\* MAP_GHN_STATUS, one report for each group of the carrier's statuses.
StatusOf(report) ==
    CASE report = "created"   -> "PROCESSING"
      [] report = "shipped"   -> "SHIPPED"
      [] report = "delivered" -> "DELIVERED"
      [] report = "cancelled" -> "CANCELLED"
      [] report = "returning" -> "RETURNING"

\* The shipment is looked up by the carrier's code, outside any transaction.
\* A call for an unknown code answers "not handled".
HookRead(q) ==
    /\ pc[q] = "idle"
    /\ \E p \in Parcels : \E report \in sent[p] :
          IF p = shipment
            THEN /\ pc' = [pc EXCEPT ![q] = "hook"]
                 /\ seen' = [seen EXCEPT ![q] =
                       [parcel |-> p, shipped |-> shipped, delivered |-> delivered,
                        status |-> StatusOf(report)]]
            ELSE Ends(q, "idle")
    /\ UNCHANGED <<orderVars, shipmentVars, stockVars, soldVars, carrierVars, overwritten, reopened>>

\* Mutant: a date that does not apply is written as null, not left alone.
HookStatus_Null(q) ==
    /\ Ends(q, "hook")
    /\ seen[q].status # "CANCELLED"
    /\ SetStatus(seen[q].status)
    /\ shipped' = (seen[q].status = "SHIPPED")
    /\ delivered' = IF seen[q].status # "DELIVERED" THEN "unset"
                    ELSE IF seen[q].delivered = "unset" THEN "fresh" ELSE seen[q].delivered
    /\ UNCHANGED <<returnDate, shipment, stockVars, soldVars, carrierVars, overwritten>>

\* Every report but a cancellation: shipment and order in one transaction.
\* A date read as set is written back, one read as unset becomes now.
HookStatus(q) ==
    /\ Ends(q, "hook")
    /\ seen[q].status # "CANCELLED"
    /\ SetStatus(seen[q].status)
    /\ shipped' = (shipped \/ seen[q].status = "SHIPPED")
    /\ delivered' = IF seen[q].status # "DELIVERED" THEN delivered
                    ELSE IF seen[q].delivered = "unset" THEN "fresh" ELSE seen[q].delivered
    /\ UNCHANGED <<returnDate, shipment, stockVars, soldVars, carrierVars, overwritten>>

\* A cancellation: its transaction begins, and with it the view of the order.
HookCancel(q) ==
    /\ Goes(q, "hook", "hookCancel")
    /\ seen[q].status = "CANCELLED"
    /\ seen' = [seen EXCEPT ![q].status = status]
    /\ overlap' = (overlap \/ \E other \in Requests : pc[other] = "hookCancel")
    /\ UNCHANGED <<orderVars, shipmentVars, restocks, hookRestocks, unstocked, soldVars,
                   carrierVars, overwritten, reopened>>

\* The order's status is set. Unless the shipment had a shippedAt when the
\* webhook came in, its book goes back to the stock row, if there is one: that
\* there was none is not looked at, and soldCount is reduced all the same.
CancelByCarrier(q) ==
    /\ SetStatus("CANCELLED")
    /\ \E found \in BOOLEAN :
          LET n == IF seen[q].status = "PENDING" \/ ~seen[q].shipped THEN 1 ELSE 0
              back == IF found THEN n ELSE 0
          IN  /\ restocks' = restocks + back
              /\ hookRestocks' = hookRestocks + back
              /\ unstocked' = unstocked + n - back
              /\ sold' = sold - n

\* Mutant: the status of the order is not looked at.
HookCancelCommit_Always(q) ==
    /\ Ends(q, "hookCancel")
    /\ CancelByCarrier(q)
    /\ UNCHANGED <<returnDate, shipmentVars, events, eventLost, overlap, carrierVars, overwritten>>

\* Nothing is done when the order was cancelled already.
HookCancelCommit(q) ==
    /\ Ends(q, "hookCancel")
    /\ IF seen[q].status = "CANCELLED"
         THEN UNCHANGED <<restocks, hookRestocks, unstocked, sold>> /\ SameStatus
         ELSE CancelByCarrier(q)
    /\ UNCHANGED <<returnDate, shipmentVars, events, eventLost, overlap, carrierVars, overwritten>>

-----------------------------------------------------------------------------
(* The listeners of the book module; their errors are only logged.         *)

BookListener ==
    /\ \/ /\ events.created > 0
          /\ events' = [events EXCEPT !.created = @ - 1]
          /\ \/ sold' = sold + 1 /\ UNCHANGED eventLost
             \/ eventLost' = TRUE /\ UNCHANGED sold
       \/ /\ events.cancelled > 0
          /\ events' = [events EXCEPT !.cancelled = @ - 1]
          /\ \/ sold' = sold - 1 /\ UNCHANGED eventLost
             \/ eventLost' = TRUE /\ UNCHANGED sold
    /\ UNCHANGED <<orderVars, shipmentVars, stockVars, carrierVars, requestVars,
                   overwritten, reopened>>

Next ==
    \/ \E q \in Requests :
          \/ SetByHand(q) \/ ConfirmAgain(q) \/ Confirm(q) \/ CarrierCreates(q)
          \/ ConfirmCommit(q) \/ Cancel(q) \/ CancelCommit(q)
          \/ RequestReturn(q) \/ ReturnCommit(q)
          \/ HookRead(q) \/ HookStatus(q) \/ HookCancel(q) \/ HookCancelCommit(q)
          \/ Fails(q)
    \/ \E p \in Parcels : CarrierMoves(p)
    \/ EndReturn
    \/ SevenDaysPass
    \/ BookListener

\* The hourly job runs and time passes. Nobody has to call anything.
Fairness == WF_vars(EndReturn) /\ WF_vars(SevenDaysPass)

Spec == Init /\ [][Next]_vars
FairSpec == Spec /\ Fairness

-----------------------------------------------------------------------------
TypeOK ==
    /\ status \in Status
    /\ returnDate \in Date
    /\ shipment \in Parcels \cup {None}
    /\ shipped \in BOOLEAN
    /\ delivered \in Date
    /\ restocks \in Nat
    /\ sold \in Int
    /\ events \in [created : Nat, cancelled : Nat]
    /\ pc \in [Requests -> {"idle", "asking", "confirming", "cancelling", "returning",
                            "hook", "hookCancel", "ended"}]
    /\ seen \in [Requests -> [parcel : Parcels \cup {None}, shipped : BOOLEAN,
                              delivered : Date, status : Status]]
    /\ phase \in [Parcels -> {"none", "created", "shipped", "delivered", "cancelled",
                              "returning"}]
    /\ sent \in [Parcels -> SUBSET {"created", "shipped", "delivered", "cancelled",
                                    "returning"}]
    /\ overwritten \in BOOLEAN
    /\ reopened \in Nat
    /\ hookRestocks \in Nat
    /\ unstocked \in Nat
    /\ overlap \in BOOLEAN
    /\ eventLost \in BOOLEAN

\* An order is never processed, shipped, delivered or coming back without a
\* shipment row for a parcel the carrier has created, unless the admin wrote
\* the status by hand: concurrent confirmations, retries and failed calls to
\* the carrier cannot get it there.
StatusNeedsShipment ==
    /\ status = "PROCESSING" => shipment # None
    /\ (~overwritten /\ status \in {"SHIPPED", "DELIVERED", "RETURNING"}) => shipment # None
    /\ shipment # None => phase[shipment] # "none"

\* The two ways of cancelling, one counting through an event and one in its own
\* transaction, keep soldCount in step with the returns booked in the stock log
\* while no listener fails: the two part only where a webhook found no stock row,
\* and then soldCount is the lower by exactly what came back to no row.
SoldFollowsStock ==
    ~eventLost => sold + unstocked = 1 - events.created - restocks + events.cancelled

\* Webhooks are idempotent: however often and late the carrier reports a
\* cancellation, webhooks put the items back once, and once more for each time
\* the order has left CANCELLED since. Only two reports that are in their
\* transactions together can both see an order that is not cancelled.
CancelReportsRestockOnce == overlap \/ hookRestocks <= 1 + reopened

\* Reports that arrive late, twice or out of order never take back the dates
\* that the return window and the restocking decision depend on.
DatesNeverUnset ==
    [][/\ shipped => shipped'
       /\ delivered # "unset" => delivered' # "unset"]_vars

\* A return that a customer asked for does not stay open for ever: a webhook,
\* the admin or the hourly job ends it.
ReturnEnds ==
    (status = "RETURNING" /\ returnDate # "unset")
        ~> (status # "RETURNING" \/ returnDate = "unset")

\* What the comment above the confirmation says: the parcel is created in the
\* transaction that sets PROCESSING, so that order and shipment agree.
NoOrphanParcel ==
    (\A q \in Requests : pc[q] # "confirming") =>
        \A p \in Parcels : phase[p] # "none" => p = shipment

\* What cancelOrder refuses: an order that has been cancelled is not cancelled
\* again, so its items are put back once.
CancelledOnce == ~overwritten /\ reopened = 0 => restocks <= 1
=============================================================================
