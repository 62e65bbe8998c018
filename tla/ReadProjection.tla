---------------------------- MODULE ReadProjection ----------------------------
(***************************************************************************)
(* services/read-projection-service: a consumer of all three topics that   *)
(* folds every message about an order into one document of the dashboard,  *)
(* as the saga runs. One upsert ($set and $addToSet) per message, so one   *)
(* atomic step. Its consumer group has offsets of its own: messages come   *)
(* repeatedly and in any order relative to other keys; one whose upsert    *)
(* fails is logged and skipped.                                            *)
(***************************************************************************)
EXTENDS Saga

CONSTANT Watched    \* the orders whose documents are modelled

ASSUME WatchedAssumption == Watched \subseteq Orders

EventTypes == CommandTypes \cup InventoryEventTypes \cup PaymentEventTypes \cup Announcements

VARIABLES
    shown,           \* document.status; NONE while there is no document
    shownInventory,  \* document.inventory.status
    shownPayment,    \* document.payment.status
    timeline         \* types of the messages in document.timeline

documentVars == <<shown, shownInventory, shownPayment, timeline>>
projectionVars == <<vars, documentVars>>

DocumentInit ==
    /\ shown = [o \in Watched |-> "NONE"]
    /\ shownInventory = [o \in Watched |-> "NONE"]
    /\ shownPayment = [o \in Watched |-> "NONE"]
    /\ timeline = [o \in Watched |-> {}]

(* A message of type t about order o is in a topic, or will be. *)
Written(t, o) ==
    \/ t \in CommandTypes /\ orderOutbox[o][t] > 0
    \/ t \in InventoryEventTypes /\ inventoryOutbox[o][t] > 0
    \/ t \in PaymentEventTypes /\ paymentOutbox[o][t] > 0
    \/ t \in Announcements /\ t \in announced[o]

(* What $set writes to each of the three status fields. *)
SetsStatus ==
    [ReserveInventoryCommand         |-> "INVENTORY_RESERVING",
     InventoryReservedEvent          |-> "PAYMENT_PENDING",
     InventoryReservationFailedEvent |-> "CANCELLED",
     PaymentCapturedEvent            |-> "PAYMENT_SUCCESS",
     PaymentFailedEvent              |-> "COMPENSATING_INVENTORY",
     InventoryReleasedEvent          |-> "CANCELLED",
     OrderConfirmedEvent             |-> "CONFIRMED",
     OrderCancelledEvent             |-> "CANCELLED"]

SetsInventory ==
    [InventoryReservedEvent          |-> "RESERVED",
     InventoryReservationFailedEvent |-> "FAILED",
     InventoryReleasedEvent          |-> "RELEASED"]

SetsPayment == [PaymentCapturedEvent |-> "SUCCESS", PaymentFailedEvent |-> "FAILED"]

Set(field, sets, o, t) == IF t \in DOMAIN sets THEN [field EXCEPT ![o] = sets[t]] ELSE field

(* A message that sets no status leaves it, or creates the document with   *)
(* the schema's default.                                                   *)
WithDefault(o) == [shown EXCEPT ![o] = IF @ = "NONE" THEN "PENDING" ELSE @]

(* processEvent *)
ProcessEvent(o, t) ==
    /\ Written(t, o)
    /\ shown' = Set(WithDefault(o), SetsStatus, o, t)
    /\ shownInventory' = Set(shownInventory, SetsInventory, o, t)
    /\ shownPayment' = Set(shownPayment, SetsPayment, o, t)
    /\ timeline' = [timeline EXCEPT ![o] = @ \cup {t}]
    /\ UNCHANGED vars

ProjectionInit == Init /\ DocumentInit

ProjectionNext ==
    \/ Next /\ UNCHANGED documentVars
    \/ \E o \in Watched, t \in EventTypes : ProcessEvent(o, t)

ProjectionSpec == ProjectionInit /\ [][ProjectionNext]_projectionVars

-----------------------------------------------------------------------------
(* Every message about the order has been projected at least once. *)
CaughtUp(o) == \A t \in EventTypes : Written(t, o) => t \in timeline[o]

(* The payment field does not depend on the order or number of deliveries: *)
(* it is what the ledger says once the ledger's event is in the timeline,  *)
(* and nothing before.                                                     *)
PaymentShownIsLedger ==
    \A o \in Watched :
        /\ shownPayment[o] = "SUCCESS" => Captured(o)
        /\ CaughtUp(o) /\ Captured(o) => shownPayment[o] = "SUCCESS"
        /\ CaughtUp(o) /\ ledger[o]["FAILED"] > 0 => shownPayment[o] = "FAILED"

(* Before its deadline an order whose document says CONFIRMED is confirmed *)
(* and one whose document says CANCELLED will not be, late and repeated    *)
(* messages included.                                                      *)
OutcomeShownIsTrue ==
    \A o \in Watched : ~expired[o] =>
        /\ shown[o] = "CONFIRMED" => status[o] = "CONFIRMED"
        /\ shown[o] = "CANCELLED" => status[o] # "CONFIRMED" /\ ~Captured(o)
=============================================================================
