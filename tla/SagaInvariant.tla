--------------------------- MODULE SagaInvariant ----------------------------
(***************************************************************************)
(* The inductive invariant behind the safety properties of Saga. It ties   *)
(* an order's status to the commands written for it, each service's        *)
(* effects to the command it handled, and the orchestrator's next command  *)
(* to the effect that must precede it.                                     *)
(***************************************************************************)
EXTENDS Saga

(* Every order asks for something (the proofs' hypothesis: the DTO does    *)
(* not demand it).                                                         *)
NonEmptyOrders == \A o \in Orders : Items[o] # <<>>

Commanded(o, t) == orderOutbox[o][t]
Told(o, t) == inventoryOutbox[o][t]

Handled(t, o) == <<t, o, 1>> \in inventoryProcessed
PaymentHandled(o) == <<"InitiatePaymentCommand", o, 1>> \in paymentProcessed

(* The orchestrator's status tells which commands it has written: one      *)
(* reservation per order, then at most one payment, then at most one       *)
(* release.                                                                *)
CommandsFollowStatus(o) ==
    /\ status[o] # "INVENTORY_RESERVING"
    /\ Commanded(o, "ReserveInventoryCommand") = IF Exists(o) THEN 1 ELSE 0
    /\ Commanded(o, "InitiatePaymentCommand") \in {0, 1}
    /\ Commanded(o, "ReleaseInventoryCommand") \in {0, 1}
    /\ Commanded(o, "ReleaseInventoryCommand") = 1 =>
         Commanded(o, "InitiatePaymentCommand") = 1
    /\ status[o] \in {"NONE", "CREATED"} => Commanded(o, "InitiatePaymentCommand") = 0
    /\ status[o] \in {"PAYMENT_PENDING", "CONFIRMED"} =>
         Commanded(o, "InitiatePaymentCommand") = 1
    /\ status[o] = "PAYMENT_PENDING" => Commanded(o, "ReleaseInventoryCommand") = 0
    /\ status[o] = "COMPENSATING_INVENTORY" =>
         Commanded(o, "ReleaseInventoryCommand") = 1
    /\ status[o] = "CANCELLED" /\ Commanded(o, "ReleaseInventoryCommand") = 0 =>
         Commanded(o, "InitiatePaymentCommand") = 0

(* The inventory's rows and events follow from the commands it handled. *)
InventoryFollowsCommands(o) ==
    /\ Handled("ReserveInventoryCommand", o) =>
         Commanded(o, "ReserveInventoryCommand") = 1
    /\ Handled("ReleaseInventoryCommand", o) =>
         Commanded(o, "ReleaseInventoryCommand") = 1
    /\ Told(o, "InventoryReservedEvent") + Told(o, "InventoryReservationFailedEvent")
         = IF Handled("ReserveInventoryCommand", o) THEN 1 ELSE 0
    /\ Told(o, "InventoryReleasedEvent")
         = IF Handled("ReleaseInventoryCommand", o) THEN 1 ELSE 0
    /\ reservations[o]["RESERVED"] + reservations[o]["RELEASED"]
         = Told(o, "InventoryReservedEvent")
    /\ reservations[o]["RELEASED"] > 0 <=> Handled("ReleaseInventoryCommand", o)
    /\ o \notin tombstones

(* The ledger and the payment events follow from the command it handled. *)
PaymentFollowsCommands(o) ==
    /\ PaymentHandled(o) => Commanded(o, "InitiatePaymentCommand") = 1
    /\ ledger[o]["SUCCESS"] + ledger[o]["FAILED"] = IF PaymentHandled(o) THEN 1 ELSE 0
    /\ paymentOutbox[o]["PaymentCapturedEvent"] = ledger[o]["SUCCESS"]
    /\ paymentOutbox[o]["PaymentFailedEvent"] = ledger[o]["FAILED"]

(* The orchestrator acts on what the services did. *)
CommandsFollowEffects(o) ==
    /\ Commanded(o, "InitiatePaymentCommand") = 1 =>
         Told(o, "InventoryReservedEvent") = 1
    /\ status[o] = "CONFIRMED" => ledger[o]["SUCCESS"] = 1

(* Before the deadline only a failed payment starts a compensation, and    *)
(* only a refused or a released reservation cancels.                       *)
DeadlineRules(o) ==
    /\ o \in scan => expired[o]
    /\ ~expired[o] /\ Commanded(o, "ReleaseInventoryCommand") = 1 =>
         ledger[o]["FAILED"] = 1
    /\ ~expired[o] /\ status[o] = "CANCELLED" =>
         \/ Told(o, "InventoryReservationFailedEvent") = 1
         \/ Handled("ReleaseInventoryCommand", o)

(* Announcements agree with the status until a late compensation. *)
AnnouncementsFollowStatus(o) ==
    ~expired[o] \/ Commanded(o, "ReleaseInventoryCommand") = 0 =>
        announced[o] = CASE status[o] = "CONFIRMED" -> {"OrderConfirmedEvent"}
                         [] status[o] = "CANCELLED" -> {"OrderCancelledEvent"}
                         [] OTHER -> {}

SagaInv(o) ==
    /\ CommandsFollowStatus(o)
    /\ InventoryFollowsCommands(o)
    /\ PaymentFollowsCommands(o)
    /\ CommandsFollowEffects(o)
    /\ DeadlineRules(o)
    /\ AnnouncementsFollowStatus(o)

(* Which commands were written, what they did, what was reported and what  *)
(* was announced agree for every order, in every state.                    *)
IInv == \A o \in Orders : SagaInv(o)
=============================================================================
