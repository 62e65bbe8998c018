-------------------------------- MODULE Saga --------------------------------
(***************************************************************************)
(* The whole saga: the order, inventory and payment services, joined by    *)
(* their outboxes, the relays that publish them and Kafka.                 *)
(*                                                                         *)
(* A row of an outbox may reach its consumer at any time after it was      *)
(* written, any number of times and in any order relative to other rows:   *)
(* relays publish a row again when its lease ends or an acknowledgement is *)
(* lost, consumers see a record again after a rebalance, and the rows of   *)
(* one order have different keys, hence different partitions               *)
(* (reservationId, transactionId and orderId). It may also never arrive: a *)
(* row is FAILED for good after five failed sends, and a record whose      *)
(* handler throws is quarantined in a dead-letter topic, its offset        *)
(* committed. At most MaxLost rows are lost.                               *)
(***************************************************************************)
EXTENDS OrderService, InventoryService, PaymentService

CONSTANT MaxLost

ASSUME MaxLostAssumption == MaxLost \in Nat

VARIABLE lost       \* rows that will not be delivered any more

vars == <<orderVars, inventoryVars, paymentVars, lost>>

Rows ==
    (CommandTypes \cup InventoryEventTypes \cup PaymentEventTypes) \X Orders \X Nat

TypeOK ==
    /\ OrderTypeOK
    /\ InventoryTypeOK
    /\ PaymentTypeOK
    /\ lost \in SUBSET Rows

Init == OrderInit /\ InventoryInit /\ PaymentInit /\ lost = {}

-----------------------------------------------------------------------------
(* The n-th row of type t for order o can be delivered. *)
Deliverable(outbox, t, o, n) ==
    /\ n \in 1 .. outbox[o][t]
    /\ <<t, o, n>> \notin lost

(* The order service's consumer gets a row of another service's outbox. *)
Receives(outbox, t, o) == \E n \in 1 .. outbox[o][t] : Deliverable(outbox, t, o, n)

OrderStep(A) == A /\ UNCHANGED <<inventoryVars, paymentVars, lost>>

ReceiveInventoryReserved(o) ==
    /\ Receives(inventoryOutbox, "InventoryReservedEvent", o)
    /\ OrderStep(HandleInventoryReserved(o))

ReceiveInventoryReservationFailed(o) ==
    /\ Receives(inventoryOutbox, "InventoryReservationFailedEvent", o)
    /\ OrderStep(HandleInventoryReservationFailed(o))

ReceivePaymentCaptured(o) ==
    /\ Receives(paymentOutbox, "PaymentCapturedEvent", o)
    /\ OrderStep(HandlePaymentCaptured(o))

ReceivePaymentFailed(o) ==
    /\ Receives(paymentOutbox, "PaymentFailedEvent", o)
    /\ OrderStep(HandlePaymentFailed(o))

ReceiveInventoryReleased(o) ==
    /\ Receives(inventoryOutbox, "InventoryReleasedEvent", o)
    /\ OrderStep(HandleInventoryReleased(o))

(* Commands reach the inventory and the payment service. *)
ReceiveReserveInventory(o) ==
    \E n \in 1 .. orderOutbox[o]["ReserveInventoryCommand"] :
        /\ Deliverable(orderOutbox, "ReserveInventoryCommand", o, n)
        /\ HandleReserveInventoryCommand(o, n)
        /\ UNCHANGED <<orderVars, paymentVars, lost>>

ReceiveReleaseInventory(o) ==
    \E n \in 1 .. orderOutbox[o]["ReleaseInventoryCommand"] :
        /\ Deliverable(orderOutbox, "ReleaseInventoryCommand", o, n)
        /\ HandleReleaseInventoryCommand(o, n)
        /\ UNCHANGED <<orderVars, paymentVars, lost>>

ReceiveInitiatePayment(o) ==
    \E n \in 1 .. orderOutbox[o]["InitiatePaymentCommand"] :
        /\ Deliverable(orderOutbox, "InitiatePaymentCommand", o, n)
        /\ HandleInitiatePaymentCommand(o, n)
        /\ UNCHANGED <<orderVars, inventoryVars, lost>>

(* A row that was written is lost on its way. *)
LoseFrom(outbox, types) ==
    \E o \in Orders, t \in types : \E n \in 1 .. outbox[o][t] :
        /\ Cardinality(lost) < MaxLost
        /\ <<t, o, n>> \notin lost
        /\ lost' = lost \cup {<<t, o, n>>}
        /\ UNCHANGED <<orderVars, inventoryVars, paymentVars>>

Lose ==
    \/ LoseFrom(orderOutbox, CommandTypes)
    \/ LoseFrom(inventoryOutbox, InventoryEventTypes)
    \/ LoseFrom(paymentOutbox, PaymentEventTypes)

-----------------------------------------------------------------------------
Next ==
    \/ \E o \in Orders :
         \/ OrderStep(CreateOrder(o))
         \/ ReceiveInventoryReserved(o)
         \/ ReceiveInventoryReservationFailed(o)
         \/ ReceivePaymentCaptured(o)
         \/ ReceivePaymentFailed(o)
         \/ ReceiveInventoryReleased(o)
         \/ ReceiveReserveInventory(o)
         \/ ReceiveReleaseInventory(o)
         \/ ReceiveInitiatePayment(o)
         \/ OrderStep(Expire(o))
         \/ OrderStep(CompensateTimedOutOrder(o))
         \/ OrderStep(CompensationFails(o))
    \/ OrderStep(CheckSagaTimeouts)
    \/ OrderStep(OrderServiceRestarts)
    \/ Lose

Spec == Init /\ [][Next]_vars

(***************************************************************************)
(* Fairness. Consumers poll without end, so a row that stays deliverable   *)
(* to a handler that would act on it is delivered. Time passes. The cron   *)
(* job runs every ten seconds. One order's compensation may fail or be cut *)
(* short by a restart, which puts the order back among the candidates, but *)
(* not every time: hence strong fairness. Nothing obliges a client to      *)
(* order, a compensation to fail, a process to stop or a row to be lost.   *)
(***************************************************************************)
Fairness ==
    /\ \A o \in Orders :
         /\ WF_vars(ReceiveInventoryReserved(o))
         /\ WF_vars(ReceiveInventoryReservationFailed(o))
         /\ WF_vars(ReceivePaymentCaptured(o))
         /\ WF_vars(ReceivePaymentFailed(o))
         /\ WF_vars(ReceiveInventoryReleased(o))
         /\ WF_vars(ReceiveReserveInventory(o))
         /\ WF_vars(ReceiveReleaseInventory(o))
         /\ WF_vars(ReceiveInitiatePayment(o))
         /\ WF_vars(OrderStep(Expire(o)))
         /\ SF_vars(OrderStep(CompensateTimedOutOrder(o)))
    /\ WF_vars(OrderStep(CheckSagaTimeouts))

FairSpec == Spec /\ Fairness

-----------------------------------------------------------------------------
(* Safety. *)

Terminal(o) == status[o] \in {"CONFIRMED", "CANCELLED"}

(* A customer is charged at most once for an order, however often the      *)
(* orchestrator hears of the reservation and the payment service of the    *)
(* command.                                                                *)
AtMostOneCharge ==
    \A o \in Orders : ledger[o]["SUCCESS"] + ledger[o]["FAILED"] <= 1

(* The stock of an order is taken at most once and given back at most once.*)
AtMostOneReservation ==
    \A o \in Orders :
        /\ reservations[o]["RESERVED"] + reservations[o]["RELEASED"] <= 1
        /\ inventoryOutbox[o]["InventoryReleasedEvent"] <= 1

(* Nothing is charged before its stock was set aside, and nothing is given *)
(* back unless the saga was compensated.                                   *)
StepsInOrder ==
    \A o \in Orders :
        /\ ledger[o]["SUCCESS"] > 0 =>
             reservations[o]["RESERVED"] + reservations[o]["RELEASED"] > 0
        /\ reservations[o]["RELEASED"] > 0 =>
             orderOutbox[o]["ReleaseInventoryCommand"] > 0
        /\ status[o] = "CONFIRMED" => ledger[o]["SUCCESS"] > 0

(***************************************************************************)
(* Until its deadline passes, a saga is atomic: a confirmed order is paid  *)
(* and holds its stock, a cancelled one was not charged and holds nothing, *)
(* and only its own outcome was announced. Messages may be lost, repeated  *)
(* and reordered, other orders may time out.                               *)
(***************************************************************************)
AtomicBeforeDeadline ==
    \A o \in Orders : ~expired[o] =>
        /\ status[o] = "CONFIRMED" =>
             Held(o) /\ Captured(o) /\ announced[o] = {"OrderConfirmedEvent"}
        /\ status[o] = "CANCELLED" =>
             ~Held(o) /\ ~Captured(o) /\ announced[o] = {"OrderCancelledEvent"}
        /\ ~Terminal(o) => announced[o] = {}

(* After the deadline too, the world hears both that an order was          *)
(* confirmed and that it was cancelled only if its stock was called back.  *)
ContradictionOnlyAfterCompensation ==
    \A o \in Orders : announced[o] = Announcements =>
        orderOutbox[o]["ReleaseInventoryCommand"] > 0

(* The orchestrator never asks for a release before the reservation was    *)
(* handled, so the inventory's tombstones guard against nothing it does.   *)
TombstonesUnused == tombstones = {}

(* A saga that reached an outcome is never reopened. *)
NeverReopened == [][\A o \in Orders : Terminal(o) => Terminal(o)']_vars

-----------------------------------------------------------------------------
(* Liveness. *)

NoRowLost(o) == \A r \in lost : r[2] # o

(* A saga none of whose rows is lost reaches an outcome, whatever happens  *)
(* to the rows of others and in whatever order the Dead Man's Switch and   *)
(* the events get to it.                                                   *)
CompletesUnlessLost ==
    \A o \in Orders : []NoRowLost(o) => (Exists(o) ~> Terminal(o))

(* No saga waits for ever for another service: the Dead Man's Switch takes *)
(* over.                                                                   *)
NoPendingForever ==
    \A o \in Orders :
        status[o] \in {"CREATED", "PAYMENT_PENDING"} ~>
            status[o] \in {"CONFIRMED", "COMPENSATING_INVENTORY", "CANCELLED"}

-----------------------------------------------------------------------------
(* What the documentation promises and the code does not keep. *)

(* init.sql indexes COMPENSATING_INVENTORY for the timeout scan: a         *)
(* compensation that got stuck is taken up again.                          *)
CompensationCompletes ==
    \A o \in Orders : status[o] = "COMPENSATING_INVENTORY" ~> Terminal(o)

(* "Inversion Guard ... aborts with PRE_CANCELLED without locking stock":  *)
(* a cancelled order holds no stock.                                       *)
NoGhostReservation == \A o \in Orders : status[o] = "CANCELLED" => ~Held(o)

(* "Distributed multi-service transaction atomicity": when a saga has     *)
(* ended, a customer who was charged has the stock.                        *)
ChargedHoldsStock == \A o \in Orders : Terminal(o) /\ Captured(o) => Held(o)
=============================================================================
