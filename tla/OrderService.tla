---------------------------- MODULE OrderService ----------------------------
(***************************************************************************)
(* The saga orchestrator of services/order-service: the orders table, the  *)
(* five event handlers of SagaOrchestratorService, OrderService.createOrder*)
(* and the Dead Man's Switch of SagaTimeoutService.                        *)
(*                                                                         *)
(* Every handler runs in one database transaction that locks the order row *)
(* (pessimistic_write) and writes the order and one outbox row, so it is   *)
(* one atomic step here; an error rolls all of it back, which is a stutter.*)
(* The Dead Man's Switch is not atomic: it reads its candidates without a  *)
(* lock and compensates them one by one, in transactions of their own.     *)
(*                                                                         *)
(* The outbox is abstracted to the number of rows written of each type for *)
(* each order. A row is identified by <<type, order, n>>: the n-th row of  *)
(* that type for that order.                                               *)
(***************************************************************************)
EXTENDS Naturals, OrderIds

OrderStatus == {"CREATED", "INVENTORY_RESERVING", "PAYMENT_PENDING",
                "CONFIRMED", "COMPENSATING_INVENTORY", "CANCELLED"}

CommandTypes == {"ReserveInventoryCommand", "InitiatePaymentCommand",
                 "ReleaseInventoryCommand"}

Announcements == {"OrderConfirmedEvent", "OrderCancelledEvent"}

VARIABLES
    status,        \* orders.status; "NONE" while the order does not exist
    expired,       \* expires_at < NOW()
    scan,          \* orders the running timeout check still has to compensate
    orderOutbox,   \* number of command rows written, by order and type
    announced      \* final events written for an order (repeats are not counted)

orderVars == <<status, expired, scan, orderOutbox, announced>>

OrderTypeOK ==
    /\ status \in [Orders -> OrderStatus \cup {"NONE"}]
    /\ expired \in [Orders -> BOOLEAN]
    /\ scan \in SUBSET Orders
    /\ orderOutbox \in [Orders -> [CommandTypes -> Nat]]
    /\ announced \in [Orders -> SUBSET Announcements]

OrderInit ==
    /\ status = [o \in Orders |-> "NONE"]
    /\ expired = [o \in Orders |-> FALSE]
    /\ scan = {}
    /\ orderOutbox = [o \in Orders |-> [t \in CommandTypes |-> 0]]
    /\ announced = [o \in Orders |-> {}]

Exists(o) == status[o] # "NONE"

-----------------------------------------------------------------------------
(* The parts every transaction is made of. *)

SetStatus(o, s) == status' = [status EXCEPT ![o] = s]

Command(o, t) ==
    /\ orderOutbox' = [orderOutbox EXCEPT ![o][t] = @ + 1]
    /\ UNCHANGED announced

Announce(o, e) ==
    /\ announced' = [announced EXCEPT ![o] = @ \cup {e}]
    /\ UNCHANGED orderOutbox

(* Mutant of Compensate. *)
BugCompensateSilently(o) ==
    /\ SetStatus(o, "COMPENSATING_INVENTORY")
    /\ UNCHANGED <<orderOutbox, announced>>

(* Transition to COMPENSATING_INVENTORY with a ReleaseInventoryCommand. *)
Compensate(o) ==
    /\ SetStatus(o, "COMPENSATING_INVENTORY")
    /\ Command(o, "ReleaseInventoryCommand")

(* Transition to CANCELLED with an OrderCancelledEvent. *)
Cancel(o) ==
    /\ SetStatus(o, "CANCELLED")
    /\ Announce(o, "OrderCancelledEvent")

-----------------------------------------------------------------------------
(* OrderService.createOrder: order, items, outbox row and idempotency      *)
(* record commit together.                                                 *)
CreateOrder(o) ==
    /\ ~Exists(o)
    /\ SetStatus(o, "CREATED")
    /\ Command(o, "ReserveInventoryCommand")
    /\ UNCHANGED <<expired, scan>>

-----------------------------------------------------------------------------
(* SagaOrchestratorService. Each guard is the state check of a handler; an *)
(* event it rejects changes nothing. No handler looks at the event's id,   *)
(* so a redelivered event is told from a new one by the state alone.       *)

(* Mutant of AcceptsInventoryReserved. *)
BugAcceptsReservedAnyTime(o) == status[o] # "CONFIRMED"

AcceptsInventoryReserved(o) == status[o] \in {"CREATED", "INVENTORY_RESERVING"}

HandleInventoryReserved(o) ==
    /\ Exists(o)
    /\ AcceptsInventoryReserved(o)
    /\ SetStatus(o, "PAYMENT_PENDING")
    /\ Command(o, "InitiatePaymentCommand")
    /\ UNCHANGED <<expired, scan>>

HandleInventoryReservationFailed(o) ==
    /\ Exists(o)
    /\ status[o] # "CANCELLED"
    /\ Cancel(o)
    /\ UNCHANGED <<expired, scan>>

HandlePaymentCaptured(o) ==
    /\ Exists(o)
    /\ status[o] # "CONFIRMED"
    /\ SetStatus(o, "CONFIRMED")
    /\ Announce(o, "OrderConfirmedEvent")
    /\ UNCHANGED <<expired, scan>>

AcceptsPaymentFailed(o) == status[o] \notin {"COMPENSATING_INVENTORY", "CANCELLED"}

(* Mutant of HandlePaymentFailed. *)
BugCancelWithoutRelease(o) ==
    /\ Exists(o)
    /\ AcceptsPaymentFailed(o)
    /\ Cancel(o)
    /\ UNCHANGED <<expired, scan>>

HandlePaymentFailed(o) ==
    /\ Exists(o)
    /\ AcceptsPaymentFailed(o)
    /\ Compensate(o)
    /\ UNCHANGED <<expired, scan>>

(* No state check: whatever the order's status, it becomes CANCELLED. *)
HandleInventoryReleased(o) ==
    /\ Exists(o)
    /\ Cancel(o)
    /\ UNCHANGED <<expired, scan>>

-----------------------------------------------------------------------------
(* The saga's deadline, 60 seconds after its creation, passes. *)
Expire(o) ==
    /\ Exists(o)
    /\ ~expired[o]
    /\ expired' = [expired EXCEPT ![o] = TRUE]
    /\ UNCHANGED <<status, scan, orderOutbox, announced>>

(* Mutant of TimedOut. *)
BugTimedOutSkipsPayment(o) == expired[o] /\ status[o] = "CREATED"

TimedOut(o) ==
    /\ expired[o]
    /\ status[o] \in {"CREATED", "INVENTORY_RESERVING", "PAYMENT_PENDING"}

(* checkSagaTimeouts, every 10 seconds unless a check is running           *)
(* (isChecking): an unlocked query for the timed-out orders.               *)
CheckSagaTimeouts ==
    /\ scan = {}
    /\ scan' = {o \in Orders : TimedOut(o)}
    /\ scan' # {}
    /\ UNCHANGED <<status, expired, orderOutbox, announced>>

(* Mutant of Settled. *)
BugNeverSettled(o) == FALSE

Settled(o) == status[o] \in {"NONE", "CONFIRMED", "CANCELLED"}

(* compensateTimedOutOrder: the order is read again under its row lock and *)
(* may have moved since the query.                                         *)
CompensateTimedOutOrder(o) ==
    /\ o \in scan
    /\ scan' = scan \ {o}
    /\ \/ Settled(o) /\ UNCHANGED <<status, orderOutbox, announced>>
       \/ ~Settled(o) /\ status[o] = "PAYMENT_PENDING" /\ Compensate(o)
       \/ ~Settled(o) /\ status[o] # "PAYMENT_PENDING" /\ Cancel(o)
    /\ UNCHANGED expired

(* The compensation of one order fails: its error is logged and swallowed, *)
(* and the check goes on with the next order.                              *)
CompensationFails(o) ==
    /\ o \in scan
    /\ scan' = scan \ {o}
    /\ UNCHANGED <<status, expired, orderOutbox, announced>>

(* The process stops: what it had read is gone, the database is not. *)
OrderServiceRestarts ==
    /\ scan # {}
    /\ scan' = {}
    /\ UNCHANGED <<status, expired, orderOutbox, announced>>
=============================================================================
