----------------------------- MODULE SagaProofs -----------------------------
(***************************************************************************)
(* Proofs of the safety properties of Saga for any set of orders, any      *)
(* catalogue, any balances and any number of lost rows. One lemma per      *)
(* action shows that it preserves the types, another that it preserves the *)
(* inductive invariant IInv.                                               *)
(***************************************************************************)
EXTENDS SagaInvariant, ServiceProofs

-----------------------------------------------------------------------------
(* Types. *)

(* Counting one more row in a table of counters. *)
LEMMA IncrementType ==
  ASSUME NEW D, NEW T, NEW f \in [D -> [T -> Nat]], NEW d \in D, NEW t \in T
  PROVE  [f EXCEPT ![d][t] = @ + 1] \in [D -> [T -> Nat]]
  OBVIOUS

LEMMA InitType == Init => TypeOK
  <1> SUFFICES ASSUME Init PROVE TypeOK
    OBVIOUS
  <1>1. OrderTypeOK
    BY DEF Init, OrderInit, OrderTypeOK
  <1>2. InventoryTypeOK
    BY DEF Init, InventoryInit, InventoryTypeOK
  <1>3. PaymentTypeOK
    BY PaymentAssumption DEF Init, PaymentInit, PaymentTypeOK
  <1>4. lost \in SUBSET Rows
    BY DEF Init
  <1> QED
    BY <1>1, <1>2, <1>3, <1>4 DEF TypeOK

(* The parts of an order transaction keep the order service's types. *)
LEMMA OrderStepType ==
  ASSUME TypeOK, NEW o \in Orders,
         \/ CreateOrder(o) \/ HandleInventoryReserved(o)
         \/ HandleInventoryReservationFailed(o) \/ HandlePaymentCaptured(o)
         \/ HandlePaymentFailed(o) \/ HandleInventoryReleased(o)
         \/ Expire(o) \/ CompensateTimedOutOrder(o) \/ CompensationFails(o)
  PROVE  OrderTypeOK'
  <1> USE DEF TypeOK, OrderTypeOK, OrderStatus, CommandTypes, Announcements,
              SetStatus, Command, Announce, Compensate, Cancel
  <1>1. CASE CreateOrder(o)
    BY <1>1 DEF CreateOrder
  <1>2. CASE HandleInventoryReserved(o)
    BY <1>2 DEF HandleInventoryReserved
  <1>3. CASE HandleInventoryReservationFailed(o)
    BY <1>3 DEF HandleInventoryReservationFailed
  <1>4. CASE HandlePaymentCaptured(o)
    BY <1>4 DEF HandlePaymentCaptured
  <1>5. CASE HandlePaymentFailed(o)
    BY <1>5 DEF HandlePaymentFailed
  <1>6. CASE HandleInventoryReleased(o)
    BY <1>6 DEF HandleInventoryReleased
  <1>7. CASE Expire(o)
    BY <1>7 DEF Expire
  <1>8. CASE CompensateTimedOutOrder(o)
    BY <1>8 DEF CompensateTimedOutOrder
  <1>9. CASE CompensationFails(o)
    BY <1>9 DEF CompensationFails
  <1> QED
    BY <1>1, <1>2, <1>3, <1>4, <1>5, <1>6, <1>7, <1>8, <1>9

LEMMA EmitInventoryType ==
  ASSUME InventoryTypeOK, NEW o \in Orders, NEW t \in InventoryEventTypes,
         EmitInventoryEvent(o, t)
  PROVE  inventoryOutbox' \in [Orders -> [InventoryEventTypes -> Nat]]
  BY IncrementType DEF InventoryTypeOK, EmitInventoryEvent

LEMMA ReserveType ==
  ASSUME InventoryTypeOK, NEW o \in Orders, NEW n \in Nat,
         HandleReserveInventoryCommand(o, n)
  PROVE  InventoryTypeOK'
  <1>1. inventoryProcessed' \in
          SUBSET ({"ReserveInventoryCommand", "ReleaseInventoryCommand"} \X Orders \X Nat)
    BY DEF InventoryTypeOK, HandleReserveInventoryCommand, RecordProcessed
  <1>2. CASE AbortPreCancelled(o) \/ RejectOutOfStock(o)
    BY <1>1, <1>2, EmitInventoryType
       DEF AbortPreCancelled, RejectOutOfStock, InventoryTypeOK, InventoryEventTypes
  <1>3. CASE Reserve(o)
    <2>1. reservedStock' \in [Products -> Nat]
      BY <1>3, DemandType DEF InventoryTypeOK, Reserve
    <2>2. reservations' \in [Orders -> [{"RESERVED", "RELEASED"} -> Nat]]
      <3>1. CASE UNCHANGED reservations
        BY <3>1 DEF InventoryTypeOK
      <3>2. CASE reservations' = [reservations EXCEPT ![o]["RESERVED"] = @ + 1]
        BY <3>2, IncrementType DEF InventoryTypeOK
      <3> QED
        BY <1>3, <3>1, <3>2 DEF Reserve, MakeReservation
    <2>3. inventoryOutbox' \in [Orders -> [InventoryEventTypes -> Nat]]
      BY <1>3, EmitInventoryType DEF Reserve, InventoryEventTypes
    <2> QED
      BY <1>1, <1>3, <2>1, <2>2, <2>3 DEF InventoryTypeOK, Reserve
  <1> QED
    BY <1>2, <1>3 DEF HandleReserveInventoryCommand

LEMMA ReleaseType ==
  ASSUME InventoryTypeOK, NEW o \in Orders, NEW n \in Nat,
         HandleReleaseInventoryCommand(o, n)
  PROVE  InventoryTypeOK'
  <1>1. inventoryProcessed' \in
          SUBSET ({"ReserveInventoryCommand", "ReleaseInventoryCommand"} \X Orders \X Nat)
    BY DEF InventoryTypeOK, HandleReleaseInventoryCommand, RecordProcessed
  <1>2. inventoryOutbox' \in [Orders -> [InventoryEventTypes -> Nat]]
    BY EmitInventoryType DEF HandleReleaseInventoryCommand, InventoryEventTypes
  <1>3. CASE RecordTombstone(o)
    BY <1>1, <1>2, <1>3 DEF InventoryTypeOK, RecordTombstone
  <1>4. CASE ReturnStock(o)
    <2>1. reservedStock' \in [Products -> Nat]
      <3>1. ASSUME NEW p \in Products
            PROVE  /\ reservedStock[p] \in Nat
                   /\ reservations[o]["RESERVED"] * Demand(o, p) \in Nat
        BY DemandType DEF InventoryTypeOK
      <3> QED
        BY <1>4, <3>1 DEF ReturnStock, Minus
    <2>2. reservations' \in [Orders -> [{"RESERVED", "RELEASED"} -> Nat]]
      BY <1>4 DEF InventoryTypeOK, ReturnStock
    <2> QED
      BY <1>1, <1>2, <1>4, <2>1, <2>2 DEF InventoryTypeOK, ReturnStock
  <1> QED
    BY <1>3, <1>4 DEF HandleReleaseInventoryCommand

(* Debit and credit keep integers integers, also when the customer is the  *)
(* revenue account.                                                        *)
LEMMA TransferType ==
  ASSUME PaymentTypeOK, NEW o \in Orders, Transfer(o)
  PROVE  balance' \in [Accounts -> Int]
  BY PaymentAssumption DEF PaymentTypeOK, Transfer

LEMMA PaymentType ==
  ASSUME PaymentTypeOK, NEW o \in Orders, NEW n \in Nat,
         HandleInitiatePaymentCommand(o, n)
  PROVE  PaymentTypeOK'
  <1>1. balance' \in [Accounts -> Int]
    BY TransferType
       DEF PaymentTypeOK, HandleInitiatePaymentCommand, RecordFailedPayment
  <1>2. ASSUME NEW s \in {"SUCCESS", "FAILED"}, NEW e \in PaymentEventTypes,
               RecordTransaction(o, s, e)
        PROVE  /\ ledger' \in [Orders -> [{"SUCCESS", "FAILED"} -> Nat]]
               /\ paymentOutbox' \in [Orders -> [PaymentEventTypes -> Nat]]
    BY <1>2, IncrementType DEF PaymentTypeOK, RecordTransaction
  <1>3. /\ ledger' \in [Orders -> [{"SUCCESS", "FAILED"} -> Nat]]
        /\ paymentOutbox' \in [Orders -> [PaymentEventTypes -> Nat]]
    BY <1>2 DEF HandleInitiatePaymentCommand, RecordFailedPayment, PaymentEventTypes
  <1> QED
    BY <1>1, <1>3 DEF PaymentTypeOK, HandleInitiatePaymentCommand, RecordPaid

LEMMA LoseType ==
  ASSUME TypeOK, Lose
  PROVE  TypeOK'
  <1>1. /\ lost' \in SUBSET Rows
        /\ UNCHANGED <<orderVars, inventoryVars, paymentVars>>
    <2>1. ASSUME NEW outbox, NEW types,
                 types \subseteq CommandTypes \cup InventoryEventTypes \cup PaymentEventTypes,
                 LoseFrom(outbox, types)
          PROVE  /\ lost' \in SUBSET Rows
                 /\ UNCHANGED <<orderVars, inventoryVars, paymentVars>>
      <3>1. PICK o \in Orders, t \in types : \E n \in 1 .. outbox[o][t] :
              /\ lost' = lost \cup {<<t, o, n>>}
              /\ UNCHANGED <<orderVars, inventoryVars, paymentVars>>
        BY <2>1 DEF LoseFrom
      <3> QED
        BY <2>1, <3>1 DEF Rows, TypeOK
    <2> QED
      BY <2>1 DEF Lose
  <1> QED
    BY <1>1 DEF TypeOK, OrderTypeOK, InventoryTypeOK, PaymentTypeOK,
                orderVars, inventoryVars, paymentVars

(* A step of the order service leaves the other services alone. *)
LEMMA OrderServiceType ==
  ASSUME TypeOK, NEW o \in Orders,
         \/ OrderStep(CreateOrder(o))
         \/ ReceiveInventoryReserved(o)
         \/ ReceiveInventoryReservationFailed(o)
         \/ ReceivePaymentCaptured(o)
         \/ ReceivePaymentFailed(o)
         \/ ReceiveInventoryReleased(o)
         \/ OrderStep(Expire(o))
         \/ OrderStep(CompensateTimedOutOrder(o))
         \/ OrderStep(CompensationFails(o))
  PROVE  TypeOK'
  <1>1. OrderTypeOK'
    BY OrderStepType
       DEF OrderStep, ReceiveInventoryReserved, ReceiveInventoryReservationFailed,
           ReceivePaymentCaptured, ReceivePaymentFailed, ReceiveInventoryReleased
  <1>2. UNCHANGED <<inventoryVars, paymentVars, lost>>
    BY DEF OrderStep, ReceiveInventoryReserved, ReceiveInventoryReservationFailed,
           ReceivePaymentCaptured, ReceivePaymentFailed, ReceiveInventoryReleased
  <1> QED
    BY <1>1, <1>2 DEF TypeOK, InventoryTypeOK, PaymentTypeOK, inventoryVars, paymentVars

LEMMA NextType == TypeOK /\ [Next]_vars => TypeOK'
  <1> SUFFICES ASSUME TypeOK, [Next]_vars PROVE TypeOK'
    OBVIOUS
  <1>1. ASSUME NEW o \in Orders, ReceiveReserveInventory(o)
        PROVE  TypeOK'
    <2>1. PICK n \in Nat : /\ HandleReserveInventoryCommand(o, n)
                           /\ UNCHANGED <<orderVars, paymentVars, lost>>
      BY <1>1 DEF ReceiveReserveInventory, TypeOK, OrderTypeOK, CommandTypes
    <2> QED
      BY <2>1, ReserveType DEF TypeOK, OrderTypeOK, PaymentTypeOK, orderVars, paymentVars
  <1>2. ASSUME NEW o \in Orders, ReceiveReleaseInventory(o)
        PROVE  TypeOK'
    <2>1. PICK n \in Nat : /\ HandleReleaseInventoryCommand(o, n)
                           /\ UNCHANGED <<orderVars, paymentVars, lost>>
      BY <1>2 DEF ReceiveReleaseInventory, TypeOK, OrderTypeOK, CommandTypes
    <2> QED
      BY <2>1, ReleaseType DEF TypeOK, OrderTypeOK, PaymentTypeOK, orderVars, paymentVars
  <1>3. ASSUME NEW o \in Orders, ReceiveInitiatePayment(o)
        PROVE  TypeOK'
    <2>1. PICK n \in Nat : /\ HandleInitiatePaymentCommand(o, n)
                           /\ UNCHANGED <<orderVars, inventoryVars, lost>>
      BY <1>3 DEF ReceiveInitiatePayment, TypeOK, OrderTypeOK, CommandTypes
    <2> QED
      BY <2>1, PaymentType
         DEF TypeOK, OrderTypeOK, InventoryTypeOK, orderVars, inventoryVars
  <1>4. CASE UNCHANGED vars
    BY <1>4 DEF TypeOK, OrderTypeOK, InventoryTypeOK, PaymentTypeOK, vars, orderVars,
                inventoryVars, paymentVars
  <1>5. CASE OrderStep(CheckSagaTimeouts) \/ OrderStep(OrderServiceRestarts)
    <2>1. OrderTypeOK'
      BY <1>5 DEF OrderStep, CheckSagaTimeouts, OrderServiceRestarts, TypeOK, OrderTypeOK
    <2>2. UNCHANGED <<inventoryVars, paymentVars, lost>>
      BY <1>5 DEF OrderStep
    <2> QED
      BY <2>1, <2>2
         DEF TypeOK, InventoryTypeOK, PaymentTypeOK, inventoryVars, paymentVars
  <1> QED
    BY <1>1, <1>2, <1>3, <1>4, <1>5, OrderServiceType, LoseType DEF Next

(* Types: in every reachable state every table of the three services holds *)
(* what its schema says.                                                   *)
THEOREM TypeCorrect == Spec => []TypeOK
  BY InitType, NextType, PTL DEF Spec

-----------------------------------------------------------------------------
(* The inductive invariant. *)

(* An action that leaves an order's rows alone in all three databases. *)
SameRows(p) ==
    /\ status'[p] = status[p]
    /\ expired'[p] = expired[p]
    /\ p \in scan' => expired[p]
    /\ orderOutbox'[p] = orderOutbox[p]
    /\ announced'[p] = announced[p]
    /\ reservations'[p] = reservations[p]
    /\ inventoryOutbox'[p] = inventoryOutbox[p]
    /\ \A t \in CommandTypes : Handled(t, p)' <=> Handled(t, p)
    /\ p \in tombstones' <=> p \in tombstones
    /\ ledger'[p] = ledger[p]
    /\ paymentOutbox'[p] = paymentOutbox[p]
    /\ PaymentHandled(p)' <=> PaymentHandled(p)

LEMMA SameRowsInv ==
  ASSUME NEW p \in Orders, SagaInv(p), SameRows(p)
  PROVE  SagaInv(p)'
  BY DEF SagaInv, SameRows, CommandsFollowStatus, InventoryFollowsCommands,
         PaymentFollowsCommands, CommandsFollowEffects, DeadlineRules,
         AnnouncementsFollowStatus, Commanded, Told, Exists, CommandTypes

LEMMA InitInv == Init => IInv
  <1> SUFFICES ASSUME Init, NEW o \in Orders PROVE SagaInv(o)
    BY DEF IInv
  <1>1. /\ status[o] = "NONE" /\ o \notin scan /\ announced[o] = {}
        /\ \A t \in CommandTypes : orderOutbox[o][t] = 0 /\ ~Handled(t, o)
        /\ \A t \in InventoryEventTypes : inventoryOutbox[o][t] = 0
        /\ \A t \in PaymentEventTypes : paymentOutbox[o][t] = 0
        /\ \A s \in {"RESERVED", "RELEASED"} : reservations[o][s] = 0
        /\ \A s \in {"SUCCESS", "FAILED"} : ledger[o][s] = 0
        /\ o \notin tombstones /\ ~PaymentHandled(o)
    BY DEF Init, OrderInit, InventoryInit, PaymentInit, Handled, PaymentHandled
  <1>2. CommandsFollowStatus(o)
    BY <1>1 DEF CommandsFollowStatus, Commanded, Exists, CommandTypes
  <1>3. InventoryFollowsCommands(o)
    BY <1>1 DEF InventoryFollowsCommands, Told, CommandTypes, InventoryEventTypes
  <1>4. PaymentFollowsCommands(o) /\ CommandsFollowEffects(o)
    BY <1>1 DEF PaymentFollowsCommands, CommandsFollowEffects, Commanded, CommandTypes,
                PaymentEventTypes
  <1>5. DeadlineRules(o) /\ AnnouncementsFollowStatus(o)
    BY <1>1 DEF DeadlineRules, AnnouncementsFollowStatus, Commanded, CommandTypes
  <1> QED
    BY <1>2, <1>3, <1>4, <1>5 DEF SagaInv

(* A step of the order service leaves the tables of the others alone.      *)
LEMMA OrderFrame ==
  ASSUME UNCHANGED <<inventoryVars, paymentVars>>
  PROVE  /\ UNCHANGED <<reservations, inventoryOutbox, tombstones, ledger, paymentOutbox>>
         /\ \A p \in Orders : PaymentHandled(p)' <=> PaymentHandled(p)
         /\ \A p \in Orders, t \in CommandTypes : Handled(t, p)' <=> Handled(t, p)
  <1>1. UNCHANGED <<reservations, inventoryOutbox, tombstones, inventoryProcessed,
                    ledger, paymentOutbox, paymentProcessed>>
    BY DEF inventoryVars, paymentVars
  <1> QED
    BY <1>1 DEF Handled, PaymentHandled

(* Steps of the order service. *)

(* The counters of one order are natural numbers. *)
RowOf(o) ==
    /\ orderOutbox[o]["ReserveInventoryCommand"] \in Nat
    /\ orderOutbox[o]["InitiatePaymentCommand"] \in Nat
    /\ orderOutbox[o]["ReleaseInventoryCommand"] \in Nat
    /\ inventoryOutbox[o]["InventoryReservedEvent"] \in Nat
    /\ inventoryOutbox[o]["InventoryReservationFailedEvent"] \in Nat
    /\ inventoryOutbox[o]["InventoryReleasedEvent"] \in Nat
    /\ paymentOutbox[o]["PaymentCapturedEvent"] \in Nat
    /\ paymentOutbox[o]["PaymentFailedEvent"] \in Nat
    /\ reservations[o]["RESERVED"] \in Nat /\ reservations[o]["RELEASED"] \in Nat
    /\ ledger[o]["SUCCESS"] \in Nat /\ ledger[o]["FAILED"] \in Nat

(* What the orchestrator may conclude from an event it receives. *)
EventFacts(o) ==
    /\ inventoryOutbox[o]["InventoryReservedEvent"] >= 1 =>
         inventoryOutbox[o]["InventoryReservedEvent"] = 1
    /\ inventoryOutbox[o]["InventoryReservationFailedEvent"] >= 1 =>
         /\ inventoryOutbox[o]["InventoryReservationFailedEvent"] = 1
         /\ orderOutbox[o]["InitiatePaymentCommand"] = 0
    /\ inventoryOutbox[o]["InventoryReleasedEvent"] >= 1 =>
         /\ Handled("ReleaseInventoryCommand", o)
         /\ orderOutbox[o]["ReleaseInventoryCommand"] = 1
    /\ paymentOutbox[o]["PaymentCapturedEvent"] >= 1 =>
         /\ ledger[o]["SUCCESS"] = 1 /\ ledger[o]["FAILED"] = 0
         /\ orderOutbox[o]["InitiatePaymentCommand"] = 1
    /\ paymentOutbox[o]["PaymentFailedEvent"] >= 1 =>
         /\ ledger[o]["SUCCESS"] = 0 /\ ledger[o]["FAILED"] = 1
         /\ orderOutbox[o]["InitiatePaymentCommand"] = 1

LEMMA EventMeaning == ASSUME NEW o \in Orders, RowOf(o), SagaInv(o) PROVE EventFacts(o)
  <1>1. InventoryFollowsCommands(o) /\ CommandsFollowEffects(o)
        /\ PaymentFollowsCommands(o) /\ CommandsFollowStatus(o)
    BY DEF SagaInv
  <1>2. inventoryOutbox[o]["InventoryReservedEvent"] >= 1 =>
             inventoryOutbox[o]["InventoryReservedEvent"] = 1
    BY <1>1 DEF InventoryFollowsCommands, Told, RowOf
  <1>6. inventoryOutbox[o]["InventoryReservationFailedEvent"] >= 1 =>
             /\ inventoryOutbox[o]["InventoryReservationFailedEvent"] = 1
             /\ inventoryOutbox[o]["InventoryReservedEvent"] = 0
    BY <1>1 DEF InventoryFollowsCommands, Told, RowOf
  <1>7. inventoryOutbox[o]["InventoryReleasedEvent"] >= 1 =>
             /\ Handled("ReleaseInventoryCommand", o)
             /\ orderOutbox[o]["ReleaseInventoryCommand"] = 1
    BY <1>1 DEF InventoryFollowsCommands, Told, Commanded, RowOf
  <1>3. inventoryOutbox[o]["InventoryReservedEvent"] = 0 =>
             orderOutbox[o]["InitiatePaymentCommand"] = 0
    BY <1>1 DEF CommandsFollowEffects, CommandsFollowStatus, Told, Commanded
  <1>4. /\ paymentOutbox[o]["PaymentCapturedEvent"] >= 1 =>
             ledger[o]["SUCCESS"] = 1 /\ ledger[o]["FAILED"] = 0 /\ PaymentHandled(o)
        /\ paymentOutbox[o]["PaymentFailedEvent"] >= 1 =>
             ledger[o]["SUCCESS"] = 0 /\ ledger[o]["FAILED"] = 1 /\ PaymentHandled(o)
    BY <1>1 DEF PaymentFollowsCommands, RowOf
  <1>5. PaymentHandled(o) => orderOutbox[o]["InitiatePaymentCommand"] = 1
    BY <1>1 DEF PaymentFollowsCommands, Commanded
  <1> QED
    BY <1>2, <1>3, <1>4, <1>5, <1>6, <1>7 DEF EventFacts

(* What a step of the order service leaves alone, seen from one order. *)
OthersSame(o) ==
    /\ reservations'[o] = reservations[o]
    /\ inventoryOutbox'[o] = inventoryOutbox[o]
    /\ Handled("ReserveInventoryCommand", o)' <=> Handled("ReserveInventoryCommand", o)
    /\ Handled("ReleaseInventoryCommand", o)' <=> Handled("ReleaseInventoryCommand", o)
    /\ o \in tombstones' <=> o \in tombstones
    /\ ledger'[o] = ledger[o]
    /\ paymentOutbox'[o] = paymentOutbox[o]
    /\ PaymentHandled(o)' <=> PaymentHandled(o)

LEMMA RowTypes == ASSUME TypeOK, NEW o \in Orders PROVE RowOf(o) /\ status[o] \in OrderStatus \cup {"NONE"}
  BY DEF TypeOK, OrderTypeOK, InventoryTypeOK, PaymentTypeOK, RowOf,
         OrderStatus, CommandTypes, InventoryEventTypes, PaymentEventTypes

(* It is enough to look at the order the step is about. *)
LEMMA OrderStepInv ==
  ASSUME TypeOK, IInv, NEW o \in Orders,
         UNCHANGED <<inventoryVars, paymentVars, lost>>,
         \A p \in Orders \ {o} :
            /\ status'[p] = status[p]
            /\ expired'[p] = expired[p]
            /\ p \in scan' => p \in scan
            /\ orderOutbox'[p] = orderOutbox[p]
            /\ announced'[p] = announced[p],
         SagaInv(o)'
  PROVE  IInv'
  <1> SUFFICES ASSUME NEW p \in Orders, p # o PROVE SagaInv(p)'
    BY DEF IInv
  <1>1. SameRows(p)
    BY OrderFrame DEF SameRows, IInv, SagaInv, DeadlineRules
  <1> QED
    BY <1>1, SameRowsInv DEF IInv

(* createOrder *)
LEMMA CreateOrderInv ==
  ASSUME TypeOK, IInv, NEW o \in Orders, OrderStep(CreateOrder(o))
  PROVE  IInv'
  <1>1. /\ UNCHANGED <<inventoryVars, paymentVars, lost>>
        /\ \A p \in Orders \ {o} :
             /\ status'[p] = status[p]
             /\ expired'[p] = expired[p]
             /\ p \in scan' => p \in scan
             /\ orderOutbox'[p] = orderOutbox[p]
             /\ announced'[p] = announced[p]
    BY DEF CreateOrder, OrderStep, SetStatus, Command, Announce, Compensate, Cancel,
           TypeOK, OrderTypeOK
  <1>2. status[o] = "NONE"
    BY DEF CreateOrder, OrderStep, Exists, Receives, Deliverable, TypeOK,
           InventoryTypeOK, PaymentTypeOK, InventoryEventTypes, PaymentEventTypes
  <1>3. /\ status'[o] = "CREATED"
        /\ orderOutbox'[o]["ReserveInventoryCommand"] = orderOutbox[o]["ReserveInventoryCommand"] + 1
        /\ orderOutbox'[o]["InitiatePaymentCommand"] = orderOutbox[o]["InitiatePaymentCommand"]
        /\ orderOutbox'[o]["ReleaseInventoryCommand"] = orderOutbox[o]["ReleaseInventoryCommand"]
        /\ announced'[o] = announced[o]
        /\ expired'[o] = expired[o] /\ scan' = scan
    BY DEF CreateOrder, OrderStep, SetStatus, Command, Announce, Compensate, Cancel,
           TypeOK, OrderTypeOK, CommandTypes
  <1>4. SagaInv(o) /\ RowOf(o) /\ OthersSame(o) /\ EventFacts(o)
        /\ status[o] \in OrderStatus \cup {"NONE"}
    BY <1>1, OrderFrame, RowTypes, EventMeaning DEF IInv, OthersSame, CommandTypes
  <1>5. /\ orderOutbox[o]["ReserveInventoryCommand"] = 0 /\ orderOutbox[o]["InitiatePaymentCommand"] = 0 /\ orderOutbox[o]["ReleaseInventoryCommand"] = 0
        /\ ~Handled("ReserveInventoryCommand", o) /\ ~Handled("ReleaseInventoryCommand", o)
    BY <1>2, <1>4
       DEF SagaInv, EventFacts, RowOf, CommandsFollowStatus, InventoryFollowsCommands, Exists,
           Commanded, OrderStatus
  <1> USE <1>2, <1>3, <1>4, <1>5 DEF SagaInv, OthersSame, Commanded, Told
  <1>6. CommandsFollowStatus(o)'
    BY DEF CommandsFollowStatus, Exists, RowOf
  <1>7. InventoryFollowsCommands(o)'
    BY DEF InventoryFollowsCommands, CommandsFollowStatus, Exists
  <1>8. PaymentFollowsCommands(o)'
    BY DEF PaymentFollowsCommands
  <1>9. CommandsFollowEffects(o)'
    BY DEF CommandsFollowEffects
  <1>10. DeadlineRules(o)'
    BY DEF DeadlineRules
  <1>11. AnnouncementsFollowStatus(o)'
    BY DEF AnnouncementsFollowStatus
  <1> QED
    BY <1>1, <1>6, <1>7, <1>8, <1>9, <1>10, <1>11, OrderStepInv

(* handleInventoryReserved: the payment is asked for once. *)
LEMMA InventoryReservedInv ==
  ASSUME TypeOK, IInv, NEW o \in Orders, ReceiveInventoryReserved(o)
  PROVE  IInv'
  <1>1. /\ UNCHANGED <<inventoryVars, paymentVars, lost>>
        /\ \A p \in Orders \ {o} :
             /\ status'[p] = status[p]
             /\ expired'[p] = expired[p]
             /\ p \in scan' => p \in scan
             /\ orderOutbox'[p] = orderOutbox[p]
             /\ announced'[p] = announced[p]
    BY DEF ReceiveInventoryReserved, HandleInventoryReserved, AcceptsInventoryReserved, OrderStep, SetStatus, Command, Announce, Compensate, Cancel,
           TypeOK, OrderTypeOK
  <1>2. /\ status[o] \in {"CREATED", "INVENTORY_RESERVING"}
        /\ inventoryOutbox[o]["InventoryReservedEvent"] >= 1
    BY DEF ReceiveInventoryReserved, HandleInventoryReserved, AcceptsInventoryReserved, OrderStep, Exists, Receives, Deliverable, TypeOK,
           InventoryTypeOK, PaymentTypeOK, InventoryEventTypes, PaymentEventTypes
  <1>3. /\ status'[o] = "PAYMENT_PENDING"
        /\ orderOutbox'[o]["ReserveInventoryCommand"] = orderOutbox[o]["ReserveInventoryCommand"]
        /\ orderOutbox'[o]["InitiatePaymentCommand"] = orderOutbox[o]["InitiatePaymentCommand"] + 1
        /\ orderOutbox'[o]["ReleaseInventoryCommand"] = orderOutbox[o]["ReleaseInventoryCommand"]
        /\ announced'[o] = announced[o]
        /\ expired'[o] = expired[o] /\ scan' = scan
    BY DEF ReceiveInventoryReserved, HandleInventoryReserved, AcceptsInventoryReserved, OrderStep, SetStatus, Command, Announce, Compensate, Cancel,
           TypeOK, OrderTypeOK, CommandTypes
  <1>4. SagaInv(o) /\ RowOf(o) /\ OthersSame(o) /\ EventFacts(o)
        /\ status[o] \in OrderStatus \cup {"NONE"}
    BY <1>1, OrderFrame, RowTypes, EventMeaning DEF IInv, OthersSame, CommandTypes
  <1>5. /\ status[o] = "CREATED" /\ inventoryOutbox[o]["InventoryReservedEvent"] = 1
        /\ orderOutbox[o]["InitiatePaymentCommand"] = 0 /\ orderOutbox[o]["ReleaseInventoryCommand"] = 0
        /\ ~PaymentHandled(o)
    BY <1>2, <1>4
       DEF SagaInv, EventFacts, RowOf, CommandsFollowStatus, PaymentFollowsCommands,
           Commanded, OrderStatus
  <1> USE <1>2, <1>3, <1>4, <1>5 DEF SagaInv, OthersSame, Commanded, Told
  <1>6. CommandsFollowStatus(o)'
    BY DEF CommandsFollowStatus, Exists, RowOf
  <1>7. InventoryFollowsCommands(o)'
    BY DEF InventoryFollowsCommands, CommandsFollowStatus, Exists
  <1>8. PaymentFollowsCommands(o)'
    BY DEF PaymentFollowsCommands
  <1>9. CommandsFollowEffects(o)'
    BY DEF CommandsFollowEffects
  <1>10. DeadlineRules(o)'
    BY DEF DeadlineRules
  <1>11. AnnouncementsFollowStatus(o)'
    BY DEF AnnouncementsFollowStatus
  <1> QED
    BY <1>1, <1>6, <1>7, <1>8, <1>9, <1>10, <1>11, OrderStepInv

(* handleInventoryReservationFailed: nothing was asked of the payment service. *)
LEMMA ReservationFailedInv ==
  ASSUME TypeOK, IInv, NEW o \in Orders, ReceiveInventoryReservationFailed(o)
  PROVE  IInv'
  <1>1. /\ UNCHANGED <<inventoryVars, paymentVars, lost>>
        /\ \A p \in Orders \ {o} :
             /\ status'[p] = status[p]
             /\ expired'[p] = expired[p]
             /\ p \in scan' => p \in scan
             /\ orderOutbox'[p] = orderOutbox[p]
             /\ announced'[p] = announced[p]
    BY DEF ReceiveInventoryReservationFailed, HandleInventoryReservationFailed, OrderStep, SetStatus, Command, Announce, Compensate, Cancel,
           TypeOK, OrderTypeOK
  <1>2. /\ status[o] # "NONE"
        /\ inventoryOutbox[o]["InventoryReservationFailedEvent"] >= 1
    BY DEF ReceiveInventoryReservationFailed, HandleInventoryReservationFailed, OrderStep, Exists, Receives, Deliverable, TypeOK,
           InventoryTypeOK, PaymentTypeOK, InventoryEventTypes, PaymentEventTypes
  <1>3. /\ status'[o] = "CANCELLED"
        /\ orderOutbox'[o]["ReserveInventoryCommand"] = orderOutbox[o]["ReserveInventoryCommand"]
        /\ orderOutbox'[o]["InitiatePaymentCommand"] = orderOutbox[o]["InitiatePaymentCommand"]
        /\ orderOutbox'[o]["ReleaseInventoryCommand"] = orderOutbox[o]["ReleaseInventoryCommand"]
        /\ announced'[o] = announced[o] \cup {"OrderCancelledEvent"}
        /\ expired'[o] = expired[o] /\ scan' = scan
    BY DEF ReceiveInventoryReservationFailed, HandleInventoryReservationFailed, OrderStep, SetStatus, Command, Announce, Compensate, Cancel,
           TypeOK, OrderTypeOK, CommandTypes
  <1>4. SagaInv(o) /\ RowOf(o) /\ OthersSame(o) /\ EventFacts(o)
        /\ status[o] \in OrderStatus \cup {"NONE"}
    BY <1>1, OrderFrame, RowTypes, EventMeaning DEF IInv, OthersSame, CommandTypes
  <1>5. /\ status[o] # "CONFIRMED" /\ inventoryOutbox[o]["InventoryReservationFailedEvent"] = 1
        /\ orderOutbox[o]["InitiatePaymentCommand"] = 0 /\ orderOutbox[o]["ReleaseInventoryCommand"] = 0
    BY <1>2, <1>4
       DEF SagaInv, EventFacts, RowOf, CommandsFollowStatus,
           Commanded, OrderStatus
  <1> USE <1>2, <1>3, <1>4, <1>5 DEF SagaInv, OthersSame, Commanded, Told
  <1>6. CommandsFollowStatus(o)'
    BY DEF CommandsFollowStatus, Exists, RowOf
  <1>7. InventoryFollowsCommands(o)'
    BY DEF InventoryFollowsCommands, CommandsFollowStatus, Exists
  <1>8. PaymentFollowsCommands(o)'
    BY DEF PaymentFollowsCommands
  <1>9. CommandsFollowEffects(o)'
    BY DEF CommandsFollowEffects
  <1>10. DeadlineRules(o)'
    BY DEF DeadlineRules
  <1>11. AnnouncementsFollowStatus(o)'
    BY DEF AnnouncementsFollowStatus
  <1> QED
    BY <1>1, <1>6, <1>7, <1>8, <1>9, <1>10, <1>11, OrderStepInv

(* handlePaymentCaptured *)
LEMMA PaymentCapturedInv ==
  ASSUME TypeOK, IInv, NEW o \in Orders, ReceivePaymentCaptured(o)
  PROVE  IInv'
  <1>1. /\ UNCHANGED <<inventoryVars, paymentVars, lost>>
        /\ \A p \in Orders \ {o} :
             /\ status'[p] = status[p]
             /\ expired'[p] = expired[p]
             /\ p \in scan' => p \in scan
             /\ orderOutbox'[p] = orderOutbox[p]
             /\ announced'[p] = announced[p]
    BY DEF ReceivePaymentCaptured, HandlePaymentCaptured, OrderStep, SetStatus, Command, Announce, Compensate, Cancel,
           TypeOK, OrderTypeOK
  <1>2. /\ status[o] # "NONE" /\ status[o] # "CONFIRMED"
        /\ paymentOutbox[o]["PaymentCapturedEvent"] >= 1
    BY DEF ReceivePaymentCaptured, HandlePaymentCaptured, OrderStep, Exists, Receives, Deliverable, TypeOK,
           InventoryTypeOK, PaymentTypeOK, InventoryEventTypes, PaymentEventTypes
  <1>3. /\ status'[o] = "CONFIRMED"
        /\ orderOutbox'[o]["ReserveInventoryCommand"] = orderOutbox[o]["ReserveInventoryCommand"]
        /\ orderOutbox'[o]["InitiatePaymentCommand"] = orderOutbox[o]["InitiatePaymentCommand"]
        /\ orderOutbox'[o]["ReleaseInventoryCommand"] = orderOutbox[o]["ReleaseInventoryCommand"]
        /\ announced'[o] = announced[o] \cup {"OrderConfirmedEvent"}
        /\ expired'[o] = expired[o] /\ scan' = scan
    BY DEF ReceivePaymentCaptured, HandlePaymentCaptured, OrderStep, SetStatus, Command, Announce, Compensate, Cancel,
           TypeOK, OrderTypeOK, CommandTypes
  <1>4. SagaInv(o) /\ RowOf(o) /\ OthersSame(o) /\ EventFacts(o)
        /\ status[o] \in OrderStatus \cup {"NONE"}
    BY <1>1, OrderFrame, RowTypes, EventMeaning DEF IInv, OthersSame, CommandTypes
  <1>5. /\ orderOutbox[o]["InitiatePaymentCommand"] = 1 /\ ledger[o]["SUCCESS"] = 1 /\ ledger[o]["FAILED"] = 0
        /\ ~expired[o] => orderOutbox[o]["ReleaseInventoryCommand"] = 0 /\ status[o] # "CANCELLED"
        /\ orderOutbox[o]["ReleaseInventoryCommand"] = 0 => status[o] = "PAYMENT_PENDING"
    BY <1>2, <1>4
       DEF SagaInv, EventFacts, RowOf, CommandsFollowStatus, InventoryFollowsCommands, Told,
           DeadlineRules,
           Commanded, OrderStatus
  <1> USE <1>2, <1>3, <1>4, <1>5 DEF SagaInv, OthersSame, Commanded, Told
  <1>6. CommandsFollowStatus(o)'
    BY DEF CommandsFollowStatus, Exists, RowOf
  <1>7. InventoryFollowsCommands(o)'
    BY DEF InventoryFollowsCommands, CommandsFollowStatus, Exists
  <1>8. PaymentFollowsCommands(o)'
    BY DEF PaymentFollowsCommands
  <1>9. CommandsFollowEffects(o)'
    BY DEF CommandsFollowEffects
  <1>10. DeadlineRules(o)'
    BY DEF DeadlineRules
  <1>11. AnnouncementsFollowStatus(o)'
    BY DEF AnnouncementsFollowStatus
  <1> QED
    BY <1>1, <1>6, <1>7, <1>8, <1>9, <1>10, <1>11, OrderStepInv

(* handlePaymentFailed: an order whose payment failed is PAYMENT_PENDING. *)
LEMMA PaymentFailedInv ==
  ASSUME TypeOK, IInv, NEW o \in Orders, ReceivePaymentFailed(o)
  PROVE  IInv'
  <1>1. /\ UNCHANGED <<inventoryVars, paymentVars, lost>>
        /\ \A p \in Orders \ {o} :
             /\ status'[p] = status[p]
             /\ expired'[p] = expired[p]
             /\ p \in scan' => p \in scan
             /\ orderOutbox'[p] = orderOutbox[p]
             /\ announced'[p] = announced[p]
    BY DEF ReceivePaymentFailed, HandlePaymentFailed, AcceptsPaymentFailed, OrderStep, SetStatus, Command, Announce, Compensate, Cancel,
           TypeOK, OrderTypeOK
  <1>2. /\ status[o] \notin {"NONE", "COMPENSATING_INVENTORY", "CANCELLED"}
        /\ paymentOutbox[o]["PaymentFailedEvent"] >= 1
    BY DEF ReceivePaymentFailed, HandlePaymentFailed, AcceptsPaymentFailed, OrderStep, Exists, Receives, Deliverable, TypeOK,
           InventoryTypeOK, PaymentTypeOK, InventoryEventTypes, PaymentEventTypes
  <1>3. /\ status'[o] = "COMPENSATING_INVENTORY"
        /\ orderOutbox'[o]["ReserveInventoryCommand"] = orderOutbox[o]["ReserveInventoryCommand"]
        /\ orderOutbox'[o]["InitiatePaymentCommand"] = orderOutbox[o]["InitiatePaymentCommand"]
        /\ orderOutbox'[o]["ReleaseInventoryCommand"] = orderOutbox[o]["ReleaseInventoryCommand"] + 1
        /\ announced'[o] = announced[o]
        /\ expired'[o] = expired[o] /\ scan' = scan
    BY DEF ReceivePaymentFailed, HandlePaymentFailed, AcceptsPaymentFailed, OrderStep, SetStatus, Command, Announce, Compensate, Cancel,
           TypeOK, OrderTypeOK, CommandTypes
  <1>4. SagaInv(o) /\ RowOf(o) /\ OthersSame(o) /\ EventFacts(o)
        /\ status[o] \in OrderStatus \cup {"NONE"}
    BY <1>1, OrderFrame, RowTypes, EventMeaning DEF IInv, OthersSame, CommandTypes
  <1>5. /\ status[o] = "PAYMENT_PENDING" /\ ledger[o]["FAILED"] = 1
        /\ orderOutbox[o]["InitiatePaymentCommand"] = 1 /\ orderOutbox[o]["ReleaseInventoryCommand"] = 0
        /\ ~Handled("ReleaseInventoryCommand", o)
    BY <1>2, <1>4
       DEF SagaInv, EventFacts, RowOf, CommandsFollowStatus, CommandsFollowEffects,
           InventoryFollowsCommands,
           Commanded, OrderStatus
  <1> USE <1>2, <1>3, <1>4, <1>5 DEF SagaInv, OthersSame, Commanded, Told
  <1>6. CommandsFollowStatus(o)'
    BY DEF CommandsFollowStatus, Exists, RowOf
  <1>7. InventoryFollowsCommands(o)'
    BY DEF InventoryFollowsCommands, CommandsFollowStatus, Exists
  <1>8. PaymentFollowsCommands(o)'
    BY DEF PaymentFollowsCommands
  <1>9. CommandsFollowEffects(o)'
    BY DEF CommandsFollowEffects
  <1>10. DeadlineRules(o)'
    BY DEF DeadlineRules
  <1>11. AnnouncementsFollowStatus(o)'
    BY DEF AnnouncementsFollowStatus
  <1> QED
    BY <1>1, <1>6, <1>7, <1>8, <1>9, <1>10, <1>11, OrderStepInv

(* handleInventoryReleased: there was a release, so a late cancellation is one *)
(* that AnnouncementsFollowStatus lets through.                               *)
LEMMA InventoryReleasedInv ==
  ASSUME TypeOK, IInv, NEW o \in Orders, ReceiveInventoryReleased(o)
  PROVE  IInv'
  <1>1. /\ UNCHANGED <<inventoryVars, paymentVars, lost>>
        /\ \A p \in Orders \ {o} :
             /\ status'[p] = status[p]
             /\ expired'[p] = expired[p]
             /\ p \in scan' => p \in scan
             /\ orderOutbox'[p] = orderOutbox[p]
             /\ announced'[p] = announced[p]
    BY DEF ReceiveInventoryReleased, HandleInventoryReleased, OrderStep, SetStatus, Command, Announce, Compensate, Cancel,
           TypeOK, OrderTypeOK
  <1>2. /\ status[o] # "NONE"
        /\ inventoryOutbox[o]["InventoryReleasedEvent"] >= 1
    BY DEF ReceiveInventoryReleased, HandleInventoryReleased, OrderStep, Exists, Receives, Deliverable, TypeOK,
           InventoryTypeOK, PaymentTypeOK, InventoryEventTypes, PaymentEventTypes
  <1>3. /\ status'[o] = "CANCELLED"
        /\ orderOutbox'[o]["ReserveInventoryCommand"] = orderOutbox[o]["ReserveInventoryCommand"]
        /\ orderOutbox'[o]["InitiatePaymentCommand"] = orderOutbox[o]["InitiatePaymentCommand"]
        /\ orderOutbox'[o]["ReleaseInventoryCommand"] = orderOutbox[o]["ReleaseInventoryCommand"]
        /\ announced'[o] = announced[o] \cup {"OrderCancelledEvent"}
        /\ expired'[o] = expired[o] /\ scan' = scan
    BY DEF ReceiveInventoryReleased, HandleInventoryReleased, OrderStep, SetStatus, Command, Announce, Compensate, Cancel,
           TypeOK, OrderTypeOK, CommandTypes
  <1>4. SagaInv(o) /\ RowOf(o) /\ OthersSame(o) /\ EventFacts(o)
        /\ status[o] \in OrderStatus \cup {"NONE"}
    BY <1>1, OrderFrame, RowTypes, EventMeaning DEF IInv, OthersSame, CommandTypes
  <1>5. /\ Handled("ReleaseInventoryCommand", o)
        /\ orderOutbox[o]["InitiatePaymentCommand"] = 1 /\ orderOutbox[o]["ReleaseInventoryCommand"] = 1
        /\ ~expired[o] => status[o] \in {"COMPENSATING_INVENTORY", "CANCELLED"}
    BY <1>2, <1>4
       DEF SagaInv, EventFacts, RowOf, CommandsFollowStatus, CommandsFollowEffects, DeadlineRules,
           PaymentFollowsCommands,
           Commanded, OrderStatus
  <1> USE <1>2, <1>3, <1>4, <1>5 DEF SagaInv, OthersSame, Commanded, Told
  <1>6. CommandsFollowStatus(o)'
    BY DEF CommandsFollowStatus, Exists, RowOf
  <1>7. InventoryFollowsCommands(o)'
    BY DEF InventoryFollowsCommands, CommandsFollowStatus, Exists
  <1>8. PaymentFollowsCommands(o)'
    BY DEF PaymentFollowsCommands
  <1>9. CommandsFollowEffects(o)'
    BY DEF CommandsFollowEffects
  <1>10. DeadlineRules(o)'
    BY DEF DeadlineRules
  <1>11. AnnouncementsFollowStatus(o)'
    BY DEF AnnouncementsFollowStatus
  <1> QED
    BY <1>1, <1>6, <1>7, <1>8, <1>9, <1>10, <1>11, OrderStepInv

(* The deadline passes: everything said of an order before its deadline    *)
(* stops being asked of it.                                                *)
LEMMA ExpireInv ==
  ASSUME TypeOK, IInv, NEW o \in Orders, OrderStep(Expire(o))
  PROVE  IInv'
  <1>1. /\ UNCHANGED <<inventoryVars, paymentVars, lost>>
        /\ UNCHANGED <<status, scan, orderOutbox, announced>>
        /\ \A p \in Orders \ {o} : expired'[p] = expired[p]
        /\ expired'[o] = TRUE
    BY DEF OrderStep, Expire, TypeOK, OrderTypeOK
  <1>2. SagaInv(o) /\ OthersSame(o)
    BY <1>1, OrderFrame DEF IInv, OthersSame, CommandTypes
  <1>3. /\ CommandsFollowStatus(o)'
        /\ InventoryFollowsCommands(o)'
        /\ PaymentFollowsCommands(o)'
        /\ CommandsFollowEffects(o)'
    BY <1>1, <1>2
       DEF SagaInv, OthersSame, CommandsFollowStatus, InventoryFollowsCommands,
           PaymentFollowsCommands, CommandsFollowEffects, Commanded, Told, Exists
  <1>4. DeadlineRules(o)' /\ AnnouncementsFollowStatus(o)'
    BY <1>1, <1>2
       DEF SagaInv, DeadlineRules, AnnouncementsFollowStatus, Commanded
  <1>5. SagaInv(o)'
    BY <1>3, <1>4 DEF SagaInv
  <1> QED
    BY <1>1, <1>5, OrderStepInv

(* The Dead Man's Switch. *)
LEMMA CompensateInv ==
  ASSUME TypeOK, IInv, NEW o \in Orders, OrderStep(CompensateTimedOutOrder(o))
  PROVE  IInv'
  <1>1. /\ UNCHANGED <<inventoryVars, paymentVars, lost>>
        /\ UNCHANGED expired
        /\ scan' = scan \ {o}
        /\ \A p \in Orders \ {o} :
             /\ status'[p] = status[p]
             /\ orderOutbox'[p] = orderOutbox[p]
             /\ announced'[p] = announced[p]
    BY DEF OrderStep, CompensateTimedOutOrder, SetStatus, Command, Announce, Compensate,
           Cancel, TypeOK, OrderTypeOK
  <1>2. SagaInv(o) /\ RowOf(o) /\ OthersSame(o) /\ expired[o]
    BY <1>1, OrderFrame, RowTypes
       DEF IInv, SagaInv, DeadlineRules, OthersSame, CommandTypes, OrderStep,
           CompensateTimedOutOrder
  <1> USE <1>1, <1>2 DEF SagaInv, OthersSame, Commanded, Told
  <1>3. CASE Settled(o) /\ UNCHANGED <<status, orderOutbox, announced>>
    <2>1. SameRows(o)
      BY <1>3, OrderFrame DEF SameRows, DeadlineRules
    <2> QED
      BY <2>1, SameRowsInv, OrderStepInv
  <1>4. CASE status[o] = "PAYMENT_PENDING" /\ Compensate(o)
    <2>1. /\ status'[o] = "COMPENSATING_INVENTORY"
          /\ announced'[o] = announced[o]
          /\ orderOutbox'[o]["ReserveInventoryCommand"]
               = orderOutbox[o]["ReserveInventoryCommand"]
          /\ orderOutbox'[o]["InitiatePaymentCommand"]
               = orderOutbox[o]["InitiatePaymentCommand"]
          /\ orderOutbox'[o]["ReleaseInventoryCommand"]
               = orderOutbox[o]["ReleaseInventoryCommand"] + 1
      BY <1>4 DEF Compensate, SetStatus, Command, TypeOK, OrderTypeOK, CommandTypes
    <2>2. /\ orderOutbox[o]["ReleaseInventoryCommand"] = 0
          /\ orderOutbox[o]["InitiatePaymentCommand"] = 1
          /\ ~Handled("ReleaseInventoryCommand", o)
      BY <1>4 DEF CommandsFollowStatus, InventoryFollowsCommands
    <2>3. CommandsFollowStatus(o)'
      BY <1>4, <2>1, <2>2 DEF CommandsFollowStatus, Exists
    <2>4. InventoryFollowsCommands(o)' /\ PaymentFollowsCommands(o)'
      BY <2>1, <2>2 DEF InventoryFollowsCommands, PaymentFollowsCommands
    <2>5. CommandsFollowEffects(o)' /\ DeadlineRules(o)' /\ AnnouncementsFollowStatus(o)'
      BY <2>1, <2>2 DEF CommandsFollowEffects, DeadlineRules, AnnouncementsFollowStatus
    <2> QED
      BY <2>3, <2>4, <2>5, OrderStepInv
  <1>5. CASE ~Settled(o) /\ status[o] # "PAYMENT_PENDING" /\ Cancel(o)
    <2>1. /\ status'[o] = "CANCELLED"
          /\ announced'[o] = announced[o] \cup {"OrderCancelledEvent"}
          /\ UNCHANGED orderOutbox
      BY <1>5 DEF Cancel, SetStatus, Announce, TypeOK, OrderTypeOK
    <2>2. status[o] \in {"CREATED", "COMPENSATING_INVENTORY"}
      BY <1>5, RowTypes DEF Settled, OrderStatus, CommandsFollowStatus
    <2>3. CommandsFollowStatus(o)'
      BY <2>1, <2>2 DEF CommandsFollowStatus, Exists
    <2>4. InventoryFollowsCommands(o)' /\ PaymentFollowsCommands(o)'
      BY <2>1 DEF InventoryFollowsCommands, PaymentFollowsCommands
    <2>5. CommandsFollowEffects(o)' /\ DeadlineRules(o)'
      BY <2>1 DEF CommandsFollowEffects, DeadlineRules
    <2>6. AnnouncementsFollowStatus(o)'
      BY <2>1, <2>2 DEF CommandsFollowStatus, AnnouncementsFollowStatus
    <2> QED
      BY <2>3, <2>4, <2>5, <2>6, OrderStepInv
  <1> QED
    BY <1>3, <1>4, <1>5 DEF OrderStep, CompensateTimedOutOrder

(* The timeout check's own list holds expired orders only. *)
LEMMA ScanInv ==
  ASSUME TypeOK, IInv,
         \/ OrderStep(CheckSagaTimeouts) \/ OrderStep(OrderServiceRestarts)
         \/ \E o \in Orders : OrderStep(CompensationFails(o))
  PROVE  IInv'
  <1> SUFFICES ASSUME NEW p \in Orders PROVE SagaInv(p)'
    BY DEF IInv
  <1>1. /\ UNCHANGED <<inventoryVars, paymentVars, status, expired, orderOutbox, announced>>
        /\ p \in scan' => p \in scan \/ expired[p]
    BY DEF OrderStep, CheckSagaTimeouts, OrderServiceRestarts, CompensationFails, TimedOut
  <1>2. SameRows(p)
    BY <1>1, OrderFrame DEF SameRows, IInv, SagaInv, DeadlineRules
  <1> QED
    BY <1>2, SameRowsInv DEF IInv

LEMMA UnchangedInv ==
  ASSUME TypeOK, IInv, UNCHANGED <<orderVars, inventoryVars, paymentVars>>
  PROVE  IInv'
  <1> SUFFICES ASSUME NEW p \in Orders PROVE SagaInv(p)'
    BY DEF IInv
  <1>1. UNCHANGED <<status, expired, scan, orderOutbox, announced>>
    BY DEF orderVars
  <1>2. SameRows(p)
    BY <1>1, OrderFrame DEF SameRows, IInv, SagaInv, DeadlineRules
  <1> QED
    BY <1>2, SameRowsInv DEF IInv

-----------------------------------------------------------------------------
(* Steps of the inventory service. *)

(* What a step of the inventory service on order o leaves alone. *)
LEMMA InventoryStepInv ==
  ASSUME TypeOK, IInv, NEW o \in Orders,
         UNCHANGED <<orderVars, paymentVars>>,
         \A p \in Orders \ {o} :
            /\ reservations'[p] = reservations[p]
            /\ inventoryOutbox'[p] = inventoryOutbox[p]
            /\ \A t \in CommandTypes : Handled(t, p)' <=> Handled(t, p)
            /\ p \in tombstones' <=> p \in tombstones,
         InventoryFollowsCommands(o)',
         \A t \in {"InventoryReservedEvent", "InventoryReservationFailedEvent"} :
            inventoryOutbox[o][t] = 1 => inventoryOutbox'[o][t] = 1,
         \A t \in CommandTypes : Handled(t, o) => Handled(t, o)'
  PROVE  IInv'
  <1>1. UNCHANGED <<status, expired, scan, orderOutbox, announced, ledger, paymentOutbox,
                    paymentProcessed>>
    BY DEF orderVars, paymentVars
  <1>2. ASSUME NEW p \in Orders, p # o PROVE SagaInv(p)'
    <2>1. SameRows(p)
      BY <1>1, <1>2 DEF SameRows, PaymentHandled, IInv, SagaInv, DeadlineRules
    <2> QED
      BY <2>1, SameRowsInv DEF IInv
  <1>3. SagaInv(o)'
    <2>1. SagaInv(o)
      BY DEF IInv
    <2>2. CommandsFollowStatus(o)' /\ PaymentFollowsCommands(o)'
      BY <1>1, <2>1
         DEF SagaInv, CommandsFollowStatus, PaymentFollowsCommands, Commanded, Exists,
             PaymentHandled
    <2>3. CommandsFollowEffects(o)' /\ DeadlineRules(o)' /\ AnnouncementsFollowStatus(o)'
      BY <1>1, <2>1
         DEF SagaInv, CommandsFollowEffects, DeadlineRules, AnnouncementsFollowStatus,
             Commanded, Told, CommandTypes
    <2> QED
      BY <2>2, <2>3 DEF SagaInv
  <1> QED
    BY <1>2, <1>3 DEF IInv

LEMMA ReserveInv ==
  ASSUME NonEmptyOrders, TypeOK, IInv, NEW o \in Orders, ReceiveReserveInventory(o)
  PROVE  IInv'
  <1>1. /\ HandleReserveInventoryCommand(o, 1)
        /\ orderOutbox[o]["ReserveInventoryCommand"] = 1
        /\ UNCHANGED <<orderVars, paymentVars, lost>>
    <2>1. PICK n \in 1 .. orderOutbox[o]["ReserveInventoryCommand"] :
             /\ HandleReserveInventoryCommand(o, n)
             /\ UNCHANGED <<orderVars, paymentVars, lost>>
      BY DEF ReceiveReserveInventory
    <2>2. orderOutbox[o]["ReserveInventoryCommand"] \in {0, 1}
      BY DEF IInv, SagaInv, CommandsFollowStatus, Commanded
    <2>3. n = 1 /\ orderOutbox[o]["ReserveInventoryCommand"] = 1
      BY <2>2
    <2> QED
      BY <2>1, <2>3
  <1>2. /\ inventoryProcessed' =
             inventoryProcessed \cup {<<"ReserveInventoryCommand", o, 1>>}
        /\ ~Handled("ReserveInventoryCommand", o)
    BY <1>1 DEF HandleReserveInventoryCommand, RecordProcessed, Handled
  <1>3. /\ Handled("ReserveInventoryCommand", o)'
        /\ Handled("ReleaseInventoryCommand", o)' <=> Handled("ReleaseInventoryCommand", o)
        /\ \A t \in CommandTypes : Handled(t, o) => Handled(t, o)'
        /\ \A p \in Orders \ {o}, t \in CommandTypes : Handled(t, p)' <=> Handled(t, p)
    BY <1>2 DEF Handled
  <1>4. InventoryFollowsCommands(o) /\ RowOf(o)
    BY RowTypes DEF IInv, SagaInv
  <1>5. /\ inventoryOutbox[o]["InventoryReservedEvent"] = 0
        /\ inventoryOutbox[o]["InventoryReservationFailedEvent"] = 0
        /\ reservations[o]["RESERVED"] = 0 /\ reservations[o]["RELEASED"] = 0
        /\ o \notin tombstones
    <2>1. Told(o, "InventoryReservedEvent") + Told(o, "InventoryReservationFailedEvent") = 0
      BY <1>2, <1>4 DEF InventoryFollowsCommands
    <2>2. /\ inventoryOutbox[o]["InventoryReservedEvent"] = 0
          /\ inventoryOutbox[o]["InventoryReservationFailedEvent"] = 0
      BY <2>1, <1>4 DEF Told, RowOf
    <2>3. reservations[o]["RESERVED"] + reservations[o]["RELEASED"] = 0
      BY <2>2, <1>4 DEF InventoryFollowsCommands, Told
    <2>4. reservations[o]["RESERVED"] = 0 /\ reservations[o]["RELEASED"] = 0
      BY <2>3, <1>4 DEF RowOf
    <2>5. o \notin tombstones
      BY <1>4 DEF InventoryFollowsCommands
    <2> QED
      BY <2>2, <2>4, <2>5
  <1>6. CASE RejectOutOfStock(o)
    <2>1. /\ UNCHANGED <<reservations, tombstones>>
          /\ \A p \in Orders \ {o} : inventoryOutbox'[p] = inventoryOutbox[p]
          /\ inventoryOutbox'[o]["InventoryReservedEvent"] = 0
          /\ inventoryOutbox'[o]["InventoryReservationFailedEvent"] = 1
          /\ inventoryOutbox'[o]["InventoryReleasedEvent"]
               = inventoryOutbox[o]["InventoryReleasedEvent"]
      BY <1>5, <1>6 DEF RejectOutOfStock, EmitInventoryEvent, TypeOK, InventoryTypeOK,
                        InventoryEventTypes
    <2>2. InventoryFollowsCommands(o)'
      BY <1>1, <1>3, <1>4, <1>5, <2>1
         DEF InventoryFollowsCommands, Told, Commanded, orderVars
    <2> QED
      BY <1>1, <1>3, <1>5, <2>1, <2>2, InventoryStepInv
  <1>7. CASE Reserve(o)
    <2>1. /\ UNCHANGED tombstones
          /\ \A p \in Orders \ {o} : /\ inventoryOutbox'[p] = inventoryOutbox[p]
                                    /\ reservations'[p] = reservations[p]
          /\ inventoryOutbox'[o]["InventoryReservedEvent"] = 1
          /\ inventoryOutbox'[o]["InventoryReservationFailedEvent"] = 0
          /\ inventoryOutbox'[o]["InventoryReleasedEvent"]
               = inventoryOutbox[o]["InventoryReleasedEvent"]
      BY <1>5, <1>7 DEF Reserve, MakeReservation, EmitInventoryEvent, TypeOK,
                        InventoryTypeOK, InventoryEventTypes
    <2>2. reservations'[o]["RESERVED"] = 1 /\ reservations'[o]["RELEASED"] = 0
      <3>1. reservations' = [reservations EXCEPT ![o]["RESERVED"] = @ + 1]
        BY <1>7 DEF Reserve, MakeReservation, NonEmptyOrders
      <3> QED
        BY <1>5, <3>1 DEF TypeOK, InventoryTypeOK
    <2>3. InventoryFollowsCommands(o)'
      BY <1>1, <1>3, <1>4, <1>5, <2>1, <2>2
         DEF InventoryFollowsCommands, Told, Commanded, orderVars
    <2> QED
      BY <1>1, <1>3, <1>5, <2>1, <2>3, InventoryStepInv
  <1> QED
    BY <1>1, <1>5, <1>6, <1>7 DEF HandleReserveInventoryCommand, PreCancelled

LEMMA ReleaseInv ==
  ASSUME TypeOK, IInv, NEW o \in Orders, ReceiveReleaseInventory(o)
  PROVE  IInv'
  <1>1. /\ HandleReleaseInventoryCommand(o, 1)
        /\ orderOutbox[o]["ReleaseInventoryCommand"] = 1
        /\ UNCHANGED <<orderVars, paymentVars, lost>>
    <2>1. PICK n \in 1 .. orderOutbox[o]["ReleaseInventoryCommand"] :
             /\ HandleReleaseInventoryCommand(o, n)
             /\ UNCHANGED <<orderVars, paymentVars, lost>>
      BY DEF ReceiveReleaseInventory
    <2>2. orderOutbox[o]["ReleaseInventoryCommand"] \in {0, 1}
      BY DEF IInv, SagaInv, CommandsFollowStatus, Commanded
    <2>3. n = 1 /\ orderOutbox[o]["ReleaseInventoryCommand"] = 1
      BY <2>2
    <2> QED
      BY <2>1, <2>3
  <1>2. /\ inventoryProcessed' =
             inventoryProcessed \cup {<<"ReleaseInventoryCommand", o, 1>>}
        /\ ~Handled("ReleaseInventoryCommand", o)
    BY <1>1 DEF HandleReleaseInventoryCommand, RecordProcessed, Handled
  <1>3. /\ Handled("ReleaseInventoryCommand", o)'
        /\ Handled("ReserveInventoryCommand", o)' <=> Handled("ReserveInventoryCommand", o)
        /\ \A t \in CommandTypes : Handled(t, o) => Handled(t, o)'
        /\ \A p \in Orders \ {o}, t \in CommandTypes : Handled(t, p)' <=> Handled(t, p)
    BY <1>2 DEF Handled
  <1>4. SagaInv(o) /\ InventoryFollowsCommands(o) /\ RowOf(o)
    BY RowTypes DEF IInv, SagaInv
  <1>5. inventoryOutbox[o]["InventoryReservedEvent"] = 1
    BY <1>1, <1>4 DEF SagaInv, CommandsFollowStatus, CommandsFollowEffects, Commanded, Told
  <1>6. /\ inventoryOutbox[o]["InventoryReleasedEvent"] = 0
        /\ reservations[o]["RESERVED"] = 1 /\ reservations[o]["RELEASED"] = 0
    BY <1>2, <1>4, <1>5 DEF InventoryFollowsCommands, Told, RowOf
  <1>7. ReturnStock(o)
    BY <1>1, <1>6 DEF HandleReleaseInventoryCommand, HasReservationRows
  <1>8. /\ UNCHANGED tombstones
        /\ \A p \in Orders \ {o} : reservations'[p] = reservations[p]
        /\ reservations'[o]["RESERVED"] = 0 /\ reservations'[o]["RELEASED"] = 1
    BY <1>6, <1>7 DEF ReturnStock, TypeOK, InventoryTypeOK
  <1>9. /\ \A p \in Orders \ {o} : inventoryOutbox'[p] = inventoryOutbox[p]
        /\ inventoryOutbox'[o]["InventoryReservedEvent"]
             = inventoryOutbox[o]["InventoryReservedEvent"]
        /\ inventoryOutbox'[o]["InventoryReservationFailedEvent"]
             = inventoryOutbox[o]["InventoryReservationFailedEvent"]
        /\ inventoryOutbox'[o]["InventoryReleasedEvent"] = 1
    BY <1>1, <1>6 DEF HandleReleaseInventoryCommand, EmitInventoryEvent, TypeOK,
                      InventoryTypeOK, InventoryEventTypes
  <1>10. InventoryFollowsCommands(o)'
    BY <1>1, <1>3, <1>4, <1>5, <1>8, <1>9
       DEF InventoryFollowsCommands, Told, Commanded, orderVars
  <1> QED
    BY <1>1, <1>3, <1>8, <1>9, <1>10, InventoryStepInv

-----------------------------------------------------------------------------
(* Step of the payment service. *)

LEMMA PayInv ==
  ASSUME TypeOK, IInv, NEW o \in Orders, ReceiveInitiatePayment(o)
  PROVE  IInv'
  <1>1. /\ HandleInitiatePaymentCommand(o, 1)
        /\ orderOutbox[o]["InitiatePaymentCommand"] = 1
        /\ UNCHANGED <<orderVars, inventoryVars, lost>>
    <2>1. PICK n \in 1 .. orderOutbox[o]["InitiatePaymentCommand"] :
             /\ HandleInitiatePaymentCommand(o, n)
             /\ UNCHANGED <<orderVars, inventoryVars, lost>>
      BY DEF ReceiveInitiatePayment
    <2>2. orderOutbox[o]["InitiatePaymentCommand"] \in {0, 1}
      BY DEF IInv, SagaInv, CommandsFollowStatus, Commanded
    <2>3. n = 1 /\ orderOutbox[o]["InitiatePaymentCommand"] = 1
      BY <2>2
    <2> QED
      BY <2>1, <2>3
  <1>2. /\ UNCHANGED <<status, expired, scan, orderOutbox, announced>>
        /\ UNCHANGED <<reservations, inventoryOutbox, inventoryProcessed, tombstones>>
    BY <1>1 DEF orderVars, inventoryVars
  <1>3. /\ ~PaymentHandled(o) /\ PaymentHandled(o)'
        /\ \A p \in Orders \ {o} : PaymentHandled(p)' <=> PaymentHandled(p)
    BY <1>1 DEF HandleInitiatePaymentCommand, RecordPaid, PaymentHandled
  <1>4. PICK s \in {"SUCCESS", "FAILED"}, e \in PaymentEventTypes :
           /\ RecordTransaction(o, s, e)
           /\ s = "SUCCESS" <=> e = "PaymentCapturedEvent"
    BY <1>1 DEF HandleInitiatePaymentCommand, RecordFailedPayment, PaymentEventTypes
  <1>5. SagaInv(o) /\ RowOf(o)
    BY RowTypes DEF IInv
  <1>6. /\ ledger[o]["SUCCESS"] = 0 /\ ledger[o]["FAILED"] = 0
        /\ paymentOutbox[o]["PaymentCapturedEvent"] = 0
        /\ paymentOutbox[o]["PaymentFailedEvent"] = 0
    BY <1>3, <1>5 DEF SagaInv, PaymentFollowsCommands, RowOf
  <1>7. ASSUME NEW p \in Orders, p # o PROVE SagaInv(p)'
    <2>1. ledger'[p] = ledger[p] /\ paymentOutbox'[p] = paymentOutbox[p]
      BY <1>4, <1>7 DEF RecordTransaction, TypeOK, PaymentTypeOK
    <2>2. SameRows(p)
      BY <1>2, <1>3, <1>7, <2>1 DEF SameRows, Handled, IInv, SagaInv, DeadlineRules
    <2> QED
      BY <2>2, SameRowsInv DEF IInv
  <1>8. PaymentFollowsCommands(o)'
    <2>1. CASE s = "SUCCESS"
      <3>1. /\ ledger'[o]["SUCCESS"] = 1 /\ ledger'[o]["FAILED"] = 0
            /\ paymentOutbox'[o]["PaymentCapturedEvent"] = 1
            /\ paymentOutbox'[o]["PaymentFailedEvent"] = 0
        BY <1>4, <1>6, <2>1 DEF RecordTransaction, TypeOK, PaymentTypeOK, PaymentEventTypes
      <3> QED
        BY <1>1, <1>2, <1>3, <3>1 DEF PaymentFollowsCommands, Commanded
    <2>2. CASE s = "FAILED"
      <3>1. /\ ledger'[o]["SUCCESS"] = 0 /\ ledger'[o]["FAILED"] = 1
            /\ paymentOutbox'[o]["PaymentCapturedEvent"] = 0
            /\ paymentOutbox'[o]["PaymentFailedEvent"] = 1
        BY <1>4, <1>6, <2>2 DEF RecordTransaction, TypeOK, PaymentTypeOK, PaymentEventTypes
      <3> QED
        BY <1>1, <1>2, <1>3, <3>1 DEF PaymentFollowsCommands, Commanded
    <2> QED
      BY <2>1, <2>2
  <1>9. CommandsFollowStatus(o)' /\ InventoryFollowsCommands(o)'
    BY <1>2, <1>5
       DEF SagaInv, CommandsFollowStatus, InventoryFollowsCommands, Commanded, Told,
           Exists, Handled
  <1>10. CommandsFollowEffects(o)' /\ DeadlineRules(o)' /\ AnnouncementsFollowStatus(o)'
    BY <1>2, <1>5, <1>6
       DEF SagaInv, CommandsFollowEffects, DeadlineRules, AnnouncementsFollowStatus,
           Commanded, Told, Handled
  <1> QED
    BY <1>7, <1>8, <1>9, <1>10 DEF IInv, SagaInv

-----------------------------------------------------------------------------
(* All steps. *)

LEMMA LoseInv ==
  ASSUME TypeOK, IInv, Lose
  PROVE  IInv'
  <1>1. UNCHANGED <<orderVars, inventoryVars, paymentVars>>
    BY DEF Lose, LoseFrom
  <1> QED
    BY <1>1, UnchangedInv

LEMMA NextInv ==
  ASSUME NonEmptyOrders, TypeOK, IInv, [Next]_vars
  PROVE  IInv'
  <1>1. ASSUME NEW o \in Orders, OrderStep(CreateOrder(o)) PROVE IInv'
    BY <1>1, CreateOrderInv
  <1>2. ASSUME NEW o \in Orders, ReceiveInventoryReserved(o) PROVE IInv'
    BY <1>2, InventoryReservedInv
  <1>3. ASSUME NEW o \in Orders, ReceiveInventoryReservationFailed(o) PROVE IInv'
    BY <1>3, ReservationFailedInv
  <1>4. ASSUME NEW o \in Orders, ReceivePaymentCaptured(o) PROVE IInv'
    BY <1>4, PaymentCapturedInv
  <1>5. ASSUME NEW o \in Orders, ReceivePaymentFailed(o) PROVE IInv'
    BY <1>5, PaymentFailedInv
  <1>6. ASSUME NEW o \in Orders, ReceiveInventoryReleased(o) PROVE IInv'
    BY <1>6, InventoryReleasedInv
  <1>7. ASSUME NEW o \in Orders, ReceiveReserveInventory(o) PROVE IInv'
    BY <1>7, ReserveInv
  <1>8. ASSUME NEW o \in Orders, ReceiveReleaseInventory(o) PROVE IInv'
    BY <1>8, ReleaseInv
  <1>9. ASSUME NEW o \in Orders, ReceiveInitiatePayment(o) PROVE IInv'
    BY <1>9, PayInv
  <1>10. ASSUME NEW o \in Orders, OrderStep(Expire(o)) PROVE IInv'
    BY <1>10, ExpireInv
  <1>11. ASSUME NEW o \in Orders, OrderStep(CompensateTimedOutOrder(o)) PROVE IInv'
    BY <1>11, CompensateInv
  <1>12. ASSUME NEW o \in Orders, OrderStep(CompensationFails(o)) PROVE IInv'
    BY <1>12, ScanInv
  <1>13. CASE OrderStep(CheckSagaTimeouts) \/ OrderStep(OrderServiceRestarts)
    BY <1>13, ScanInv
  <1>14. CASE Lose
    BY <1>14, LoseInv
  <1>15. CASE UNCHANGED vars
    BY <1>15, UnchangedInv DEF vars
  <1> QED
    BY <1>1, <1>2, <1>3, <1>4, <1>5, <1>6, <1>7, <1>8, <1>9, <1>10, <1>11, <1>12,
       <1>13, <1>14, <1>15 DEF Next

(***************************************************************************)
(* If every order has a line, what the orchestrator commanded, what the    *)
(* services did, what they reported and what was announced agree in every  *)
(* state, whatever is lost, repeated, reordered or timed out: the saga     *)
(* handlers of saga-orchestrator.service.ts and the two command handlers   *)
(* keep IInv.                                                              *)
(***************************************************************************)
THEOREM InvariantCorrect == ASSUME NonEmptyOrders PROVE Spec => []IInv
  <1>1. TypeOK /\ IInv /\ [Next]_vars => IInv'
    BY NextInv
  <1> QED
    BY <1>1, InitInv, TypeCorrect, PTL DEF Spec

-----------------------------------------------------------------------------
(* What IInv says of the saga, for any set of orders and any number of     *)
(* lost rows.                                                              *)

(* IInv in the terms the properties use. *)
LEMMA SagaFacts ==
  ASSUME TypeOK, IInv, NEW o \in Orders
  PROVE  /\ ledger[o]["SUCCESS"] + ledger[o]["FAILED"] <= 1
         /\ reservations[o]["RESERVED"] + reservations[o]["RELEASED"] <= 1
         /\ inventoryOutbox[o]["InventoryReleasedEvent"] <= 1
         /\ ledger[o]["SUCCESS"] > 0 \/ ledger[o]["FAILED"] > 0 =>
              reservations[o]["RESERVED"] + reservations[o]["RELEASED"] = 1
         /\ reservations[o]["RELEASED"] > 0 => orderOutbox[o]["ReleaseInventoryCommand"] = 1
         /\ status[o] = "CONFIRMED" => ledger[o]["SUCCESS"] = 1
         /\ o \notin tombstones
  <1>1. SagaInv(o) /\ RowOf(o)
    BY RowTypes DEF IInv
  <1>2. /\ ledger[o]["SUCCESS"] + ledger[o]["FAILED"] = IF PaymentHandled(o) THEN 1 ELSE 0
        /\ PaymentHandled(o) => orderOutbox[o]["InitiatePaymentCommand"] = 1
    BY <1>1 DEF SagaInv, PaymentFollowsCommands, Commanded
  <1>3. /\ orderOutbox[o]["InitiatePaymentCommand"] = 1 =>
             inventoryOutbox[o]["InventoryReservedEvent"] = 1
        /\ status[o] = "CONFIRMED" => ledger[o]["SUCCESS"] = 1
    BY <1>1 DEF SagaInv, CommandsFollowEffects, Commanded, Told
  <1>4. /\ inventoryOutbox[o]["InventoryReservedEvent"]
             + inventoryOutbox[o]["InventoryReservationFailedEvent"] \in {0, 1}
        /\ reservations[o]["RESERVED"] + reservations[o]["RELEASED"]
             = inventoryOutbox[o]["InventoryReservedEvent"]
        /\ inventoryOutbox[o]["InventoryReleasedEvent"] \in {0, 1}
        /\ reservations[o]["RELEASED"] > 0 => orderOutbox[o]["ReleaseInventoryCommand"] = 1
        /\ o \notin tombstones
    BY <1>1 DEF SagaInv, InventoryFollowsCommands, Told, Commanded
  <1>5. inventoryOutbox[o]["InventoryReservedEvent"] <= 1
    <2>1. /\ inventoryOutbox[o]["InventoryReservedEvent"] \in Nat
          /\ inventoryOutbox[o]["InventoryReservationFailedEvent"] \in Nat
      BY <1>1 DEF RowOf
    <2> QED
      BY <1>4, <2>1
  <1>6. ledger[o]["SUCCESS"] > 0 \/ ledger[o]["FAILED"] > 0 => PaymentHandled(o)
    BY <1>1, <1>2 DEF RowOf
  <1> QED
    BY <1>2, <1>3, <1>4, <1>5, <1>6

LEMMA InvariantImplies ==
  ASSUME TypeOK, IInv
  PROVE  /\ AtMostOneCharge
         /\ AtMostOneReservation
         /\ StepsInOrder
         /\ ContradictionOnlyAfterCompensation
         /\ TombstonesUnused
  <1>1. AtMostOneCharge
    BY SagaFacts DEF AtMostOneCharge
  <1>2. AtMostOneReservation
    BY SagaFacts DEF AtMostOneReservation
  <1>3. StepsInOrder
    <2> SUFFICES ASSUME NEW o \in Orders
                 PROVE  /\ ledger[o]["SUCCESS"] > 0 =>
                             reservations[o]["RESERVED"] + reservations[o]["RELEASED"] > 0
                        /\ reservations[o]["RELEASED"] > 0 =>
                             orderOutbox[o]["ReleaseInventoryCommand"] > 0
                        /\ status[o] = "CONFIRMED" => ledger[o]["SUCCESS"] > 0
      BY DEF StepsInOrder
    <2>1. ledger[o]["SUCCESS"] > 0 =>
            reservations[o]["RESERVED"] + reservations[o]["RELEASED"] > 0
      BY SagaFacts
    <2>2. reservations[o]["RELEASED"] > 0 =>
            orderOutbox[o]["ReleaseInventoryCommand"] > 0
      BY SagaFacts
    <2>3. status[o] = "CONFIRMED" => ledger[o]["SUCCESS"] > 0
      BY SagaFacts
    <2> QED
      BY <2>1, <2>2, <2>3
  <1>4. ContradictionOnlyAfterCompensation
    <2> SUFFICES ASSUME NEW o \in Orders, announced[o] = Announcements
                 PROVE  orderOutbox[o]["ReleaseInventoryCommand"] > 0
      BY DEF ContradictionOnlyAfterCompensation
    <2>1. /\ orderOutbox[o]["ReleaseInventoryCommand"] \in {0, 1}
          /\ orderOutbox[o]["ReleaseInventoryCommand"] = 0 =>
               announced[o] = CASE status[o] = "CONFIRMED" -> {"OrderConfirmedEvent"}
                                [] status[o] = "CANCELLED" -> {"OrderCancelledEvent"}
                                [] OTHER -> {}
      BY DEF IInv, SagaInv, CommandsFollowStatus, AnnouncementsFollowStatus, Commanded
    <2> QED
      BY <2>1 DEF Announcements
  <1>5. TombstonesUnused
    BY SagaFacts DEF TombstonesUnused, TypeOK, InventoryTypeOK
  <1> QED
    BY <1>1, <1>2, <1>3, <1>4, <1>5

LEMMA InvariantImpliesAtomic == ASSUME TypeOK, IInv PROVE AtomicBeforeDeadline
  <1> SUFFICES ASSUME NEW o \in Orders, ~expired[o]
               PROVE  /\ status[o] = "CONFIRMED" =>
                           Held(o) /\ Captured(o) /\ announced[o] = {"OrderConfirmedEvent"}
                      /\ status[o] = "CANCELLED" =>
                           ~Held(o) /\ ~Captured(o) /\ announced[o] = {"OrderCancelledEvent"}
                      /\ ~Terminal(o) => announced[o] = {}
    BY DEF AtomicBeforeDeadline
  <1>1. SagaInv(o) /\ RowOf(o)
    BY RowTypes DEF IInv
  <1>2. announced[o] = CASE status[o] = "CONFIRMED" -> {"OrderConfirmedEvent"}
                         [] status[o] = "CANCELLED" -> {"OrderCancelledEvent"}
                         [] OTHER -> {}
    BY <1>1 DEF SagaInv, AnnouncementsFollowStatus
  <1>3. orderOutbox[o]["ReleaseInventoryCommand"] = 1 => ledger[o]["FAILED"] = 1
    BY <1>1 DEF SagaInv, DeadlineRules, Commanded
  <1>4. status[o] = "CONFIRMED" => Held(o) /\ Captured(o)
    <2> SUFFICES ASSUME status[o] = "CONFIRMED" PROVE Held(o) /\ Captured(o)
      OBVIOUS
    <2>1. ledger[o]["SUCCESS"] = 1 /\ ledger[o]["FAILED"] # 1
      BY <1>1, SagaFacts DEF RowOf
    <2>2. reservations[o]["RELEASED"] = 0
      BY <1>1, <1>3, <2>1, SagaFacts DEF RowOf
    <2>3. reservations[o]["RESERVED"] + reservations[o]["RELEASED"] = 1
      BY <2>1, SagaFacts
    <2> QED
      BY <1>1, <2>1, <2>2, <2>3 DEF Held, Captured, RowOf
  <1>5. status[o] = "CANCELLED" => ~Held(o) /\ ~Captured(o)
    <2> SUFFICES ASSUME status[o] = "CANCELLED" PROVE ~Held(o) /\ ~Captured(o)
      OBVIOUS
    <2>1. CASE inventoryOutbox[o]["InventoryReservationFailedEvent"] = 1
      <3>1. reservations[o]["RESERVED"] + reservations[o]["RELEASED"] = 0
        BY <1>1, <2>1 DEF SagaInv, InventoryFollowsCommands, Told, RowOf
      <3>2. ledger[o]["SUCCESS"] = 0
        BY <1>1, <3>1, SagaFacts DEF RowOf
      <3> QED
        BY <1>1, <3>1, <3>2 DEF Held, Captured, RowOf
    <2>2. CASE Handled("ReleaseInventoryCommand", o)
      <3>1. /\ reservations[o]["RELEASED"] > 0
            /\ orderOutbox[o]["ReleaseInventoryCommand"] = 1
        BY <1>1, <2>2 DEF SagaInv, InventoryFollowsCommands, Commanded
      <3>2. reservations[o]["RESERVED"] = 0
        BY <1>1, <3>1, SagaFacts DEF RowOf
      <3>3. ledger[o]["SUCCESS"] = 0
        BY <1>1, <1>3, <3>1, SagaFacts DEF RowOf
      <3> QED
        BY <3>2, <3>3 DEF Held, Captured
    <2> QED
      BY <1>1, <2>1, <2>2 DEF SagaInv, DeadlineRules, Told
  <1> QED
    BY <1>2, <1>4, <1>5 DEF Terminal

-----------------------------------------------------------------------------
(* However often the orchestrator hears of a reservation and the payment   *)
(* service of a command, an order has at most one ledger transaction       *)
(* (saga-orchestrator.service.ts:33-37, PaymentProcessingService.java:32). *)
THEOREM ChargedOnce == ASSUME NonEmptyOrders PROVE Spec => []AtMostOneCharge
  <1>1. TypeOK /\ IInv => AtMostOneCharge
    BY InvariantImplies
  <1> QED
    BY <1>1, TypeCorrect, InvariantCorrect, PTL

(* An order's stock is taken at most once and given back at most once.     *)
THEOREM ReservedOnce == ASSUME NonEmptyOrders PROVE Spec => []AtMostOneReservation
  <1>1. TypeOK /\ IInv => AtMostOneReservation
    BY InvariantImplies
  <1> QED
    BY <1>1, TypeCorrect, InvariantCorrect, PTL

(* Stock is set aside before a charge, a release follows a compensation,   *)
(* and only a charged order is confirmed: the services' handlers, driven   *)
(* by the orchestrator's guards, never run the saga out of order.          *)
THEOREM RunsInOrder == ASSUME NonEmptyOrders PROVE Spec => []StepsInOrder
  <1>1. TypeOK /\ IInv => StepsInOrder
    BY InvariantImplies
  <1> QED
    BY <1>1, TypeCorrect, InvariantCorrect, PTL

(* Before its deadline a saga is atomic across the three services: its     *)
(* handlers may be run late, twice or never, but not with half an outcome. *)
THEOREM AtomicUntilDeadline == ASSUME NonEmptyOrders PROVE Spec => []AtomicBeforeDeadline
  <1>1. TypeOK /\ IInv => AtomicBeforeDeadline
    BY InvariantImpliesAtomic
  <1> QED
    BY <1>1, TypeCorrect, InvariantCorrect, PTL

(* Both outcomes of an order are announced only after a release command,   *)
(* that is after handlePaymentFailed or the Dead Man's Switch compensated. *)
THEOREM ContradictionNeedsRelease ==
  ASSUME NonEmptyOrders PROVE Spec => []ContradictionOnlyAfterCompensation
  <1>1. TypeOK /\ IInv => ContradictionOnlyAfterCompensation
    BY InvariantImplies
  <1> QED
    BY <1>1, TypeCorrect, InvariantCorrect, PTL

(* The orchestrator never asks for the release of a reservation that was   *)
(* not handled, so no saga_tombstones row is ever written on its behalf    *)
(* (InventoryManagementService.java:154-164).                              *)
THEOREM NoTombstone == ASSUME NonEmptyOrders PROVE Spec => []TombstonesUnused
  <1>1. TypeOK /\ IInv => TombstonesUnused
    BY InvariantImplies
  <1> QED
    BY <1>1, TypeCorrect, InvariantCorrect, PTL

-----------------------------------------------------------------------------
(* An outcome is final. *)

LEMMA TerminalStep ==
  ASSUME TypeOK, IInv, [Next]_vars, NEW p \in Orders, Terminal(p)
  PROVE  Terminal(p)'
  <1> SUFFICES ASSUME status'[p] # status[p] PROVE Terminal(p)'
    BY DEF Terminal
  <1> USE DEF Terminal, OrderStep, SetStatus, TypeOK, OrderTypeOK
  <1>1. ASSUME NEW o \in Orders, CreateOrder(o) PROVE Terminal(p)'
    BY <1>1 DEF CreateOrder, Exists
  <1>2. ASSUME NEW o \in Orders, ReceiveInventoryReserved(o) PROVE Terminal(p)'
    BY <1>2 DEF ReceiveInventoryReserved, HandleInventoryReserved, AcceptsInventoryReserved
  <1>3. ASSUME NEW o \in Orders, ReceiveInventoryReservationFailed(o) PROVE Terminal(p)'
    BY <1>3 DEF ReceiveInventoryReservationFailed, HandleInventoryReservationFailed, Cancel
  <1>4. ASSUME NEW o \in Orders, ReceivePaymentCaptured(o) PROVE Terminal(p)'
    BY <1>4 DEF ReceivePaymentCaptured, HandlePaymentCaptured
  <1>5. ASSUME NEW o \in Orders, ReceivePaymentFailed(o) PROVE Terminal(p)'
    <2>1. /\ paymentOutbox[o]["PaymentFailedEvent"] >= 1
          /\ status[o] \notin {"COMPENSATING_INVENTORY", "CANCELLED"}
          /\ \A q \in Orders \ {o} : status'[q] = status[q]
      BY <1>5 DEF ReceivePaymentFailed, HandlePaymentFailed, AcceptsPaymentFailed, Compensate,
                  Receives, Deliverable, PaymentTypeOK, PaymentEventTypes
    <2>2. ledger[o]["SUCCESS"] = 0
      BY <2>1, RowTypes, EventMeaning DEF EventFacts, IInv
    <2>3. status[o] # "CONFIRMED"
      BY <2>2, SagaFacts
    <2> QED
      BY <2>1, <2>3
  <1>6. ASSUME NEW o \in Orders, ReceiveInventoryReleased(o) PROVE Terminal(p)'
    BY <1>6 DEF ReceiveInventoryReleased, HandleInventoryReleased, Cancel
  <1>7. ASSUME NEW o \in Orders, CompensateTimedOutOrder(o) PROVE Terminal(p)'
    BY <1>7 DEF CompensateTimedOutOrder, Settled, Compensate, Cancel
  <1>8. ASSUME UNCHANGED status PROVE Terminal(p)'
    BY <1>8
  <1>9. ASSUME NEW o \in Orders,
               \/ ReceiveReserveInventory(o) \/ ReceiveReleaseInventory(o)
               \/ ReceiveInitiatePayment(o) \/ OrderStep(Expire(o))
               \/ OrderStep(CompensationFails(o))
        PROVE  UNCHANGED status
    BY <1>9 DEF ReceiveReserveInventory, ReceiveReleaseInventory, ReceiveInitiatePayment,
                Expire, CompensationFails, orderVars
  <1>10. ASSUME \/ OrderStep(CheckSagaTimeouts) \/ OrderStep(OrderServiceRestarts)
                \/ Lose \/ UNCHANGED vars
         PROVE  UNCHANGED status
    BY <1>10 DEF CheckSagaTimeouts, OrderServiceRestarts, Lose, LoseFrom, vars, orderVars
  <1> QED
    BY <1>1, <1>2, <1>3, <1>4, <1>5, <1>6, <1>7, <1>8, <1>9, <1>10 DEF Next

(* No step of a handler or of the Dead Man's Switch takes an order out of  *)
(* CONFIRMED and CANCELLED, although handlePaymentFailed                   *)
(* (saga-orchestrator.service.ts:232) does not refuse a confirmed order.   *)
THEOREM OutcomeIsFinal == ASSUME NonEmptyOrders PROVE Spec => NeverReopened
  <1>1. TypeOK /\ IInv /\ [Next]_vars =>
          [\A o \in Orders : Terminal(o) => Terminal(o)']_vars
    BY TerminalStep
  <1> QED
    BY <1>1, TypeCorrect, InvariantCorrect, PTL DEF Spec, NeverReopened

-----------------------------------------------------------------------------
(* The component invariants inside the saga. *)

(* If no order names a product twice, the inventory never promises more of *)
(* a product than it has (InventoryManagementService.java:63-83, 106-117). *)
THEOREM StockNeverOversold == ASSUME OneLinePerProduct PROVE Spec => []NoOversell
  <1>1. Init => NoOversell
    BY TotalStockAssumption DEF Init, InventoryInit, NoOversell
  <1>2. TypeOK /\ NoOversell /\ [Next]_vars => NoOversell'
    <2> SUFFICES ASSUME TypeOK, NoOversell, [Next]_vars PROVE NoOversell'
      OBVIOUS
    <2>1. ASSUME NEW o \in Orders, ReceiveReserveInventory(o) \/ ReceiveReleaseInventory(o)
          PROVE  NoOversell'
      BY <2>1, InventoryNoOversell
         DEF ReceiveReserveInventory, ReceiveReleaseInventory, TypeOK
    <2>2. ASSUME UNCHANGED reservedStock PROVE NoOversell'
      BY <2>2 DEF NoOversell
    <2>3. ASSUME Next,
                 \A o \in Orders :
                    ~ReceiveReserveInventory(o) /\ ~ReceiveReleaseInventory(o)
          PROVE  UNCHANGED reservedStock
      BY <2>3 DEF Next, OrderStep, Lose, LoseFrom, ReceiveInventoryReserved,
                  ReceiveInventoryReservationFailed, ReceivePaymentCaptured,
                  ReceivePaymentFailed, ReceiveInventoryReleased, ReceiveInitiatePayment,
                  inventoryVars
    <2> QED
      BY <2>1, <2>2, <2>3 DEF vars, inventoryVars
  <1> QED
    BY <1>1, <1>2, TypeCorrect, PTL DEF Spec

(* No account is ever overdrawn (PaymentProcessingService.java:45-68). *)
THEOREM NeverOverdrawn == Spec => []NoOverdraft
  <1>1. Init => NoOverdraft
    BY PaymentAssumption DEF Init, PaymentInit, NoOverdraft
  <1>2. TypeOK /\ NoOverdraft /\ [Next]_vars => NoOverdraft'
    <2> SUFFICES ASSUME TypeOK, NoOverdraft, [Next]_vars PROVE NoOverdraft'
      OBVIOUS
    <2>1. ASSUME NEW o \in Orders, ReceiveInitiatePayment(o) PROVE NoOverdraft'
      BY <2>1, PaymentNoOverdraft DEF ReceiveInitiatePayment, TypeOK
    <2>2. ASSUME UNCHANGED balance PROVE NoOverdraft'
      BY <2>2 DEF NoOverdraft
    <2>3. ASSUME Next, \A o \in Orders : ~ReceiveInitiatePayment(o)
          PROVE  UNCHANGED balance
      BY <2>3 DEF Next, OrderStep, Lose, LoseFrom, ReceiveInventoryReserved,
                  ReceiveInventoryReservationFailed, ReceivePaymentCaptured,
                  ReceivePaymentFailed, ReceiveInventoryReleased, ReceiveReserveInventory,
                  ReceiveReleaseInventory, paymentVars
    <2> QED
      BY <2>1, <2>2, <2>3 DEF vars, paymentVars
  <1> QED
    BY <1>1, <1>2, TypeCorrect, PTL DEF Spec

(* However often a row is lost, repeated or reordered, every balance is    *)
(* what the ledger's transactions explain: a capture is the debit, the     *)
(* credit and the ledger row, a failure none of the first two              *)
(* (PaymentProcessingService.java:66-91).                                  *)
THEOREM MoneyIsExplained == Spec => []LedgerExplainsBalances
  <1>1. Init => LedgerExplainsBalances
    BY InitExplained DEF Init
  <1>2. TypeOK /\ LedgerExplainsBalances /\ [Next]_vars => LedgerExplainsBalances'
    <2> SUFFICES ASSUME TypeOK, LedgerExplainsBalances, [Next]_vars
                 PROVE  LedgerExplainsBalances'
      OBVIOUS
    <2>1. ASSUME NEW o \in Orders, ReceiveInitiatePayment(o) PROVE LedgerExplainsBalances'
      BY <2>1, PaymentExplained DEF ReceiveInitiatePayment, TypeOK
    <2>2. ASSUME UNCHANGED paymentVars PROVE LedgerExplainsBalances'
      BY <2>2, FailureExplained DEF TypeOK, paymentVars
    <2>3. ASSUME Next, \A o \in Orders : ~ReceiveInitiatePayment(o)
          PROVE  UNCHANGED paymentVars
      BY <2>3 DEF Next, OrderStep, Lose, LoseFrom, ReceiveInventoryReserved,
                  ReceiveInventoryReservationFailed, ReceivePaymentCaptured,
                  ReceivePaymentFailed, ReceiveInventoryReleased, ReceiveReserveInventory,
                  ReceiveReleaseInventory
    <2> QED
      BY <2>1, <2>2, <2>3 DEF vars
  <1> QED
    BY <1>1, <1>2, TypeCorrect, PTL DEF Spec
=============================================================================
