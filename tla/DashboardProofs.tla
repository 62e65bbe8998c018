--------------------------- MODULE DashboardProofs ---------------------------
(***************************************************************************)
(* What the dashboard shows, for any orders, catalogue and accounts: the   *)
(* documents of the read model, and the stock and the balances of the      *)
(* page's simulator.                                                       *)
(***************************************************************************)
EXTENDS SagaProofs, ReadProjection, Visualizer

-----------------------------------------------------------------------------
(* The dashboard's documents (ReadProjection). *)

OnlyGrows(outbox, types) ==
    \A o \in Orders, t \in types : outbox[o][t] > 0 => outbox'[o][t] > 0

(* Rows are never withdrawn. *)
LEMMA OutboxesGrow ==
  ASSUME TypeOK, [Next]_vars
  PROVE  /\ OnlyGrows(orderOutbox, CommandTypes)
         /\ OnlyGrows(inventoryOutbox, InventoryEventTypes)
         /\ OnlyGrows(paymentOutbox, PaymentEventTypes)
         /\ \A o \in Orders : announced[o] \subseteq announced'[o]
  <1> USE DEF OnlyGrows
  <1>1. ASSUME NEW q \in Orders,
               \/ OrderStep(CreateOrder(q)) \/ ReceiveInventoryReserved(q)
               \/ ReceiveInventoryReservationFailed(q) \/ ReceivePaymentCaptured(q)
               \/ ReceivePaymentFailed(q) \/ ReceiveInventoryReleased(q)
               \/ OrderStep(CompensateTimedOutOrder(q))
        PROVE  /\ UNCHANGED <<inventoryVars, paymentVars>>
               /\ OnlyGrows(orderOutbox, CommandTypes)
               /\ \A o \in Orders : announced[o] \subseteq announced'[o]
    <2>1. /\ UNCHANGED <<inventoryVars, paymentVars>>
          /\ \/ \E c \in CommandTypes : Command(q, c)
             \/ \E e \in Announcements : Announce(q, e)
             \/ UNCHANGED <<orderOutbox, announced>>
      BY <1>1 DEF OrderStep, CreateOrder, ReceiveInventoryReserved, HandleInventoryReserved,
                  ReceiveInventoryReservationFailed, HandleInventoryReservationFailed,
                  ReceivePaymentCaptured, HandlePaymentCaptured, ReceivePaymentFailed,
                  HandlePaymentFailed, ReceiveInventoryReleased, HandleInventoryReleased,
                  CompensateTimedOutOrder, Compensate, Cancel, CommandTypes, Announcements
    <2>2. ASSUME NEW c \in CommandTypes, Command(q, c)
          PROVE  /\ OnlyGrows(orderOutbox, CommandTypes)
                 /\ \A o \in Orders : announced[o] \subseteq announced'[o]
      <3>1. \A o \in Orders, t \in CommandTypes : orderOutbox[o][t] \in Nat
        BY DEF TypeOK, OrderTypeOK
      <3> QED
        BY <2>2, <3>1 DEF TypeOK, OrderTypeOK, Command
    <2>3. ASSUME NEW e \in Announcements, Announce(q, e)
          PROVE  /\ OnlyGrows(orderOutbox, CommandTypes)
                 /\ \A o \in Orders : announced[o] \subseteq announced'[o]
      BY <2>3 DEF TypeOK, OrderTypeOK, Announce
    <2> QED
      BY <2>1, <2>2, <2>3
  <1>2. ASSUME NEW q \in Orders, ReceiveReserveInventory(q) \/ ReceiveReleaseInventory(q)
        PROVE  UNCHANGED <<orderVars, paymentVars>> /\ OnlyGrows(inventoryOutbox, InventoryEventTypes)
    <2>1. /\ UNCHANGED <<orderVars, paymentVars>>
          /\ \E e \in InventoryEventTypes : EmitInventoryEvent(q, e)
      BY <1>2 DEF ReceiveReserveInventory, ReceiveReleaseInventory,
                  HandleReserveInventoryCommand, HandleReleaseInventoryCommand,
                  AbortPreCancelled, RejectOutOfStock, Reserve, InventoryEventTypes
    <2>2. \A o \in Orders, t \in InventoryEventTypes : inventoryOutbox[o][t] \in Nat
      BY DEF TypeOK, InventoryTypeOK
    <2> QED
      BY <2>1, <2>2 DEF TypeOK, InventoryTypeOK, EmitInventoryEvent
  <1>3. ASSUME NEW q \in Orders, ReceiveInitiatePayment(q)
        PROVE  UNCHANGED <<orderVars, inventoryVars>> /\ OnlyGrows(paymentOutbox, PaymentEventTypes)
    <2>1. /\ UNCHANGED <<orderVars, inventoryVars>>
          /\ \E s \in {"SUCCESS", "FAILED"}, e \in PaymentEventTypes : RecordTransaction(q, s, e)
      BY <1>3 DEF ReceiveInitiatePayment, HandleInitiatePaymentCommand, RecordFailedPayment,
                  PaymentEventTypes
    <2>2. \A o \in Orders, t \in PaymentEventTypes : paymentOutbox[o][t] \in Nat
      BY DEF TypeOK, PaymentTypeOK
    <2> QED
      BY <2>1, <2>2 DEF TypeOK, PaymentTypeOK, RecordTransaction
  <1>4. ASSUME \/ \E q \in Orders : OrderStep(Expire(q)) \/ OrderStep(CompensationFails(q))
               \/ OrderStep(CheckSagaTimeouts) \/ OrderStep(OrderServiceRestarts)
               \/ Lose \/ UNCHANGED vars
        PROVE  UNCHANGED <<orderOutbox, announced, inventoryVars, paymentVars>>
    BY <1>4 DEF OrderStep, Expire, CompensationFails, CheckSagaTimeouts, OrderServiceRestarts,
                Lose, LoseFrom, vars, orderVars
  <1> QED
    BY <1>1, <1>2, <1>3, <1>4 DEF Next, orderVars, inventoryVars, paymentVars

LEMMA WrittenStays ==
  ASSUME TypeOK, [Next]_vars, NEW o \in Orders, NEW t, Written(t, o)
  PROVE  Written(t, o)'
  BY OutboxesGrow DEF Written, OnlyGrows

LEMMA SetsStatusIs ==
  /\ SetsStatus["OrderConfirmedEvent"] = "CONFIRMED"
  /\ DOMAIN SetsStatus = {"ReserveInventoryCommand", "InventoryReservedEvent",
       "InventoryReservationFailedEvent", "PaymentCapturedEvent", "PaymentFailedEvent",
       "InventoryReleasedEvent", "OrderConfirmedEvent", "OrderCancelledEvent"}
  /\ \A t \in DOMAIN SetsStatus :
       /\ SetsStatus[t] = "CONFIRMED" => t = "OrderConfirmedEvent"
       /\ SetsStatus[t] = "CANCELLED" =>
            t \in {"InventoryReservationFailedEvent", "InventoryReleasedEvent",
                   "OrderCancelledEvent"}
  BY DEF SetsStatus

LEMMA SetsPaymentIs ==
  /\ DOMAIN SetsPayment = {"PaymentCapturedEvent", "PaymentFailedEvent"}
  /\ SetsPayment["PaymentCapturedEvent"] = "SUCCESS"
  /\ SetsPayment["PaymentFailedEvent"] = "FAILED"
  BY DEF SetsPayment

(* A document says nothing that no message said: its timeline holds only   *)
(* rows that were written, and each field what one of them set.            *)
Cancelling == {"InventoryReservationFailedEvent", "InventoryReleasedEvent", "OrderCancelledEvent"}

DocumentTypeOK ==
    /\ shown \in [Watched -> OrderStatus \cup {"NONE", "PENDING", "PAYMENT_SUCCESS"}]
    /\ shownPayment \in [Watched -> {"NONE", "SUCCESS", "FAILED"}]
    /\ timeline \in [Watched -> SUBSET EventTypes]

DocumentFollowsTimeline(o) ==
    /\ \A t \in timeline[o] : Written(t, o)
    /\ shownPayment[o] = "SUCCESS" <=> "PaymentCapturedEvent" \in timeline[o]
    /\ shownPayment[o] = "FAILED" <=> "PaymentFailedEvent" \in timeline[o]
    /\ shown[o] = "CONFIRMED" => "OrderConfirmedEvent" \in timeline[o]
    /\ shown[o] = "CANCELLED" => timeline[o] \cap Cancelling # {}

DocumentInv == DocumentTypeOK /\ \A o \in Watched : DocumentFollowsTimeline(o)

LEMMA ProjectionIsSaga == ProjectionSpec => Spec
  <1>1. ProjectionInit => Init
    BY DEF ProjectionInit
  <1>2. [ProjectionNext]_projectionVars => [Next]_vars
    BY DEF ProjectionNext, projectionVars, ProcessEvent
  <1> QED
    BY <1>1, <1>2, PTL DEF ProjectionSpec, Spec

(* What the messages about an order mean together. *)
LEMMA WrittenFacts ==
  ASSUME TypeOK, IInv, NEW o \in Orders
  PROVE  /\ Written("PaymentCapturedEvent", o) <=> Captured(o)
         /\ Written("PaymentFailedEvent", o) <=> ledger[o]["FAILED"] > 0
         /\ ~(Written("PaymentCapturedEvent", o) /\ Written("PaymentFailedEvent", o))
         /\ Written("InventoryReservationFailedEvent", o) =>
              ~Captured(o) /\ status[o] # "CONFIRMED"
         /\ Written("InventoryReleasedEvent", o) /\ ~expired[o] =>
              ~Captured(o) /\ status[o] # "CONFIRMED"
         /\ Written("OrderCancelledEvent", o) /\ ~expired[o] =>
              ~Captured(o) /\ status[o] # "CONFIRMED"
         /\ Written("OrderConfirmedEvent", o) /\ ~expired[o] => status[o] = "CONFIRMED"
  <1>1. SagaInv(o) /\ RowOf(o)
    BY RowTypes DEF IInv
  <1>2. EventFacts(o)
    BY <1>1, EventMeaning
  <1>3. /\ Written("PaymentCapturedEvent", o) <=> ledger[o]["SUCCESS"] > 0
        /\ Written("PaymentFailedEvent", o) <=> ledger[o]["FAILED"] > 0
    <2>1. /\ paymentOutbox[o]["PaymentCapturedEvent"] = ledger[o]["SUCCESS"]
          /\ paymentOutbox[o]["PaymentFailedEvent"] = ledger[o]["FAILED"]
      BY <1>1 DEF SagaInv, PaymentFollowsCommands
    <2> QED
      BY <2>1 DEF Written, PaymentEventTypes, CommandTypes, InventoryEventTypes, Announcements
  <1>4. ledger[o]["SUCCESS"] + ledger[o]["FAILED"] <= 1
    BY SagaFacts
  <1>5. Written("InventoryReservationFailedEvent", o) =>
          ~Captured(o) /\ status[o] # "CONFIRMED"
    <2> SUFFICES ASSUME Written("InventoryReservationFailedEvent", o)
                 PROVE  ~Captured(o) /\ status[o] # "CONFIRMED"
      OBVIOUS
    <2>1. inventoryOutbox[o]["InventoryReservationFailedEvent"] > 0
      BY DEF Written, PaymentEventTypes, CommandTypes, InventoryEventTypes, Announcements
    <2>2. orderOutbox[o]["InitiatePaymentCommand"] = 0
      BY <1>1, <1>2, <2>1 DEF EventFacts, RowOf
    <2>3. ledger[o]["SUCCESS"] + ledger[o]["FAILED"] = 0
      BY <1>1, <2>2 DEF SagaInv, PaymentFollowsCommands, Commanded
    <2>4. status[o] = "CONFIRMED" => ledger[o]["SUCCESS"] = 1
      BY SagaFacts
    <2> QED
      BY <1>1, <2>3, <2>4 DEF Captured, RowOf
  <1>6. Written("InventoryReleasedEvent", o) /\ ~expired[o] =>
          ~Captured(o) /\ status[o] # "CONFIRMED"
    <2> SUFFICES ASSUME Written("InventoryReleasedEvent", o), ~expired[o]
                 PROVE  ~Captured(o) /\ status[o] # "CONFIRMED"
      OBVIOUS
    <2>1. inventoryOutbox[o]["InventoryReleasedEvent"] > 0
      BY DEF Written, PaymentEventTypes, CommandTypes, InventoryEventTypes, Announcements
    <2>2. orderOutbox[o]["ReleaseInventoryCommand"] = 1
      BY <1>1, <1>2, <2>1 DEF EventFacts, RowOf
    <2>3. ledger[o]["FAILED"] = 1
      BY <1>1, <2>2 DEF SagaInv, DeadlineRules, Commanded
    <2>4. status[o] = "CONFIRMED" => ledger[o]["SUCCESS"] = 1
      BY SagaFacts
    <2> QED
      BY <1>1, <1>4, <2>3, <2>4 DEF Captured, RowOf
  <1>7. ASSUME ~expired[o]
        PROVE  /\ Written("OrderCancelledEvent", o) => ~Captured(o) /\ status[o] = "CANCELLED"
               /\ Written("OrderConfirmedEvent", o) => status[o] = "CONFIRMED"
    <2>1. announced[o] = CASE status[o] = "CONFIRMED" -> {"OrderConfirmedEvent"}
                           [] status[o] = "CANCELLED" -> {"OrderCancelledEvent"}
                           [] OTHER -> {}
      BY <1>1, <1>7 DEF SagaInv, AnnouncementsFollowStatus
    <2>2. \A e \in Announcements : Written(e, o) => e \in announced[o]
      BY DEF Written, PaymentEventTypes, CommandTypes, InventoryEventTypes, Announcements
    <2>3. status[o] = "CANCELLED" => ~Captured(o)
      BY <1>7, InvariantImpliesAtomic DEF AtomicBeforeDeadline
    <2> QED
      BY <2>1, <2>2, <2>3 DEF Announcements
  <1> QED
    BY <1>1, <1>3, <1>4, <1>5, <1>6, <1>7 DEF Captured, RowOf

LEMMA DocumentNext ==
  ASSUME TypeOK, IInv, DocumentInv, [ProjectionNext]_projectionVars
  PROVE  DocumentInv'
  <1>1. CASE [Next]_vars /\ UNCHANGED documentVars
    <2>1. UNCHANGED <<shown, shownPayment, timeline>>
      BY <1>1 DEF documentVars
    <2>2. DocumentTypeOK'
      BY <2>1 DEF DocumentInv, DocumentTypeOK
    <2>3. ASSUME NEW o \in Watched PROVE DocumentFollowsTimeline(o)'
      <3>1. DocumentFollowsTimeline(o) /\ o \in Orders
        BY WatchedAssumption DEF DocumentInv
      <3>2. \A t : Written(t, o) => Written(t, o)'
        BY <1>1, <3>1, WrittenStays
      <3> QED
        BY <2>1, <3>1, <3>2 DEF DocumentFollowsTimeline
    <2> QED
      BY <2>2, <2>3 DEF DocumentInv
  <1>2. ASSUME NEW q \in Watched, NEW t \in EventTypes, ProcessEvent(q, t)
        PROVE  DocumentInv'
    <2>1. /\ Written(t, q) /\ UNCHANGED vars
          /\ timeline' = [timeline EXCEPT ![q] = @ \cup {t}]
      BY <1>2 DEF ProcessEvent
    <2>2. /\ \A o \in Watched \ {q} : shown'[o] = shown[o] /\ shownPayment'[o] = shownPayment[o]
          /\ shown' \in [Watched -> OrderStatus \cup {"NONE", "PENDING", "PAYMENT_SUCCESS"}]
          /\ shown'[q] = IF t \in DOMAIN SetsStatus THEN SetsStatus[t]
                         ELSE IF shown[q] = "NONE" THEN "PENDING" ELSE shown[q]
          /\ shownPayment' \in [Watched -> {"NONE", "SUCCESS", "FAILED"}]
          /\ shownPayment'[q] = IF t = "PaymentCapturedEvent" THEN "SUCCESS"
                                ELSE IF t = "PaymentFailedEvent" THEN "FAILED"
                                ELSE shownPayment[q]
      <3>1. /\ shown' = IF t \in DOMAIN SetsStatus THEN [WithDefault(q) EXCEPT ![q] = SetsStatus[t]]
                        ELSE WithDefault(q)
            /\ shownPayment' = IF t \in DOMAIN SetsPayment
                               THEN [shownPayment EXCEPT ![q] = SetsPayment[t]] ELSE shownPayment
        BY <1>2 DEF ProcessEvent, Set
      <3>2. \A e \in DOMAIN SetsStatus : SetsStatus[e] \in OrderStatus \cup {"PAYMENT_SUCCESS"}
        BY DEF SetsStatus, OrderStatus
      <3>3. WithDefault(q) = [shown EXCEPT ![q] = IF shown[q] = "NONE" THEN "PENDING" ELSE shown[q]]
        BY DEF WithDefault
      <3>4. DocumentTypeOK
        BY DEF DocumentInv
      <3> HIDE DEF SetsStatus
      <3> QED
        BY <3>1, <3>2, <3>3, <3>4, SetsPaymentIs DEF DocumentTypeOK
    <2>3. DocumentTypeOK'
      BY <2>1, <2>2 DEF DocumentInv, DocumentTypeOK
    <2>4. ASSUME NEW o \in Watched PROVE DocumentFollowsTimeline(o)'
      <3>1. DocumentFollowsTimeline(o) /\ o \in Orders /\ \A e : Written(e, o)' <=> Written(e, o)
        BY <2>1, WatchedAssumption
           DEF DocumentInv, Written, vars, orderVars, inventoryVars, paymentVars
      <3>2. CASE o # q
        BY <2>1, <2>2, <3>1, <3>2 DEF DocumentFollowsTimeline, DocumentInv, DocumentTypeOK
      <3>3. CASE o = q
        <4>1. timeline'[o] = timeline[o] \cup {t}
          BY <2>1, <3>3 DEF DocumentInv, DocumentTypeOK
        <4>2. \A e \in timeline'[o] : Written(e, o)'
          BY <2>1, <3>1, <3>3, <4>1 DEF DocumentFollowsTimeline
        <4>3. ~("PaymentCapturedEvent" \in timeline'[o] /\ "PaymentFailedEvent" \in timeline'[o])
          BY <3>1, <4>2, WrittenFacts
        <4>4. /\ shownPayment'[o] = "SUCCESS" <=> "PaymentCapturedEvent" \in timeline'[o]
              /\ shownPayment'[o] = "FAILED" <=> "PaymentFailedEvent" \in timeline'[o]
          BY <2>2, <3>1, <3>3, <4>1, <4>3 DEF DocumentFollowsTimeline
        <4>5. /\ shown'[o] = "CONFIRMED" => "OrderConfirmedEvent" \in timeline'[o]
              /\ shown'[o] = "CANCELLED" => timeline'[o] \cap Cancelling # {}
          BY <2>2, <3>1, <3>3, <4>1, SetsStatusIs DEF DocumentFollowsTimeline, Cancelling
        <4> QED
          BY <4>2, <4>4, <4>5 DEF DocumentFollowsTimeline
      <3> QED
        BY <3>2, <3>3
    <2> QED
      BY <2>3, <2>4 DEF DocumentInv
  <1> QED
    BY <1>1, <1>2 DEF ProjectionNext, projectionVars

LEMMA DocumentInit0 == ProjectionInit => DocumentInv
  BY DEF ProjectionInit, DocumentInit, DocumentInv, DocumentTypeOK, DocumentFollowsTimeline

LEMMA DocumentCorrect ==
  ASSUME NonEmptyOrders PROVE ProjectionSpec => [](TypeOK /\ IInv /\ DocumentInv)
  <1>1. ProjectionSpec => [](TypeOK /\ IInv)
    BY ProjectionIsSaga, TypeCorrect, InvariantCorrect, PTL
  <1>2. TypeOK /\ IInv /\ DocumentInv /\ [ProjectionNext]_projectionVars => DocumentInv'
    BY DocumentNext
  <1> QED
    BY <1>1, <1>2, DocumentInit0, PTL DEF ProjectionSpec

(* The dashboard's payment is the ledger's, in whatever order and however  *)
(* often processEvent gets the messages of the three topics.               *)
THEOREM DashboardShowsLedger ==
  ASSUME NonEmptyOrders PROVE ProjectionSpec => []PaymentShownIsLedger
  <1>1. ASSUME TypeOK, IInv, DocumentInv PROVE PaymentShownIsLedger
    <2> SUFFICES ASSUME NEW o \in Watched
                 PROVE  /\ shownPayment[o] = "SUCCESS" => Captured(o)
                        /\ CaughtUp(o) /\ Captured(o) => shownPayment[o] = "SUCCESS"
                        /\ CaughtUp(o) /\ ledger[o]["FAILED"] > 0 => shownPayment[o] = "FAILED"
      BY DEF PaymentShownIsLedger
    <2>1. DocumentFollowsTimeline(o) /\ o \in Orders
      BY <1>1, WatchedAssumption DEF DocumentInv
    <2>2. /\ Written("PaymentCapturedEvent", o) <=> Captured(o)
          /\ Written("PaymentFailedEvent", o) <=> ledger[o]["FAILED"] > 0
      BY <1>1, <2>1, WrittenFacts
    <2>3. {"PaymentCapturedEvent", "PaymentFailedEvent"} \subseteq EventTypes
      BY DEF EventTypes, PaymentEventTypes
    <2> QED
      BY <2>1, <2>2, <2>3 DEF DocumentFollowsTimeline, CaughtUp
  <1> QED
    BY <1>1, DocumentCorrect, PTL

(* Late and repeated messages never make the dashboard contradict the      *)
(* order service before the saga's deadline.                               *)
THEOREM DashboardShowsOutcome ==
  ASSUME NonEmptyOrders PROVE ProjectionSpec => []OutcomeShownIsTrue
  <1>1. ASSUME TypeOK, IInv, DocumentInv PROVE OutcomeShownIsTrue
    <2> SUFFICES ASSUME NEW o \in Watched, ~expired[o]
                 PROVE  /\ shown[o] = "CONFIRMED" => status[o] = "CONFIRMED"
                        /\ shown[o] = "CANCELLED" => status[o] # "CONFIRMED" /\ ~Captured(o)
      BY DEF OutcomeShownIsTrue
    <2>1. DocumentFollowsTimeline(o) /\ o \in Orders
      BY <1>1, WatchedAssumption DEF DocumentInv
    <2>2. ASSUME NEW t \in Cancelling, Written(t, o) PROVE status[o] # "CONFIRMED" /\ ~Captured(o)
      BY <1>1, <2>1, <2>2, WrittenFacts DEF Cancelling
    <2>3. Written("OrderConfirmedEvent", o) => status[o] = "CONFIRMED"
      BY <1>1, <2>1, WrittenFacts
    <2> QED
      BY <2>1, <2>2, <2>3 DEF DocumentFollowsTimeline
  <1> QED
    BY <1>1, DocumentCorrect, PTL

-----------------------------------------------------------------------------
(* The page's simulator (Visualizer). *)

Phases == {"idle", "posting", "posted", "inverted", "ingress", "created", "dispatched",
           "reserved", "commanded", "rollback", "timeout", "ended"}

Number == Nat \cup {NaN}

PageTypeOK ==
    /\ page = [stock |-> page.stock, reserved |-> page.reserved, price |-> page.price,
               balance |-> page.balance, tombstones |-> page.tombstones]
    /\ page.tombstones \subseteq SimOrders
    /\ unrendered \subseteq SimOrders
    /\ phase \in [SimOrders -> Phases]
    /\ DOMAIN shownStatus = SimOrders
    /\ forced \subseteq SimOrders
    /\ raced \in BOOLEAN
    /\ \A p \in DOMAIN page.price : page.price[p] \in Number
    /\ \A p \in DOMAIN refs.price : refs.price[p] \in Number
    /\ total \in [SimOrders -> Number]
    /\ "products" \notin synced =>
         /\ page.stock = Stock /\ refs.stock = Stock
         /\ {page.reserved, refs.reserved} \subseteq [DOMAIN Stock -> Int]
         /\ page.price = Price /\ refs.price = Price
         /\ \A o \in SimOrders : total[o] # NaN
    /\ "accounts" \notin synced =>
         {page.balance, refs.balance} \subseteq [DOMAIN Funds -> Int \cup {NaN}]

(* The status an order is shown with is that of the wait its saga is in;   *)
(* it was forced if it was made by the timeout scenario; a tombstone lets  *)
(* it get no further than to the look at the references, which have it by  *)
(* then.                                                                   *)
FollowsPhase(o) ==
    /\ shownStatus[o] \in
         CASE phase[o] \in {"created", "dispatched"} -> {"INVENTORY_RESERVING"}
           [] phase[o] \in {"reserved", "commanded", "timeout"} -> {"PAYMENT_PENDING"}
           [] phase[o] = "rollback" -> {"COMPENSATING_INVENTORY"}
           [] phase[o] = "ended" -> {"CONFIRMED", "CANCELLED"}
           [] OTHER -> {"NONE"}
    /\ phase[o] = "timeout" => o \in forced
    /\ o \in forced => phase[o] \in {"timeout", "ended"}
    /\ o \in page.tombstones =>
         /\ phase[o] \in {"inverted", "ingress", "created", "dispatched", "ended"}
         /\ shownStatus[o] # "CONFIRMED"
         /\ o \in refs.tombstones \cup unrendered

(* While no two sagas raced, what the one under way will decide by is no   *)
(* better than what the page shows.                                        *)
AloneInv ==
    /\ AloneIsSafe
    /\ ~raced =>
         /\ \A o, q \in SimOrders : Simulated(o) /\ Simulated(q) => o = q
         /\ \A o \in SimOrders \ unrendered :
              Simulated(o) =>
                /\ "products" \notin synced =>
                     \A p \in DOMAIN Stock : Reserves(Holding \ forced, p) <= refs.reserved[p]
                /\ "accounts" \notin synced => refs.balance = page.balance

PageInv ==
    /\ PageTypeOK
    /\ \A o \in SimOrders : FollowsPhase(o)
    /\ PageExplained
    /\ AloneInv

Pieces == [o \in SimOrders |-> Purchase[o].quantity]
Buying(os, p) == {o \in os : Purchase[o].product = p}
Concerns(c) == {o \in SimOrders : c \in {Purchase[o].customer, SystemRevenue}}
Confirmed == {o \in SimOrders : shownStatus[o] = "CONFIRMED"}

LEMMA BuyingFacts ==
  ASSUME NEW os \in SUBSET SimOrders, NEW p
  PROVE  /\ Reserves(os, p) = SumFunctionOnSet(Pieces, Buying(os, p))
         /\ IsFiniteSet(Buying(os, p))
         /\ \A o \in Buying(os, p) : Pieces[o] \in Nat
         /\ Reserves(os, p) \in Nat
  <1>1. Reserves(os, p) = SumFunctionOnSet(Pieces, Buying(os, p))
    BY DEF Reserves, Pieces, Buying
  <1>2. IsFiniteSet(Buying(os, p))
    <2>1. Buying(os, p) \in SUBSET SimOrders
      BY DEF Buying
    <2> QED
      BY <2>1, VisualizerAssumption, FS_Subset
  <1>3. \A o \in Buying(os, p) : Pieces[o] \in Nat
    BY VisualizerAssumption DEF Buying, Pieces
  <1>4. SumFunctionOnSet(Pieces, Buying(os, p)) \in Nat
    <2> DEFINE S == Buying(os, p)
    <2> HIDE DEF S
    <2>1. IsFiniteSet(S) /\ \A o \in S : Pieces[o] \in Nat
      BY <1>2, <1>3 DEF S
    <2>2. SumFunctionOnSet(Pieces, S) \in Nat
      BY <2>1, SumType
    <2> QED
      BY <2>2 DEF S
  <1> QED
    BY <1>1, <1>2, <1>3, <1>4

(* One more order adds its quantity to what is reserved of its product.    *)
LEMMA ReservesAdd ==
  ASSUME NEW os \in SUBSET SimOrders, NEW o \in SimOrders \ os, NEW p
  PROVE  Reserves(os \cup {o}, p)
           = Reserves(os, p) + (IF Purchase[o].product = p THEN Purchase[o].quantity ELSE 0)
  <1> DEFINE more == os \cup {o}
  <1>0. more \in SUBSET SimOrders
    OBVIOUS
  <1>1. /\ Reserves(more, p) = SumFunctionOnSet(Pieces, Buying(more, p))
        /\ IsFiniteSet(Buying(more, p))
        /\ \A q \in Buying(more, p) : Pieces[q] \in Nat
    BY <1>0, BuyingFacts
  <1>2. Reserves(os, p) = SumFunctionOnSet(Pieces, Buying(os, p)) /\ Reserves(os, p) \in Nat
    BY BuyingFacts
  <1>3. CASE Purchase[o].product = p
    <2>1. o \in Buying(more, p) /\ Buying(more, p) \ {o} = Buying(os, p)
      BY <1>3 DEF Buying
    <2>2. \A q \in Buying(more, p) : Pieces[q] \in Int
      BY <1>1
    <2>3. SumFunctionOnSet(Pieces, Buying(more, p)) = Pieces[o] + SumFunctionOnSet(Pieces, Buying(os, p))
      <3> DEFINE S == Buying(more, p)
      <3> HIDE DEF S
      <3>1. IsFiniteSet(S) /\ o \in S /\ \A q \in S : Pieces[q] \in Int
        BY <1>1, <2>1, <2>2 DEF S
      <3>2. SumFunctionOnSet(Pieces, S) = Pieces[o] + SumFunctionOnSet(Pieces, S \ {o})
        BY <3>1, SumRemove
      <3> QED
        BY <2>1, <3>2 DEF S
    <2>4. Pieces[o] = Purchase[o].quantity /\ Purchase[o].quantity \in Nat
      BY VisualizerAssumption DEF Pieces
    <2> QED
      BY <1>1, <1>2, <1>3, <2>3, <2>4
  <1>4. CASE Purchase[o].product # p
    <2>1. Buying(more, p) = Buying(os, p)
      BY <1>4 DEF Buying
    <2> QED
      BY <1>1, <1>2, <1>4, <2>1
  <1> QED
    BY <1>3, <1>4

LEMMA ReservesLess ==
  ASSUME NEW F, NEW p, NEW os \in SUBSET SimOrders
  PROVE  Reserves(os \ F, p) <= Reserves(os, p)
  <1> DEFINE T == {s \in SUBSET SimOrders : ~ (Reserves(s \ F, p) <= Reserves(s, p))}
  <1>1. SUFFICES ASSUME T # {} PROVE FALSE
    OBVIOUS
  <1>2. PICK s \in T : \A u \in T : ~ (u \subseteq s /\ u # s)
    <2>1. T \in SUBSET SUBSET SimOrders
      OBVIOUS
    <2> HIDE DEF T
    <2> QED
      BY <1>1, <2>1, VisualizerAssumption, MinimalSubset
  <1>3. s \in SUBSET SimOrders /\ ~ (Reserves(s \ F, p) <= Reserves(s, p))
    BY <1>2
  <1>4. s \ F \in SUBSET SimOrders /\ Reserves(s, p) \in Nat
    BY <1>3, BuyingFacts
  <1>5. PICK x \in s : x \in F
    <2>1. s \ F # s
      BY <1>3, <1>4
    <2> QED
      BY <2>1
  <1> DEFINE u == s \ {x}
  <1>6. u \in SUBSET SimOrders /\ x \in SimOrders \ u /\ s = u \cup {x} /\ u \ F = s \ F
    BY <1>3, <1>5
  <1>7. Reserves(u \ F, p) <= Reserves(u, p)
    BY <1>2, <1>5, <1>6
  <1> HIDE DEF u
  <1>8. Reserves(u, p) \in Nat /\ Reserves(s \ F, p) \in Nat
    BY <1>4, <1>6, BuyingFacts
  <1>9. Reserves(s, p) = Reserves(u, p) + (IF Purchase[x].product = p THEN Purchase[x].quantity ELSE 0)
    BY <1>6, ReservesAdd
  <1>10. (IF Purchase[x].product = p THEN Purchase[x].quantity ELSE 0) \in Nat
    BY <1>6, VisualizerAssumption
  <1> DEFINE more == IF Purchase[x].product = p THEN Purchase[x].quantity ELSE 0
  <1> HIDE DEF more
  <1>11. Reserves(s, p) = Reserves(u, p) + more /\ more \in Nat
    BY <1>9, <1>10 DEF more
  <1> QED
    BY <1>3, <1>6, <1>7, <1>8, <1>11

(* A saga or a scenario goes on with an order. *)
Moves(o) == Starts(o) \/ SagaStep(o)

(* The customer pays, the revenue account receives. *)
LEMMA ChargeEffect ==
  ASSUME PageTypeOK, NEW o \in SimOrders, Charge(o), "accounts" \notin synced
  PROVE  /\ page'.balance \in [DOMAIN Funds -> Int \cup {NaN}]
         /\ \A c \in DOMAIN Funds :
               page'.balance[c] =
                 IF c = Purchase[o].customer THEN Subtract(page.balance[c], total[o])
                 ELSE IF c = SystemRevenue THEN Add(page.balance[c], total[o])
                 ELSE page.balance[c]
  <1>1. /\ page.balance \in [DOMAIN Funds -> Int \cup {NaN}]
        /\ total[o] \in Number
    BY DEF PageTypeOK
  <1>2. page'.balance = [c \in DOMAIN Funds |->
            IF c = Purchase[o].customer THEN Subtract(page.balance[c], total[o])
            ELSE IF c = SystemRevenue THEN Add(page.balance[c], total[o])
            ELSE page.balance[c]]
    BY <1>1 DEF Charge, PageTypeOK
  <1>3. ASSUME NEW x \in Int \cup {NaN}
        PROVE  Add(x, total[o]) \in Int \cup {NaN} /\ Subtract(x, total[o]) \in Int \cup {NaN}
    BY <1>1 DEF Add, Subtract, Number
  <1> DEFINE B == Int \cup {NaN}
             after(c) == IF c = Purchase[o].customer THEN Subtract(page.balance[c], total[o])
                         ELSE IF c = SystemRevenue THEN Add(page.balance[c], total[o])
                         ELSE page.balance[c]
  <1>4. \A c \in DOMAIN Funds : after(c) \in B
    <2>1. \A c \in DOMAIN Funds : page.balance[c] \in B
      BY <1>1
    <2> QED
      BY <1>3, <2>1
  <1>5. page'.balance = [c \in DOMAIN Funds |-> after(c)]
    BY <1>2
  <1>6. page'.balance \in [DOMAIN Funds -> B] /\ \A c \in DOMAIN Funds : page'.balance[c] = after(c)
    <2> HIDE DEF after, B
    <2> QED
      BY <1>4, <1>5
  <1> QED
    BY <1>6

(* The total of an order that is launched or submitted: a number as long   *)
(* as the products have prices.                                            *)
LEMMA PricedFacts ==
  ASSUME PageTypeOK, NEW o \in SimOrders, Priced(o)
  PROVE  /\ total' \in [SimOrders -> Number]
         /\ \A q \in SimOrders : q # o => total'[q] = total[q]
         /\ "products" \notin synced => \A q \in SimOrders : total'[q] # NaN
  <1>1. PICK p \in Selected(o) :
           total' = [total EXCEPT ![o] = Times(refs.price[p], Purchase[o].quantity)]
    BY DEF Priced
  <1>2. p \in DOMAIN refs.price
    BY DEF Selected
  <1> DEFINE x == refs.price[p]
             n == Purchase[o].quantity
  <1>3. x \in Number /\ n \in Nat /\ ("products" \notin synced => x \in Nat)
    BY <1>2, VisualizerAssumption DEF PageTypeOK
  <1>4. total' = [total EXCEPT ![o] = Times(x, n)]
    BY <1>1
  <1> HIDE DEF x, n
  <1>5. Times(x, n) \in Number /\ (x \in Nat => Times(x, n) # NaN)
    <2>1. CASE x = NaN
      BY <2>1, VisualizerAssumption DEF Times, Number
    <2>2. CASE x \in Nat
      <3>1. x * n \in Nat /\ x # NaN
        BY <1>3, <2>2, VisualizerAssumption
      <3> QED
        BY <3>1, VisualizerAssumption DEF Times, Number
    <2> QED
      BY <1>3, <2>1, <2>2 DEF Number
  <1> QED
    BY <1>3, <1>4, <1>5 DEF PageTypeOK

LEMMA PageStepTypes ==
  ASSUME PageTypeOK, NEW o \in SimOrders, Moves(o)
  PROVE  PageTypeOK'
  <1> USE DEF PageTypeOK, WaitIn, StepFrame, Ends, Phases
  <1>1. CASE Starts(o)
    <2>1. ASSUME NEW k \in Keys, SubmitOrder(o, k) PROVE PageTypeOK'
      BY <2>1, PricedFacts DEF SubmitOrder
    <2>2. ASSUME Launch(o) PROVE PageTypeOK'
      BY <2>2, PricedFacts DEF Launch
    <2>3. CASE PostAnswered(o)
      BY <2>3 DEF PostAnswered
    <2>4. CASE RunChaosInversionGuard(o)
      BY <2>4 DEF RunChaosInversionGuard
    <2>5. CASE RunChaosTimeoutRecovery(o)
      BY <2>5, VisualizerAssumption DEF RunChaosTimeoutRecovery, Take
    <2> QED
      BY <1>1, <2>1, <2>2, <2>3, <2>4, <2>5
         DEF Starts, PostFails, RunChaosHighConcurrency, RunChaosDuplicateReplay, LateReservation
  <1>2. CASE SagaStep(o)
    <2>1. CASE CreateSimulatedOrder(o)
      BY <2>1 DEF CreateSimulatedOrder
    <2>2. CASE Dispatch(o)
      BY <2>2 DEF Dispatch
    <2>3. CASE Refuse(o)
      BY <2>3 DEF Refuse
    <2>4. CASE ReserveStock(o)
      BY <2>4, VisualizerAssumption DEF ReserveStock, Take
    <2>5. CASE Capture(o)
      <3>1. "accounts" \notin synced => page'.balance \in [DOMAIN Funds -> Int \cup {NaN}]
        BY <2>5, ChargeEffect DEF Capture
      <3> QED
        BY <2>5, <3>1 DEF Capture, Charge
    <2>6. CASE FailPayment(o)
      BY <2>6 DEF FailPayment
    <2>7. CASE RollBack(o)
      BY <2>7, VisualizerAssumption DEF RollBack, GiveBack
    <2> QED
      BY <1>2, <2>1, <2>2, <2>3, <2>4, <2>5, <2>6, <2>7 DEF SagaStep
  <1> QED
    BY <1>1, <1>2 DEF Moves

(* A move of one order leaves the others where they are.                   *)
LEMMA OthersStay ==
  ASSUME PageTypeOK, NEW o \in SimOrders, Moves(o), NEW q \in SimOrders, q # o
  PROVE  /\ phase'[q] = phase[q] /\ shownStatus'[q] = shownStatus[q]
         /\ q \in unrendered' <=> q \in unrendered
         /\ q \in forced' <=> q \in forced
         /\ q \in page'.tombstones <=> q \in page.tombstones
         /\ refs' = refs /\ synced' = synced
         /\ o \in unrendered'
  <1> USE DEF PageTypeOK, WaitIn, StepFrame, Ends
  <1>1. CASE Starts(o)
    BY <1>1 DEF Starts, SubmitOrder, PostAnswered, PostFails, RunChaosHighConcurrency,
                RunChaosDuplicateReplay, RunChaosInversionGuard, LateReservation,
                RunChaosTimeoutRecovery, Launch, Take
  <1>2. CASE SagaStep(o)
    BY <1>2 DEF SagaStep, CreateSimulatedOrder, Dispatch, Refuse, ReserveStock, Capture,
                FailPayment, RollBack, Take, GiveBack, Charge
  <1> QED
    BY <1>1, <1>2 DEF Moves

LEMMA PageStepPhases ==
  ASSUME PageTypeOK, \A q \in SimOrders : FollowsPhase(q), NEW o \in SimOrders, Moves(o)
  PROVE  \A q \in SimOrders : FollowsPhase(q)'
  <1>1. ASSUME NEW q \in SimOrders, q # o PROVE FollowsPhase(q)'
    <2>1. FollowsPhase(q)
      OBVIOUS
    <2> QED
      BY <1>1, <2>1, OthersStay DEF FollowsPhase
  <1>2. FollowsPhase(o)'
    <2> USE DEF PageTypeOK, WaitIn, StepFrame, Ends, FollowsPhase, Phases
    <2>1. FollowsPhase(o)
      OBVIOUS
    <2>2. CASE Starts(o)
      <3>1. ASSUME NEW k \in Keys, SubmitOrder(o, k) PROVE FollowsPhase(o)'
        BY <2>1, <3>1 DEF SubmitOrder, New
      <3>2. ASSUME Launch(o), phase[o] \in {"idle", "posting", "inverted"} PROVE FollowsPhase(o)'
        BY <2>1, <3>2 DEF Launch
      <3>3. CASE PostAnswered(o)
        BY <2>1, <3>3 DEF PostAnswered
      <3>4. CASE RunChaosInversionGuard(o)
        BY <2>1, <3>4 DEF RunChaosInversionGuard, New
      <3>5. CASE RunChaosTimeoutRecovery(o)
        BY <2>1, <3>5 DEF RunChaosTimeoutRecovery, New, Take
      <3> QED
        BY <2>2, <3>1, <3>2, <3>3, <3>4, <3>5
           DEF Starts, PostFails, RunChaosHighConcurrency, RunChaosDuplicateReplay,
               LateReservation, New, Awake
    <2>3. CASE SagaStep(o)
      <3>1. CASE CreateSimulatedOrder(o)
        BY <2>1, <3>1 DEF CreateSimulatedOrder, Awake
      <3>2. CASE Dispatch(o)
        BY <2>1, <3>2 DEF Dispatch, Awake
      <3>3. CASE Refuse(o)
        BY <2>1, <3>3 DEF Refuse, Awake
      <3>4. CASE ReserveStock(o)
        BY <2>1, <3>4 DEF ReserveStock, Take, Awake, HasTombstone
      <3>5. CASE Capture(o)
        BY <2>1, <3>5 DEF Capture, Charge, Awake
      <3>6. CASE FailPayment(o)
        BY <2>1, <3>6 DEF FailPayment, Awake
      <3>7. CASE RollBack(o)
        BY <2>1, <3>7 DEF RollBack, GiveBack, Awake
      <3> QED
        BY <2>3, <3>1, <3>2, <3>3, <3>4, <3>5, <3>6, <3>7 DEF SagaStep
    <2> QED
      BY <2>2, <2>3 DEF Moves
  <1> QED
    BY <1>1, <1>2

(* What a move does to the stock and the money on the page: nothing, or    *)
(* one order takes, gives back, or pays.                                   *)
Keeps == Holding' = Holding /\ Confirmed' = Confirmed
         /\ page'.reserved = page.reserved /\ page'.balance = page.balance
         /\ \A q \in Confirmed : total'[q] = total[q]
Takes(o) == o \notin Holding /\ Holding' = Holding \cup {o} /\ Confirmed' = Confirmed
            /\ Take(o) /\ total' = total
Gives(o) == o \in Holding /\ Holding' = Holding \ {o} /\ Confirmed' = Confirmed
            /\ GiveBack(o) /\ total' = total
Pays(o) == Holding' = Holding /\ o \notin Confirmed /\ Confirmed' = Confirmed \cup {o}
           /\ Charge(o) /\ total' = total

LEMMA MoveKinds ==
  ASSUME PageTypeOK, \A q \in SimOrders : FollowsPhase(q), NEW o \in SimOrders, Moves(o)
  PROVE  Keeps \/ Takes(o) \/ Gives(o) \/ Pays(o)
  <1>1. FollowsPhase(o)
    OBVIOUS
  <1> USE DEF PageTypeOK, WaitIn, StepFrame, Ends, Phases, Awake
  <1>2. CASE Starts(o)
    <2>1. ASSUME UNCHANGED shownStatus PROVE Holding' = Holding /\ Confirmed' = Confirmed
      BY <2>1 DEF Holding, Confirmed
    <2>2. ASSUME NEW k \in Keys, SubmitOrder(o, k) PROVE Keeps
      <3>1. o \notin Confirmed
        BY <1>1, <2>2 DEF SubmitOrder, New, FollowsPhase, Confirmed
      <3> QED
        BY <2>1, <2>2, <3>1, PricedFacts DEF SubmitOrder, Keeps, Confirmed
    <2>3. ASSUME Launch(o), phase[o] \in {"idle", "posting", "inverted"} PROVE Keeps
      <3>1. o \notin Confirmed
        BY <1>1, <2>3 DEF FollowsPhase, Confirmed
      <3> QED
        BY <2>1, <2>3, <3>1, PricedFacts DEF Launch, Keeps, Confirmed
    <2>4. CASE PostAnswered(o)
      BY <2>1, <2>4 DEF PostAnswered, Keeps
    <2>5. CASE RunChaosInversionGuard(o)
      BY <2>1, <2>5 DEF RunChaosInversionGuard, Keeps
    <2>6. CASE RunChaosTimeoutRecovery(o)
      <3>1. shownStatus[o] = "NONE"
        BY <1>1, <2>6 DEF RunChaosTimeoutRecovery, New, FollowsPhase
      <3> QED
        BY <2>6, <3>1 DEF RunChaosTimeoutRecovery, Takes, Holding, Confirmed
    <2> QED
      BY <1>2, <2>2, <2>3, <2>4, <2>5, <2>6
         DEF Starts, PostFails, RunChaosHighConcurrency, RunChaosDuplicateReplay, LateReservation,
             New
  <1>3. CASE SagaStep(o)
    <2>1. CASE CreateSimulatedOrder(o)
      <3>1. shownStatus[o] = "NONE"
        BY <1>1, <2>1 DEF CreateSimulatedOrder, FollowsPhase
      <3> QED
        BY <2>1, <3>1 DEF CreateSimulatedOrder, Keeps, Holding, Confirmed
    <2>2. CASE Dispatch(o)
      BY <2>2 DEF Dispatch, Keeps, Holding, Confirmed
    <2>3. CASE Refuse(o)
      <3>1. shownStatus[o] = "INVENTORY_RESERVING"
        BY <1>1, <2>3 DEF Refuse, FollowsPhase
      <3> QED
        BY <2>3, <3>1 DEF Refuse, Keeps, Holding, Confirmed
    <2>4. CASE ReserveStock(o)
      <3>1. shownStatus[o] = "INVENTORY_RESERVING"
        BY <1>1, <2>4 DEF ReserveStock, FollowsPhase
      <3> QED
        BY <2>4, <3>1 DEF ReserveStock, Takes, Holding, Confirmed
    <2>5. CASE Capture(o)
      <3>1. shownStatus[o] = "PAYMENT_PENDING"
        BY <1>1, <2>5 DEF Capture, FollowsPhase
      <3> QED
        BY <2>5, <3>1 DEF Capture, Pays, Holding, Confirmed
    <2>6. CASE FailPayment(o)
      <3>1. shownStatus[o] = "PAYMENT_PENDING"
        BY <1>1, <2>6 DEF FailPayment, FollowsPhase
      <3> QED
        BY <2>6, <3>1 DEF FailPayment, Keeps, Holding, Confirmed
    <2>7. CASE RollBack(o)
      <3>1. shownStatus[o] \in {"PAYMENT_PENDING", "COMPENSATING_INVENTORY"}
        BY <1>1, <2>7 DEF RollBack, FollowsPhase
      <3> QED
        BY <2>7, <3>1 DEF RollBack, Gives, Holding, Confirmed
    <2> QED
      BY <1>3, <2>1, <2>2, <2>3, <2>4, <2>5, <2>6, <2>7 DEF SagaStep
  <1> QED
    BY <1>2, <1>3 DEF Moves

(* The balance of an account that the orders of a set were paid from or to. *)
Explained(c, os, totals) ==
    IF \E o \in os : totals[o] = NaN THEN NaN
    ELSE IF c = SystemRevenue THEN Funds[c] + SumFunctionOnSet(totals, os)
    ELSE Funds[c] - SumFunctionOnSet(totals, os)

(* The three parts of PageExplained. *)
StockExplained == "products" \notin synced => \A p \in DOMAIN Stock : page.reserved[p] = Reserves(Holding, p)
MoneyExplained ==
    "accounts" \notin synced => \A c \in DOMAIN Funds : page.balance[c] = Explained(c, Paying(c), total)
NoTombstoneHolds == page.tombstones \cap Holding = {}

LEMMA ExplainedParts == PageExplained <=> StockExplained /\ MoneyExplained /\ NoTombstoneHolds
  BY DEF PageExplained, StockExplained, MoneyExplained, NoTombstoneHolds, Explained, Paid

LEMMA PhaseExplains ==
  ASSUME PageTypeOK, \A o \in SimOrders : FollowsPhase(o) PROVE NoTombstoneHolds
  <1> SUFFICES ASSUME NEW o \in SimOrders, o \in page.tombstones, o \in Holding PROVE FALSE
    BY DEF NoTombstoneHolds, Holding
  <1>1. FollowsPhase(o)
    OBVIOUS
  <1> QED
    BY <1>1 DEF FollowsPhase, Holding

LEMMA StockStep ==
  ASSUME PageTypeOK, StockExplained, NEW o \in SimOrders, synced' = synced,
         Keeps \/ Takes(o) \/ Gives(o) \/ Pays(o)
  PROVE  StockExplained'
  <1> SUFFICES ASSUME "products" \notin synced, NEW p \in DOMAIN Stock
               PROVE  page'.reserved[p] = Reserves(Holding', p)
    BY DEF StockExplained
  <1> DEFINE pp == Purchase[o].product
             n == Purchase[o].quantity
             more == IF pp = p THEN n ELSE 0
  <1>1. page.reserved[p] = Reserves(Holding, p)
    BY DEF StockExplained
  <1>2. n \in Nat /\ more \in Nat
    BY VisualizerAssumption
  <1>3. /\ Holding \in SUBSET SimOrders /\ Holding \ {o} \in SUBSET SimOrders
        /\ page.reserved \in [DOMAIN Stock -> Int]
        /\ page = [stock |-> page.stock, reserved |-> page.reserved, price |-> page.price,
                   balance |-> page.balance, tombstones |-> page.tombstones]
    BY DEF Holding, PageTypeOK
  <1>4. CASE Keeps
    BY <1>1, <1>4 DEF Keeps
  <1>5. CASE Takes(o)
    <2>1. Holding' = Holding \cup {o} /\ o \in SimOrders \ Holding
      BY <1>5 DEF Takes
    <2>2. Reserves(Holding \cup {o}, p) = Reserves(Holding, p) + more
      BY <1>3, <2>1, ReservesAdd
    <2>3. page'.reserved[p] = page.reserved[p] + more
      BY <1>3, <1>5 DEF Takes, Take
    <2> QED
      BY <1>1, <2>1, <2>2, <2>3
  <1>6. CASE Gives(o)
    <2> DEFINE rest == Holding \ {o}
    <2>1. Holding' = rest /\ Holding = rest \cup {o} /\ o \in SimOrders \ rest
      BY <1>3, <1>6 DEF Gives
    <2>2. rest \in SUBSET SimOrders
      BY <1>3
    <2> HIDE DEF rest
    <2>3. Reserves(Holding, p) = Reserves(rest, p) + more
      BY <2>1, <2>2, ReservesAdd
    <2>4. Reserves(rest, p) \in Nat
      BY <2>2, BuyingFacts
    <2>5. page'.reserved[p] = IF pp # p THEN page.reserved[p]
                              ELSE IF n > page.reserved[p] THEN 0 ELSE page.reserved[p] - n
      BY <1>3, <1>6 DEF Gives, GiveBack
    <2>6. page'.reserved[p] = Reserves(rest, p)
      BY <1>1, <1>2, <2>3, <2>4, <2>5
    <2> QED
      BY <2>1, <2>6
  <1>7. CASE Pays(o)
    BY <1>1, <1>3, <1>7 DEF Pays, Charge
  <1> QED
    BY <1>4, <1>5, <1>6, <1>7

LEMMA PayingIs ==
  ASSUME NEW c
  PROVE  /\ Paying(c) = Confirmed \cap Concerns(c)
         /\ Paying(c) \in SUBSET SimOrders
  BY DEF Paying, Confirmed, Concerns

(* The totals of other orders do not matter, *)
LEMMA ExplainedSame ==
  ASSUME NEW c, NEW os \in SUBSET SimOrders, NEW t, NEW u, \A o \in os : t[o] = u[o]
  PROVE  Explained(c, os, t) = Explained(c, os, u)
  <1>1. IsFiniteSet(os)
    BY VisualizerAssumption, FS_Subset
  <1>2. SumFunctionOnSet(t, os) = SumFunctionOnSet(u, os)
    BY <1>1, SumSame
  <1> QED
    BY <1>2 DEF Explained

(* and one more order is one more payment. *)
LEMMA ExplainedAdd ==
  ASSUME NEW t \in [SimOrders -> Number], NEW os \in SUBSET SimOrders,
         NEW o \in SimOrders \ os, NEW c \in DOMAIN Funds
  PROVE  Explained(c, os \cup {o}, t) =
           IF c = SystemRevenue THEN Add(Explained(c, os, t), t[o])
           ELSE Subtract(Explained(c, os, t), t[o])
  <1> DEFINE more == os \cup {o}
  <1>1. more \in SUBSET SimOrders /\ o \in more /\ more \ {o} = os
    OBVIOUS
  <1>2. CASE \E q \in more : t[q] = NaN
    <2>1. Explained(c, more, t) = NaN
      BY <1>2 DEF Explained
    <2>2. Explained(c, os, t) = NaN \/ t[o] = NaN
      BY <1>2 DEF Explained
    <2> QED
      BY <2>1, <2>2 DEF Add, Subtract
  <1>3. CASE \A q \in more : t[q] # NaN
    <2>1. \A q \in more : t[q] \in Int
      BY <1>1, <1>3 DEF Number
    <2> DEFINE x == SumFunctionOnSet(t, os)
               y == SumFunctionOnSet(t, more)
    <2>2. x \in Int /\ y = t[o] + x
      <3> HIDE DEF more
      <3>1. IsFiniteSet(more) /\ IsFiniteSet(os)
        BY <1>1, VisualizerAssumption, FS_Subset
      <3>2. y = t[o] + SumFunctionOnSet(t, more \ {o})
        BY <1>1, <2>1, <3>1, SumRemove
      <3>3. \A q \in os : t[q] \in Int
        BY <1>1, <2>1
      <3> QED
        BY <1>1, <3>1, <3>2, <3>3, SumInt
    <2>3. /\ Explained(c, more, t) = IF c = SystemRevenue THEN Funds[c] + y ELSE Funds[c] - y
          /\ Explained(c, os, t) = IF c = SystemRevenue THEN Funds[c] + x ELSE Funds[c] - x
      BY <1>3 DEF Explained
    <2>4. Funds[c] \in Int /\ t[o] \in Int /\ NaN \notin Int
      BY <2>1, VisualizerAssumption
    <2> HIDE DEF x, y
    <2>5. Explained(c, os, t) \in Int
      BY <2>2, <2>3, <2>4
    <2>6. /\ Add(Explained(c, os, t), t[o]) = Explained(c, os, t) + t[o]
          /\ Subtract(Explained(c, os, t), t[o]) = Explained(c, os, t) - t[o]
      BY <2>4, <2>5 DEF Add, Subtract
    <2>7. Funds[c] + y = (Funds[c] + x) + t[o] /\ Funds[c] - y = (Funds[c] - x) - t[o]
      BY <2>2, <2>4
    <2> QED
      BY <2>3, <2>6, <2>7
  <1> QED
    BY <1>2, <1>3

LEMMA MoneyStep ==
  ASSUME PageTypeOK, MoneyExplained, NEW o \in SimOrders, synced' = synced,
         Keeps \/ Takes(o) \/ Gives(o) \/ Pays(o)
  PROVE  MoneyExplained'
  <1> SUFFICES ASSUME "accounts" \notin synced, NEW c \in DOMAIN Funds
               PROVE  page'.balance[c] = Explained(c, Paying(c)', total')
    BY DEF MoneyExplained, Explained
  <1>1. page.balance[c] = Explained(c, Paying(c), total)
    BY DEF MoneyExplained
  <1>2. /\ Paying(c) = Confirmed \cap Concerns(c) /\ Paying(c) \in SUBSET SimOrders
        /\ Paying(c)' = Confirmed' \cap Concerns(c)
    BY PayingIs DEF Paying, Confirmed, Concerns
  <1>3. ASSUME Confirmed' = Confirmed, page'.balance = page.balance,
               \A q \in Confirmed : total'[q] = total[q]
        PROVE  page'.balance[c] = Explained(c, Paying(c)', total')
    <2>1. Paying(c)' = Paying(c) /\ \A q \in Paying(c) : total[q] = total'[q]
      BY <1>2, <1>3
    <2>2. Explained(c, Paying(c), total) = Explained(c, Paying(c), total')
      BY <1>2, <2>1, ExplainedSame
    <2> QED
      BY <1>1, <1>3, <2>1, <2>2
  <1>4. CASE Keeps
    BY <1>3, <1>4 DEF Keeps
  <1>5. CASE Takes(o)
    BY <1>3, <1>5 DEF Takes, Take, PageTypeOK
  <1>6. CASE Gives(o)
    BY <1>3, <1>6 DEF Gives, GiveBack, PageTypeOK
  <1>7. CASE Pays(o)
    <2>1. page'.balance[c] = IF c = Purchase[o].customer THEN Subtract(page.balance[c], total[o])
                             ELSE IF c = SystemRevenue THEN Add(page.balance[c], total[o])
                             ELSE page.balance[c]
      BY <1>7, ChargeEffect DEF Pays
    <2>2. Purchase[o].customer # SystemRevenue
      BY VisualizerAssumption
    <2>3. total' = total /\ Confirmed' = Confirmed \cup {o} /\ o \notin Confirmed
      BY <1>7 DEF Pays
    <2>4. CASE o \in Concerns(c)
      <3>1. Paying(c)' = Paying(c) \cup {o} /\ o \in SimOrders \ Paying(c)
        BY <1>2, <2>3, <2>4
      <3>2. total \in [SimOrders -> Number]
        BY DEF PageTypeOK
      <3>3. Explained(c, Paying(c) \cup {o}, total) =
              IF c = SystemRevenue THEN Add(Explained(c, Paying(c), total), total[o])
              ELSE Subtract(Explained(c, Paying(c), total), total[o])
        BY <1>2, <3>1, <3>2, ExplainedAdd
      <3>4. c = Purchase[o].customer \/ c = SystemRevenue
        BY <2>4 DEF Concerns
      <3> QED
        BY <1>1, <2>1, <2>2, <2>3, <3>1, <3>3, <3>4
    <2>5. CASE o \notin Concerns(c)
      <3>1. Paying(c)' = Paying(c)
        BY <1>2, <2>3, <2>5
      <3>2. c # Purchase[o].customer /\ c # SystemRevenue
        BY <2>5 DEF Concerns
      <3> QED
        BY <1>1, <2>1, <2>3, <3>1, <3>2
    <2> QED
      BY <2>4, <2>5
  <1> QED
    BY <1>4, <1>5, <1>6, <1>7

(* The orders that looked before they took what they hold.                 *)
Loose == Holding \ forced

(* What a move does to them: only a simulated saga that looks at the       *)
(* references takes, gives back or pays.                                   *)
Looks(o) ==
    /\ Simulated(o) /\ o \notin unrendered
    /\ \/ Loose' = Loose
       \/ Loose' = Loose \ {o}
       \/ InStock(o) /\ o \notin Loose /\ Loose' = Loose \cup {o}
    /\ \/ page'.balance = page.balance
       \/ HasFunds(o) /\ Charge(o)

LEMMA AloneMoves ==
  ASSUME PageTypeOK, \A q \in SimOrders : FollowsPhase(q), NEW o \in SimOrders, Moves(o)
  PROVE  /\ raced => raced'
         /\ Simulated(o)' /\ ~Simulated(o) /\ ~raced' => \A q \in SimOrders \ {o} : ~Simulated(q)
         /\ Looks(o) \/ (Loose' = Loose /\ page'.balance = page.balance)
  <1>1. FollowsPhase(o)
    OBVIOUS
  <1> USE DEF PageTypeOK, WaitIn, StepFrame, Ends, Phases, Awake
  <1>2. ASSUME UNCHANGED shownStatus, UNCHANGED forced PROVE Loose' = Loose
    BY <1>2 DEF Loose, Holding
  <1>3. CASE Starts(o)
    <2>1. ASSUME NEW k \in Keys, SubmitOrder(o, k)
          PROVE  raced' = raced /\ ~Simulated(o)' /\ Loose' = Loose /\ page' = page
      BY <1>2, <2>1 DEF SubmitOrder, Simulated
    <2>2. ASSUME Launch(o)
          PROVE  /\ raced' = (raced \/ \E q \in SimOrders \ {o} : Simulated(q))
                 /\ Loose' = Loose /\ page' = page
      BY <1>2, <2>2 DEF Launch
    <2>3. CASE PostAnswered(o)
      BY <1>2, <2>3 DEF PostAnswered, Simulated
    <2>4. CASE RunChaosInversionGuard(o)
      BY <1>2, <2>4 DEF RunChaosInversionGuard, Simulated
    <2>5. CASE RunChaosTimeoutRecovery(o)
      <3>1. Holding' \ forced' = Holding \ forced
        <4>1. shownStatus[o] = "NONE"
          BY <1>1, <2>5 DEF RunChaosTimeoutRecovery, New, FollowsPhase
        <4> QED
          BY <2>5, <4>1 DEF RunChaosTimeoutRecovery, Holding
      <3>2. raced' = raced /\ ~Simulated(o)' /\ page'.balance = page.balance
        BY <2>5 DEF RunChaosTimeoutRecovery, Simulated, Take
      <3> QED
        BY <3>1, <3>2 DEF Loose
    <2> QED
      BY <1>3, <2>1, <2>2, <2>3, <2>4, <2>5
         DEF Starts, PostFails, RunChaosHighConcurrency, RunChaosDuplicateReplay, LateReservation
  <1>4. CASE SagaStep(o)
    <2>1. raced' = raced
      BY <1>4 DEF SagaStep, CreateSimulatedOrder, Dispatch, Refuse, ReserveStock, Capture,
                  FailPayment, RollBack
    <2>2. CASE CreateSimulatedOrder(o)
      <3>1. Simulated(o) /\ o \notin unrendered /\ page' = page
        BY <2>2 DEF CreateSimulatedOrder, Simulated
      <3>2. Loose' = Loose
        BY <1>1, <2>2 DEF CreateSimulatedOrder, Loose, Holding, FollowsPhase
      <3> QED
        BY <2>1, <3>1, <3>2
    <2>3. CASE Dispatch(o)
      BY <1>2, <2>1, <2>3 DEF Dispatch, Simulated
    <2>4. CASE Refuse(o)
      <3>1. Simulated(o) /\ o \notin unrendered /\ page' = page
        BY <2>4 DEF Refuse, Simulated
      <3>2. Loose' = Loose
        BY <1>1, <2>4 DEF Refuse, Loose, Holding, FollowsPhase
      <3> QED
        BY <2>1, <3>1, <3>2
    <2>5. CASE ReserveStock(o)
      <3>1. Simulated(o) /\ o \notin unrendered /\ page'.balance = page.balance /\ InStock(o)
        BY <2>5 DEF ReserveStock, Simulated, Take
      <3>2. o \notin Loose /\ Loose' = Loose \cup {o}
        BY <1>1, <2>5 DEF ReserveStock, Loose, Holding, FollowsPhase
      <3> QED
        BY <2>1, <3>1, <3>2 DEF Looks
    <2>6. CASE Capture(o)
      <3>1. Simulated(o) /\ o \notin unrendered /\ Charge(o) /\ HasFunds(o)
        BY <2>6 DEF Capture, Simulated
      <3>2. Loose' = Loose
        BY <1>1, <2>6 DEF Capture, Loose, Holding, FollowsPhase
      <3> QED
        BY <2>1, <3>1, <3>2 DEF Looks
    <2>7. CASE FailPayment(o)
      <3>1. Simulated(o) /\ o \notin unrendered /\ page' = page
        BY <2>7 DEF FailPayment, Simulated
      <3>2. Loose' = Loose
        BY <1>1, <2>7 DEF FailPayment, Loose, Holding, FollowsPhase
      <3> QED
        BY <2>1, <3>1, <3>2
    <2>8. CASE RollBack(o)
      <3>1. page'.balance = page.balance /\ o \notin unrendered /\ ~Simulated(o)'
        BY <2>8 DEF RollBack, GiveBack, Simulated
      <3>2. CASE phase[o] = "rollback"
        <4>1. Simulated(o) /\ Loose' = Loose \ {o}
          BY <1>1, <2>8, <3>2 DEF RollBack, Loose, Holding, FollowsPhase, Simulated
        <4> QED
          BY <2>1, <3>1, <4>1 DEF Looks
      <3>3. CASE phase[o] = "timeout"
        <4>1. Loose' = Loose
          BY <1>1, <2>8, <3>3 DEF RollBack, Loose, Holding, FollowsPhase
        <4> QED
          BY <2>1, <3>1, <4>1
      <3> QED
        BY <2>8, <3>2, <3>3 DEF RollBack
    <2> QED
      BY <1>4, <2>2, <2>3, <2>4, <2>5, <2>6, <2>7, <2>8 DEF SagaStep
  <1> QED
    BY <1>3, <1>4 DEF Moves

LEMMA AloneStep ==
  ASSUME PageInv, NEW o \in SimOrders, Moves(o)
  PROVE  AloneInv'
  <1>1. PageTypeOK /\ AloneInv /\ \A q \in SimOrders : FollowsPhase(q)
    BY DEF PageInv
  <1>2. /\ raced => raced'
        /\ Simulated(o)' /\ ~Simulated(o) /\ ~raced' => \A q \in SimOrders \ {o} : ~Simulated(q)
        /\ Looks(o) \/ (Loose' = Loose /\ page'.balance = page.balance)
    BY <1>1, AloneMoves
  <1>3. refs' = refs /\ synced' = synced /\ o \in unrendered'
    <2>1. CASE Starts(o)
      BY <2>1 DEF Starts, SubmitOrder, PostAnswered, PostFails, RunChaosHighConcurrency,
                  RunChaosDuplicateReplay, RunChaosInversionGuard, LateReservation,
                  RunChaosTimeoutRecovery, Launch, WaitIn
    <2>2. CASE SagaStep(o)
      BY <2>2 DEF SagaStep, CreateSimulatedOrder, Dispatch, Refuse, ReserveStock, Capture,
                  FailPayment, RollBack, Ends, WaitIn
    <2> QED
      BY <2>1, <2>2 DEF Moves
  <1>4. SUFFICES ASSUME ~raced' PROVE AloneInv'
    BY DEF AloneInv, AloneIsSafe
  <1>5. ~raced
    BY <1>2, <1>4
  <1>6. ASSUME NEW q \in SimOrders, Simulated(q)' PROVE Simulated(q) \/ q = o
    BY <1>1, <1>6, OthersStay DEF Simulated
  <1>7. ASSUME NEW q \in SimOrders, NEW r \in SimOrders, Simulated(q)', Simulated(r)' PROVE q = r
    BY <1>1, <1>2, <1>4, <1>5, <1>6, <1>7 DEF AloneInv
  <1>8. ASSUME "products" \notin synced, NEW p \in DOMAIN Stock
        PROVE  /\ Reserves(Loose', p) <= Stock[p]
               /\ Loose' = Loose \/ Looks(o)
    <2>1. Reserves(Loose, p) <= Stock[p]
      BY <1>1, <1>5, <1>8 DEF AloneInv, AloneIsSafe, Loose
    <2>2. Loose \in SUBSET SimOrders /\ Stock[p] \in Nat
      BY VisualizerAssumption DEF Loose, Holding
    <2>3. Reserves(Loose, p) \in Nat
      BY <2>2, BuyingFacts
    <2>4. CASE Loose' = Loose
      BY <2>1, <2>4
    <2>5. CASE Loose' = Loose \ {o}
      <3>1. Reserves(Loose \ {o}, p) <= Reserves(Loose, p)
        BY <2>2, ReservesLess
      <3>2. Loose \ {o} \in SUBSET SimOrders
        BY <2>2
      <3>3. Reserves(Loose \ {o}, p) \in Nat
        BY <3>2, BuyingFacts
      <3> QED
        BY <1>2, <2>1, <2>2, <2>3, <2>5, <3>1, <3>3
    <2>6. CASE Looks(o) /\ InStock(o) /\ o \notin Loose /\ Loose' = Loose \cup {o}
      <3> DEFINE pp == Purchase[o].product
                 n == Purchase[o].quantity
      <3>1. Reserves(Loose \cup {o}, p) = Reserves(Loose, p) + (IF pp = p THEN n ELSE 0)
        BY <2>2, <2>6, ReservesAdd
      <3>2. CASE pp # p
        BY <2>1, <2>3, <2>6, <3>1, <3>2
      <3>3. CASE pp = p
        <4>1. Reserves(Loose, p) <= refs.reserved[p]
          BY <1>1, <1>5, <1>8, <2>6 DEF AloneInv, Looks, Loose
        <4>2. refs.reserved[p] \in Int /\ n \in Nat
          BY <1>1, <1>8, VisualizerAssumption DEF PageTypeOK
        <4>3. Stock[p] - refs.reserved[p] >= n
          BY <1>1, <1>8, <2>6, <3>3 DEF InStock, AvailableStock, PageTypeOK
        <4>4. Reserves(Loose', p) = Reserves(Loose, p) + n
          BY <2>6, <3>1, <3>3
        <4> HIDE DEF n
        <4> QED
          BY <2>2, <2>3, <2>6, <4>1, <4>2, <4>3, <4>4
      <3> QED
        BY <3>2, <3>3
    <2> QED
      BY <1>2, <2>4, <2>5, <2>6 DEF Looks
  <1>9. ASSUME "accounts" \notin synced, NEW c \in DOMAIN Funds
        PROVE  IF page'.balance[c] = NaN THEN "products" \in synced ELSE page'.balance[c] >= 0
    <2>1. IF page.balance[c] = NaN THEN "products" \in synced ELSE page.balance[c] >= 0
      BY <1>1, <1>5, <1>9 DEF AloneInv, AloneIsSafe
    <2>2. CASE page'.balance = page.balance
      BY <2>1, <2>2
    <2>3. CASE Looks(o) /\ HasFunds(o) /\ Charge(o)
      <3> DEFINE who == Purchase[o].customer
                 b == page.balance[c]
                 t == total[o]
      <3>1. page'.balance[c] = IF c = who THEN Subtract(b, t)
                               ELSE IF c = SystemRevenue THEN Add(b, t)
                               ELSE b
        BY <1>1, <1>9, <2>3, ChargeEffect
      <3>2. refs.balance = page.balance
        BY <1>1, <1>5, <1>9, <2>3 DEF AloneInv, Looks
      <3>3. /\ b \in Int \cup {NaN} /\ t \in Number
            /\ t = NaN => "products" \in synced
            /\ page.balance \in [DOMAIN Funds -> Int \cup {NaN}]
        BY <1>1, <1>9 DEF PageTypeOK
      <3>4. c = who => ~Below(b, t)
        BY <1>9, <2>3, <3>2, <3>3, VisualizerAssumption DEF HasFunds
      <3> HIDE DEF who, b, t
      <3>5. CASE b = NaN \/ t = NaN
        <4>1. "products" \in synced
          BY <2>1, <3>3, <3>5 DEF b
        <4>2. page'.balance[c] = NaN \/ page'.balance[c] = b
          BY <3>1, <3>5 DEF Add, Subtract
        <4> QED
          BY <2>1, <4>1, <4>2 DEF b
      <3>6. CASE b # NaN /\ t # NaN
        <4>1. b \in Int /\ t \in Nat /\ b >= 0
          BY <2>1, <3>3, <3>6 DEF Number, b
        <4>2. c = who => b >= t
          BY <3>4, <3>6, <4>1 DEF Below
        <4>3. page'.balance[c] = IF c = who THEN b - t
                                 ELSE IF c = SystemRevenue THEN b + t ELSE b
          BY <3>1, <3>6 DEF Add, Subtract
        <4>4. page'.balance[c] \in Int /\ page'.balance[c] >= 0
          BY <4>1, <4>2, <4>3
        <4> QED
          BY <4>4, VisualizerAssumption
      <3> QED
        BY <3>5, <3>6
    <2> QED
      BY <1>2, <2>2, <2>3 DEF Looks
  <1>10. AloneIsSafe'
    BY <1>3, <1>8, <1>9 DEF AloneIsSafe, Loose
  <1>11. ASSUME NEW q \in SimOrders \ unrendered', Simulated(q)'
         PROVE  /\ Simulated(q) /\ q \notin unrendered
                /\ Loose' = Loose /\ page'.balance = page.balance
    <2>1. q # o
      BY <1>3
    <2>2. Simulated(q) /\ q \notin unrendered
      BY <1>1, <1>6, <1>11, <2>1, OthersStay
    <2>3. ~Simulated(o)
      BY <1>1, <1>5, <2>1, <2>2 DEF AloneInv
    <2> QED
      BY <1>2, <2>2, <2>3 DEF Looks
  <1>12. ASSUME NEW q \in SimOrders \ unrendered', Simulated(q)'
         PROVE  /\ "products" \notin synced' =>
                     \A p \in DOMAIN Stock : Reserves(Loose', p) <= refs'.reserved[p]
                /\ "accounts" \notin synced' => refs'.balance = page'.balance
    BY <1>1, <1>3, <1>5, <1>11, <1>12 DEF AloneInv, Loose
  <1> QED
    BY <1>7, <1>10, <1>12 DEF AloneInv, Loose

LEMMA NothingReserved ==
  ASSUME NEW p PROVE Reserves({}, p) = 0
  <1>1. {} \in SUBSET SimOrders /\ Buying({}, p) = {}
    BY DEF Buying
  <1>2. Reserves({}, p) = SumFunctionOnSet(Pieces, {})
    BY <1>1, BuyingFacts
  <1>3. IsFiniteSet({}) /\ \A x \in {} : Pieces[x] = 0
    BY FS_EmptySet
  <1> QED
    BY <1>2, <1>3, SumZero

LEMMA PageInitInv == PageInit => PageInv
  <1> SUFFICES ASSUME PageInit PROVE PageInv
    OBVIOUS
  <1> USE DEF PageInit
  <1>1. PageTypeOK
    <2>1. Funds \in [DOMAIN Funds -> Int \cup {NaN}] /\ \A p \in DOMAIN Price : Price[p] \in Number
      BY VisualizerAssumption DEF Number
    <2>2. /\ page.balance = Funds /\ page.price = Price /\ page.stock = Stock
          /\ page.reserved \in [DOMAIN Stock -> Int] /\ page.tombstones = {}
      OBVIOUS
    <2>3. page = [stock |-> page.stock, reserved |-> page.reserved, price |-> page.price,
                  balance |-> page.balance, tombstones |-> page.tombstones]
      OBVIOUS
    <2>4. total \in [SimOrders -> Number] /\ \A o \in SimOrders : total[o] # NaN
      BY VisualizerAssumption DEF Number
    <2> QED
      BY <2>1, <2>2, <2>3, <2>4 DEF PageTypeOK, Phases
  <1>2. \A o \in SimOrders : FollowsPhase(o)
    BY DEF FollowsPhase
  <1>3. Holding = {} /\ Confirmed = {}
    BY DEF Holding, Confirmed
  <1>4. StockExplained
    BY <1>3, NothingReserved DEF StockExplained
  <1>5. MoneyExplained
    <2> SUFFICES ASSUME NEW c \in DOMAIN Funds
                 PROVE  page.balance[c] = Explained(c, Paying(c), total)
      BY DEF MoneyExplained
    <2>1. Paying(c) = {}
      BY <1>3, PayingIs
    <2>2. SumFunctionOnSet(total, {}) = 0
      <3>1. IsFiniteSet({}) /\ \A x \in {} : total[x] = 0
        BY FS_EmptySet
      <3> QED
        BY <3>1, SumZero
    <2> QED
      BY <2>1, <2>2, VisualizerAssumption DEF Explained
  <1>6. PageExplained
    BY <1>1, <1>2, <1>4, <1>5, PhaseExplains, ExplainedParts
  <1>7. AloneInv
    <2>1. Holding \ forced = {}
      BY <1>3
    <2>2. \A p \in DOMAIN Stock : Reserves(Holding \ forced, p) <= Stock[p]
      <3> SUFFICES ASSUME NEW p \in DOMAIN Stock PROVE Reserves(Holding \ forced, p) <= Stock[p]
        OBVIOUS
      <3>1. Stock[p] \in Nat
        BY VisualizerAssumption
      <3>2. Reserves(Holding \ forced, p) = 0
        BY <2>1, NothingReserved
      <3> QED
        BY <3>1, <3>2
    <2>3. \A c \in DOMAIN Funds : page.balance[c] # NaN /\ page.balance[c] >= 0
      BY VisualizerAssumption
    <2>4. \A o \in SimOrders : ~Simulated(o)
      BY DEF Simulated
    <2> QED
      BY <2>2, <2>3, <2>4 DEF AloneInv, AloneIsSafe
  <1> QED
    BY <1>1, <1>2, <1>6, <1>7 DEF PageInv

LEMMA RenderInv == ASSUME PageInv, Render PROVE PageInv'
  <1> USE DEF Render
  <1>1. PageTypeOK'
    BY DEF PageInv, PageTypeOK
  <1>2. \A o \in SimOrders : FollowsPhase(o)'
    <2> SUFFICES ASSUME NEW o \in SimOrders PROVE FollowsPhase(o)'
      OBVIOUS
    <2>1. FollowsPhase(o)
      BY DEF PageInv
    <2> QED
      BY <2>1 DEF FollowsPhase
  <1>3. PageExplained'
    BY DEF PageInv, PageExplained, Holding, Reserves, Paying, Paid
  <1>4. AloneInv'
    <2>1. Holding' = Holding
      BY DEF Holding
    <2>2. AloneIsSafe'
      BY <2>1 DEF PageInv, AloneInv, AloneIsSafe
    <2>3. ~raced' => \A o, q \in SimOrders : Simulated(o)' /\ Simulated(q)' => o = q
      BY DEF PageInv, AloneInv, Simulated
    <2>4. ASSUME "products" \notin synced', NEW p \in DOMAIN Stock
          PROVE  Reserves(Holding \ forced, p) <= refs'.reserved[p]
      <3>1. Holding \in SUBSET SimOrders
        BY DEF Holding
      <3>2. Reserves(Holding \ forced, p) <= Reserves(Holding, p)
        BY <3>1, ReservesLess
      <3> QED
        BY <2>4, <3>2 DEF PageInv, PageExplained
    <2>5. forced' = forced /\ refs'.balance = page'.balance
      OBVIOUS
    <2> QED
      BY <2>1, <2>2, <2>3, <2>4, <2>5 DEF AloneInv
  <1> QED
    BY <1>1, <1>2, <1>3, <1>4 DEF PageInv

(* A list that a service answered is no longer explained by the orders.    *)
LEMMA SyncInv == ASSUME PageInv, SyncProducts \/ SyncAccounts PROVE PageInv'
  <1>1. PageTypeOK /\ PageExplained /\ AloneInv
    BY DEF PageInv
  <1>2. /\ UNCHANGED <<refs, total, unrendered, phase, shownStatus, usedKeys, forced, raced>>
        /\ synced \subseteq synced' /\ page'.tombstones = page.tombstones
        /\ page' = [stock |-> page'.stock, reserved |-> page'.reserved, price |-> page'.price,
                    balance |-> page'.balance, tombstones |-> page'.tombstones]
        /\ "products" \notin synced' =>
             page'.stock = page.stock /\ page'.reserved = page.reserved /\ page'.price = page.price
        /\ "accounts" \notin synced' => page'.balance = page.balance
    BY <1>1 DEF SyncProducts, SyncAccounts, PageTypeOK
  <1>3. PageTypeOK'
    <2>1. \A p \in DOMAIN page'.price : page'.price[p] \in Number
      <3>1. CASE SyncProducts
        <4>1. page'.price = [p \in DOMAIN LiveStock |-> NaN]
          BY <1>1, <3>1 DEF SyncProducts, PageTypeOK
        <4> QED
          BY <4>1 DEF Number
      <3>2. CASE SyncAccounts
        <4>1. page'.price = page.price
          BY <1>1, <3>2 DEF SyncAccounts, PageTypeOK
        <4> QED
          BY <1>1, <4>1 DEF PageTypeOK
      <3> QED
        BY <3>1, <3>2
    <2> QED
      BY <1>1, <1>2, <2>1 DEF PageTypeOK
  <1>4. \A o \in SimOrders : FollowsPhase(o)'
    <2> SUFFICES ASSUME NEW o \in SimOrders PROVE FollowsPhase(o)'
      OBVIOUS
    <2>1. FollowsPhase(o)
      BY DEF PageInv
    <2> QED
      BY <1>2, <2>1 DEF FollowsPhase
  <1>5. Holding' = Holding /\ \A c : Paying(c)' = Paying(c) /\ Paid(c)' = Paid(c)
    BY <1>2 DEF Holding, Paying, Paid
  <1>6. PageExplained'
    BY <1>1, <1>2, <1>5 DEF PageExplained
  <1>7. AloneInv'
    BY <1>1, <1>2, <1>5 DEF AloneInv, AloneIsSafe, Simulated
  <1> QED
    BY <1>3, <1>4, <1>6, <1>7 DEF PageInv

LEMMA PageNextInv == PageInv /\ [PageNext]_pageVars => PageInv'
  <1> SUFFICES ASSUME PageInv, [PageNext]_pageVars PROVE PageInv'
    OBVIOUS
  <1>1. ASSUME NEW o \in SimOrders, Moves(o) PROVE PageInv'
    <2>1. PageTypeOK /\ PageExplained /\ \A q \in SimOrders : FollowsPhase(q)
      BY DEF PageInv
    <2>2. PageTypeOK' /\ \A q \in SimOrders : FollowsPhase(q)'
      BY <1>1, <2>1, PageStepTypes, PageStepPhases
    <2>3. Keeps \/ Takes(o) \/ Gives(o) \/ Pays(o)
      BY <1>1, <2>1, MoveKinds
    <2>4. synced' = synced
      BY <1>1 DEF Moves, Starts, SubmitOrder, PostAnswered, PostFails, RunChaosHighConcurrency,
                  RunChaosDuplicateReplay, RunChaosInversionGuard, LateReservation,
                  RunChaosTimeoutRecovery, Launch, WaitIn, SagaStep, CreateSimulatedOrder,
                  Dispatch, Refuse, ReserveStock, Capture, FailPayment, RollBack, Ends
    <2>5. StockExplained' /\ MoneyExplained'
      BY <2>1, <2>3, <2>4, ExplainedParts, StockStep, MoneyStep
    <2>6. NoTombstoneHolds'
      <3>1. page'.tombstones \cap Holding' = {}
        <4> SUFFICES ASSUME NEW q \in SimOrders, q \in page'.tombstones, q \in Holding' PROVE FALSE
          BY DEF Holding
        <4>1. FollowsPhase(q)'
          BY <2>2
        <4> QED
          BY <4>1 DEF FollowsPhase, Holding
      <3> QED
        BY <3>1 DEF NoTombstoneHolds
    <2>7. PageExplained'
      BY <2>5, <2>6 DEF PageExplained, StockExplained, MoneyExplained, NoTombstoneHolds,
                        Explained, Paid
    <2> QED
      BY <1>1, <2>2, <2>7, AloneStep DEF PageInv
  <1>2. CASE UNCHANGED pageVars
    <2> USE DEF pageVars
    <2>1. PageTypeOK'
      BY <1>2 DEF PageInv, PageTypeOK
    <2>2. \A o \in SimOrders : FollowsPhase(o)'
      <3> SUFFICES ASSUME NEW o \in SimOrders PROVE FollowsPhase(o)'
        OBVIOUS
      <3>1. FollowsPhase(o)
        BY DEF PageInv
      <3> QED
        BY <1>2, <3>1 DEF FollowsPhase
    <2>3. PageExplained'
      BY <1>2 DEF PageInv, PageExplained, Holding, Paying, Paid
    <2>4. AloneInv'
      BY <1>2 DEF PageInv, AloneInv, AloneIsSafe, Holding, Simulated
    <2> QED
      BY <2>1, <2>2, <2>3, <2>4 DEF PageInv
  <1> QED
    BY <1>1, <1>2, RenderInv, SyncInv DEF PageNext, Moves

LEMMA PageInvCorrect == PageSpec => []PageInv
  BY PageInitInv, PageNextInv, PTL DEF PageSpec

(* However many simulated sagas race with references that are out of date, *)
(* until a sync overwrites them the stock and the balances on the page are *)
(* those of the orders with the status that is shown, where one without a  *)
(* price makes its balances NaN; and an order with a tombstone holds       *)
(* nothing (page.tsx:221-410, 490-577).                                    *)
THEOREM PageIsExplained == PageSpec => []PageExplained
  <1>1. PageInv => PageExplained
    BY DEF PageInv
  <1> QED
    BY <1>1, PageInvCorrect, PTL

(* As long as no two of them are under way at once, simulated sagas        *)
(* promise no more stock than there is and overdraw no account that still  *)
(* has a number for a balance, although they decide by references; and a   *)
(* balance becomes NaN only after a sync of the products has left the      *)
(* orders without a price (page.tsx:82-86, 188, 230-231, 298-302,          *)
(* 341-344).                                                               *)
THEOREM SagasAloneAreSafe == PageSpec => []AloneIsSafe
  <1>1. PageInv => AloneIsSafe
    BY DEF PageInv, AloneInv
  <1> QED
    BY <1>1, PageInvCorrect, PTL
=============================================================================
