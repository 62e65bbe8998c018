-------------------------- MODULE InventoryService --------------------------
(***************************************************************************)
(* InventoryManagementService of services/inventory-service: the products, *)
(* reservations, saga_tombstones and processed_events tables, and the two  *)
(* command handlers. A handler is one @Transactional method that locks the *)
(* product rows it changes, so it is one atomic step here; an exception    *)
(* rolls it back, which is a stutter.                                      *)
(***************************************************************************)
EXTENDS Integers, Sequences, Functions, OrderIds

CONSTANTS
    TotalStock,     \* total_stock of every product of the catalogue
    Items           \* the lines of each order, [product, quantity], in order

Products == DOMAIN TotalStock

ASSUME TotalStockAssumption == TotalStock \in [Products -> Nat]

(* An order has finitely many lines. One may name a product the catalogue  *)
(* does not have; its quantity is at least 1 (create-order.dto.ts).        *)
ASSUME ItemsAssumption ==
    \A o \in Orders :
        /\ IsFiniteSet(DOMAIN Items[o])
        /\ \A i \in DOMAIN Items[o] : Items[o][i].quantity \in Nat \ {0}

InventoryEventTypes == {"InventoryReservedEvent",
                        "InventoryReservationFailedEvent",
                        "InventoryReleasedEvent"}

VARIABLES
    reservedStock,        \* products.reserved_stock
    reservations,         \* reservations made for an order, by status
    tombstones,           \* orders with a saga_tombstones row
    inventoryProcessed,   \* processed_events: ids of the commands handled
    inventoryOutbox       \* number of event rows written, by order and type

inventoryVars == <<reservedStock, reservations, tombstones,
                   inventoryProcessed, inventoryOutbox>>

InventoryTypeOK ==
    /\ reservedStock \in [Products -> Nat]
    /\ reservations \in [Orders -> [{"RESERVED", "RELEASED"} -> Nat]]
    /\ tombstones \in SUBSET Orders
    /\ inventoryProcessed \in
          SUBSET ({"ReserveInventoryCommand", "ReleaseInventoryCommand"} \X Orders \X Nat)
    /\ inventoryOutbox \in [Orders -> [InventoryEventTypes -> Nat]]

InventoryInit ==
    /\ reservedStock = [p \in Products |-> 0]
    /\ reservations = [o \in Orders |-> [s \in {"RESERVED", "RELEASED"} |-> 0]]
    /\ tombstones = {}
    /\ inventoryProcessed = {}
    /\ inventoryOutbox = [o \in Orders |-> [t \in InventoryEventTypes |-> 0]]

(* What an order asks of a product, over all the lines that name it. *)
Demand(o, p) ==
    SumFunctionOnSet([i \in DOMAIN Items[o] |-> Items[o][i].quantity],
                     {i \in DOMAIN Items[o] : Items[o][i].product = p})

-----------------------------------------------------------------------------

(* Mutant of RecordProcessed. *)
BugForgetProcessed(t, o, n) == UNCHANGED inventoryProcessed

RecordProcessed(t, o, n) ==
    inventoryProcessed' = inventoryProcessed \cup {<<t, o, n>>}

EmitInventoryEvent(o, t) ==
    inventoryOutbox' = [inventoryOutbox EXCEPT ![o][t] = @ + 1]

(* Mutant of LineAvailable. *)
BugLineAvailable(o, i) == Items[o][i].product \in Products

(* The availability check of one line: it does not see the other lines. *)
LineAvailable(o, i) ==
    LET p == Items[o][i].product
    IN  /\ p \in Products
        /\ TotalStock[p] - reservedStock[p] >= Items[o][i].quantity

AllAvailable(o) == \A i \in DOMAIN Items[o] : LineAvailable(o, i)

(* The order was compensated before its reservation arrived: PRE_CANCELLED. *)
AbortPreCancelled(o) ==
    /\ EmitInventoryEvent(o, "InventoryReservationFailedEvent")
    /\ UNCHANGED <<reservedStock, reservations, tombstones>>

(* Mutant of RejectOutOfStock. *)
BugRejectReportsReserved(o) ==
    /\ EmitInventoryEvent(o, "InventoryReservedEvent")
    /\ UNCHANGED <<reservedStock, reservations, tombstones>>

RejectOutOfStock(o) ==
    /\ EmitInventoryEvent(o, "InventoryReservationFailedEvent")
    /\ UNCHANGED <<reservedStock, reservations, tombstones>>

(* One row per line: an order without lines gets none. *)
MakeReservation(o) ==
    IF Items[o] = <<>> THEN UNCHANGED reservations
    ELSE reservations' = [reservations EXCEPT ![o]["RESERVED"] = @ + 1]

Reserve(o) ==
    /\ reservedStock' = [p \in Products |-> reservedStock[p] + Demand(o, p)]
    /\ MakeReservation(o)
    /\ EmitInventoryEvent(o, "InventoryReservedEvent")
    /\ UNCHANGED tombstones

(* Mutant of PreCancelled. *)
BugIgnoreTombstone(o) == FALSE

PreCancelled(o) == o \in tombstones

(* handleReserveInventoryCommand, for the n-th such command of order o. *)
HandleReserveInventoryCommand(o, n) ==
    /\ <<"ReserveInventoryCommand", o, n>> \notin inventoryProcessed
    /\ \/ PreCancelled(o) /\ AbortPreCancelled(o)
       \/ ~PreCancelled(o) /\ ~AllAvailable(o) /\ RejectOutOfStock(o)
       \/ ~PreCancelled(o) /\ AllAvailable(o) /\ Reserve(o)
    /\ RecordProcessed("ReserveInventoryCommand", o, n)

-----------------------------------------------------------------------------

(* Mutant of HasReservationRows. *)
BugLooksForReleasedRows(o) == reservations[o]["RELEASED"] > 0

(* findByOrderId: the order's rows, whatever their status. *)
HasReservationRows(o) == reservations[o]["RESERVED"] + reservations[o]["RELEASED"] > 0

RecordTombstone(o) ==
    /\ tombstones' = tombstones \cup {o}
    /\ UNCHANGED <<reservedStock, reservations>>

(* Math.max(0, reservedStock - quantity) *)
Minus(stock, quantity) == IF quantity > stock THEN 0 ELSE stock - quantity

ReturnStock(o) ==
    /\ reservedStock' =
         [p \in Products |->
            Minus(reservedStock[p], reservations[o]["RESERVED"] * Demand(o, p))]
    /\ reservations' =
         [reservations EXCEPT ![o] = [s \in {"RESERVED", "RELEASED"} |->
            IF s = "RESERVED" THEN 0 ELSE @["RESERVED"] + @["RELEASED"]]]
    /\ UNCHANGED tombstones

(* handleReleaseInventoryCommand, for the n-th such command of order o. *)
HandleReleaseInventoryCommand(o, n) ==
    /\ <<"ReleaseInventoryCommand", o, n>> \notin inventoryProcessed
    /\ \/ ~HasReservationRows(o) /\ RecordTombstone(o)
       \/ HasReservationRows(o) /\ ReturnStock(o)
    /\ EmitInventoryEvent(o, "InventoryReleasedEvent")
    /\ RecordProcessed("ReleaseInventoryCommand", o, n)

-----------------------------------------------------------------------------
Held(o) == reservations[o]["RESERVED"] > 0

(* No two lines of an order name the same product. *)
OneLinePerProduct ==
    \A o \in Orders : \A i, j \in DOMAIN Items[o] :
        Items[o][i].product = Items[o][j].product => i = j

(* No product is promised beyond its stock, although each line is checked  *)
(* on its own (InventoryManagementService.java:63-83).                     *)
NoOversell == \A p \in Products : reservedStock[p] <= TotalStock[p]
=============================================================================
