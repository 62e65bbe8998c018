------------------------ MODULE InventoryTransactions ------------------------
(***************************************************************************)
(* The two handlers of InventoryManagementService, statement by statement, *)
(* run by several consumers at once. Module InventoryService takes each    *)
(* for one atomic step.                                                    *)
(***************************************************************************)
EXTENDS InventoryService, RowLocks

VARIABLE seen     \* the order's reservation rows as findByOrderId read them

inventoryTxVars == <<inventoryVars, lockVars, seen>>

NoneSeen == [s \in {"RESERVED", "RELEASED"} |-> 0]

InventoryCommands == {"ReserveInventoryCommand", "ReleaseInventoryCommand"}

InventoryTxTypeOK ==
    /\ InventoryTypeOK
    /\ LocksTypeOK(InventoryCommands,
                   {"idle", "checked", "locking", "outOfStock", "tombstone"}, Products)
    /\ seen \in [Consumers -> [{"RESERVED", "RELEASED"} -> Nat]]

InventoryTxInit ==
    /\ InventoryInit
    /\ LocksInit
    /\ seen = [c \in Consumers |-> NoneSeen]

Handles(c, t) == job[c] = <<t, Order(c)>>

(* The rows of the tables are left alone. *)
ReadsOnly == UNCHANGED <<inventoryVars, seen>>

(* existsById finds no processed_events row. *)
BeginHandler(c, t, o) ==
    /\ <<t, o, 1>> \notin inventoryProcessed
    /\ Begin(c, t, o, "checked")
    /\ ReadsOnly

-----------------------------------------------------------------------------
(* Lines of a reservation; the rows of a release come in the same order.   *)
Lines(c) ==
    IF Handles(c, "ReserveInventoryCommand") \/ seen[c]["RESERVED"] > 0
    THEN Items[Order(c)] ELSE <<>>

Unlocked(c) == {i \in DOMAIN Lines(c) : Lines(c)[i].product \notin Locked(c)}

(* The product of the next line is locked next. *)
Wants(c) ==
    {Lines(c)[i].product : i \in {j \in Unlocked(c) :
        stage[c] = "locking" /\ \A k \in Unlocked(c) : j <= k}}

(* What the lines of order o ask of product p is available. *)
Available(o, p) ==
    \A i \in DOMAIN Items[o] : Items[o][i].product = p => LineAvailable(o, i)

(* handleReserveInventoryCommand: the tombstone is looked up,              *)
FindNoTombstone(c) ==
    /\ stage[c] = "checked" /\ Handles(c, "ReserveInventoryCommand")
    /\ ~PreCancelled(Order(c))
    /\ GoTo(c, "locking")
    /\ ReadsOnly

(* then each line's product is locked and checked, up to a line that       *)
(* cannot be served.                                                       *)
LockLine(c, p) ==
    /\ Handles(c, "ReserveInventoryCommand")
    /\ p \in Wants(c) /\ p \in Products
    /\ LockRow(c, p, reservedStock[p],
               IF Available(Order(c), p) THEN "locking" ELSE "outOfStock")
    /\ ReadsOnly

MissProduct(c, p) ==
    /\ Handles(c, "ReserveInventoryCommand")
    /\ p \in Wants(c) \ Products
    /\ GoTo(c, "outOfStock")
    /\ ReadsOnly

(* handleReleaseInventoryCommand: the rows are read without a lock,        *)
ReadReservations(c) ==
    /\ stage[c] = "checked" /\ Handles(c, "ReleaseInventoryCommand")
    /\ seen' = [seen EXCEPT ![c] = reservations[Order(c)]]
    /\ GoTo(c, IF HasReservationRows(Order(c)) THEN "locking" ELSE "tombstone")
    /\ UNCHANGED inventoryVars

(* then the product of each row that was read as RESERVED is locked.       *)
LockReserved(c, p) ==
    /\ Handles(c, "ReleaseInventoryCommand")
    /\ p \in Wants(c)
    /\ LockRow(c, p, reservedStock[p], "locking")
    /\ ReadsOnly

-----------------------------------------------------------------------------
(* The stock of p as the transaction has read it. *)
Read(c, p) == IF p \in Locked(c) THEN loaded[c][p] ELSE reservedStock[p]

(* The transaction commits, with its event and its processed_events row.   *)
Commit(c, event) ==
    /\ EmitInventoryEvent(Order(c), event)
    /\ RecordProcessed(job[c][1], Order(c), 1)
    /\ End(c)
    /\ seen' = [seen EXCEPT ![c] = NoneSeen]

CommitPreCancelled(c) ==
    /\ stage[c] = "checked" /\ Handles(c, "ReserveInventoryCommand")
    /\ PreCancelled(Order(c))
    /\ Commit(c, "InventoryReservationFailedEvent")
    /\ UNCHANGED <<reservedStock, reservations, tombstones>>

CommitOutOfStock(c) ==
    /\ stage[c] = "outOfStock"
    /\ Commit(c, "InventoryReservationFailedEvent")
    /\ UNCHANGED <<reservedStock, reservations, tombstones>>

CommitReserved(c) ==
    /\ stage[c] = "locking" /\ Handles(c, "ReserveInventoryCommand")
    /\ Unlocked(c) = {}
    /\ reservedStock' = [p \in Products |-> Read(c, p) + Demand(Order(c), p)]
    /\ MakeReservation(Order(c))
    /\ Commit(c, "InventoryReservedEvent")
    /\ UNCHANGED tombstones

CommitTombstone(c) ==
    /\ stage[c] = "tombstone"
    /\ RecordTombstone(Order(c))
    /\ Commit(c, "InventoryReleasedEvent")

(* Of the rows that were read as RESERVED, those no other transaction has  *)
(* released since.                                                         *)
StillReserved(c) ==
    Minus(seen[c]["RESERVED"], reservations[Order(c)]["RELEASED"] - seen[c]["RELEASED"])

CommitReleased(c) ==
    /\ stage[c] = "locking" /\ Handles(c, "ReleaseInventoryCommand")
    /\ Unlocked(c) = {}
    /\ reservedStock' = [p \in Products |->
         Minus(Read(c, p), seen[c]["RESERVED"] * Demand(Order(c), p))]
    /\ reservations' = [reservations EXCEPT
         ![Order(c)]["RESERVED"] = @ - StillReserved(c),
         ![Order(c)]["RELEASED"] = @ + StillReserved(c)]
    /\ Commit(c, "InventoryReleasedEvent")
    /\ UNCHANGED tombstones

(* The transaction fails: the process stops, or the row of another         *)
(* transaction takes a primary key between the SELECT and the INSERT of    *)
(* save(). The listener gets the command again.                            *)
RollBackCommand(c) ==
    /\ End(c)
    /\ seen' = [seen EXCEPT ![c] = NoneSeen]
    /\ UNCHANGED inventoryVars

AbortDeadlocked(c) ==
    /\ Deadlocked(c, [d \in Consumers |-> Wants(d)])
    /\ RollBackCommand(c)

-----------------------------------------------------------------------------
Lock(c) == \E p \in Wants(c) : LockLine(c, p) \/ LockReserved(c, p)

CommitsCommand(c) ==
    \/ CommitPreCancelled(c) \/ CommitOutOfStock(c) \/ CommitReserved(c)
    \/ CommitTombstone(c) \/ CommitReleased(c)

Step(c) ==
    \/ FindNoTombstone(c) \/ ReadReservations(c)
    \/ \E p \in Wants(c) : MissProduct(c, p)
    \/ CommitsCommand(c) \/ AbortDeadlocked(c)

InventoryTxNext ==
    \E c \in Consumers :
        \/ \E o \in Orders, t \in InventoryCommands : BeginHandler(c, t, o)
        \/ Lock(c) \/ Step(c) \/ RollBackCommand(c)

InventoryTxSpec == InventoryTxInit /\ [][InventoryTxNext]_inventoryTxVars

(* A handler's next statement is executed in the end. Waiting consumers    *)
(* get a row's lock in turn, hence strong fairness of taking one.          *)
InventoryTxFairness ==
    \A c \in Consumers : WF_inventoryTxVars(Step(c)) /\ SF_inventoryTxVars(Lock(c))

-----------------------------------------------------------------------------
(* What the composed saga rests on: unless two consumers were in a handler *)
(* for one order at the same time, a commit does to the tables what the    *)
(* whole handler does in one step, whatever other orders' transactions did *)
(* between its statements.                                                 *)
ReservationsAreAtomic ==
    [][\A c \in Consumers : CommitsCommand(c) /\ Order(c) \notin shared =>
         \/ HandleReserveInventoryCommand(Order(c), 1)
         \/ HandleReleaseInventoryCommand(Order(c), 1)]_inventoryTxVars

(* The counter of a product equals its RESERVED rows, while other orders   *)
(* are reserved and released in between, unless two consumers shared one   *)
(* of its orders: two releases both subtract it.                           *)
StockMatchesUnlessShared ==
    \A p \in Products :
        (\A o \in shared : Demand(o, p) = 0) =>
            reservedStock[p] =
              SumFunction([o \in Orders |-> reservations[o]["RESERVED"] * Demand(o, p)])

(* An order whose release was handled holds no stock, also when its        *)
(* reservation comes later, unless two consumers shared the order.         *)
ReleasedHoldsNothing ==
    \A o \in Orders \ shared :
        <<"ReleaseInventoryCommand", o, 1>> \in inventoryProcessed => ~Held(o)

(* No handler waits for ever: a cycle of lines listed in different orders  *)
(* is broken and its locks are given back.                                 *)
TransactionsEnd == \A c \in Consumers : Busy(c) ~> ~Busy(c)
=============================================================================
