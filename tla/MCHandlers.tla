----------------------------- MODULE MCHandlers -----------------------------
(***************************************************************************)
(* The handlers of the two Java services with two consumers. The services  *)
(* share neither a database nor a row, so that the run checks them one at  *)
(* a time: running says which, and the other stays in its initial state.   *)
(***************************************************************************)
EXTENDS InventoryTransactions, PaymentTransactions

VARIABLE running

mcVars == <<inventoryTxVars, paymentTxVars, running>>

MCOrders == {"o1", "o2", "o3"}
MCTotalStock == [p \in {"macbook", "iphone"} |-> IF p = "macbook" THEN 2 ELSE 3]

Line(p, q) == [product |-> p, quantity |-> q]

(* Two orders list the same products in opposite orders and compete for    *)
(* the iphones; the third names a product the catalogue does not have.     *)
MCItems == [o \in MCOrders |->
    CASE o = "o1" -> <<Line("macbook", 1), Line("iphone", 2)>>
      [] o = "o2" -> <<Line("iphone", 2), Line("macbook", 1)>>
      [] o = "o3" -> <<Line("ghost", 1)>>]

(* The same product on two lines, which create-order.dto.ts accepts.       *)
MCSplitOrders == {"o1", "o2"}
MCSplitItems == [o \in MCSplitOrders |-> <<Line("macbook", 1), Line("macbook", 2)>>]

(* One customer, who can pay for one of two orders; the revenue account is *)
(* a customer too.                                                         *)
MCInitialBalance == [c \in {"alice", "system_revenue"} |-> IF c = "alice" THEN 1 ELSE 0]
MCRevenue == "system_revenue"
MCCustomer == [o \in Orders |-> IF o = "o3" THEN "system_revenue" ELSE "alice"]
MCAmount == [o \in Orders |-> 1]

Init == InventoryTxInit /\ PaymentInit /\ running \in {"inventory", "payment"}

Next ==
    /\ UNCHANGED running
    /\ \/ running = "inventory" /\ InventoryTxNext /\ UNCHANGED paymentVars
       \/ running = "payment" /\ PaymentTxNext /\ UNCHANGED <<inventoryVars, seen>>

Spec == Init /\ [][Next]_mcVars /\ InventoryTxFairness /\ PaymentTxFairness
=============================================================================
