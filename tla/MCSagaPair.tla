----------------------------- MODULE MCSagaPair -----------------------------
(* Two orders that compete for the one unit of a product. The second is    *)
(* placed by the revenue account, which has no money until the first one   *)
(* was paid.                                                               *)
EXTENDS SagaInvariant

MCOrders == {"o1", "o2"}
MCTotalStock == [p \in {"macbook"} |-> 1]
MCItems == [o \in MCOrders |-> <<[product |-> "macbook", quantity |-> 1]>>]
MCInitialBalance == [c \in {"alice", "system_revenue"} |-> IF c = "alice" THEN 1 ELSE 0]
MCRevenue == "system_revenue"
MCCustomer == [o \in MCOrders |-> IF o = "o1" THEN "alice" ELSE "system_revenue"]
MCAmount == [o \in MCOrders |-> 1]
=============================================================================
