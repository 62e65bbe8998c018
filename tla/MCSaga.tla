------------------------------- MODULE MCSaga -------------------------------
(* Three orders that compete for two units of stock and for money: alice   *)
(* can pay for one of her two, and the third is placed by the revenue      *)
(* account, which can pay for it only after one of alice's was paid.       *)
EXTENDS SagaInvariant

MCOrders == {"o1", "o2", "o3"}
MCTotalStock == [p \in {"macbook"} |-> 2]
MCItems == [o \in MCOrders |-> <<[product |-> "macbook", quantity |-> 1]>>]
MCInitialBalance == [c \in {"alice", "system_revenue"} |-> IF c = "alice" THEN 1 ELSE 0]
MCRevenue == "system_revenue"
MCCustomer == [o \in MCOrders |-> IF o = "o3" THEN "system_revenue" ELSE "alice"]
MCAmount == [o \in MCOrders |-> 1]
=============================================================================
