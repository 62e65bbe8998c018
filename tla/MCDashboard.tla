----------------------------- MODULE MCDashboard -----------------------------
(***************************************************************************)
(* What a user of the dashboard sees: the document of an order that        *)
(* competes with another one, and the page's simulator. The two have no    *)
(* state in common, so that the run checks them one at a time: running     *)
(* says which.                                                             *)
(***************************************************************************)
EXTENDS ReadProjection, Visualizer

CONSTANT IPadOrder   \* one of SimOrders

VARIABLE running

mcVars == <<projectionVars, pageVars, running>>

MCOrders == {"o1", "o2"}
MCTotalStock == [p \in {"macbook"} |-> 1]
MCItems == [o \in MCOrders |-> <<[product |-> "macbook", quantity |-> 1]>>]
MCInitialBalance == [c \in {"alice", "system_revenue"} |-> IF c = "alice" THEN 1 ELSE 0]
MCRevenue == "system_revenue"
MCCustomer == [o \in MCOrders |-> "alice"]
MCAmount == [o \in MCOrders |-> 1]

(* Two orders for one macbook, one for an ipad that the inventory service  *)
(* does not have, and the money for one of them.                           *)
MCPurchase == [o \in SimOrders |->
    [product |-> IF o = IPadOrder THEN "ipad" ELSE "macbook", quantity |-> 1, customer |-> "alice"]]
MCStock == [p \in {"macbook", "ipad"} |-> 1]
MCLiveStock == [p \in {"macbook", "monitor"} |-> 1]
MCLiveReserved == [p \in {"macbook", "monitor"} |-> 0]

DashboardInit == ProjectionInit /\ PageInit /\ running \in {"projection", "page"}

DashboardNext ==
    /\ UNCHANGED running
    /\ \/ running = "projection" /\ ProjectionNext /\ UNCHANGED pageVars
       \/ running = "page" /\ PageNext /\ UNCHANGED projectionVars

DashboardSpec == DashboardInit /\ [][DashboardNext]_mcVars
=============================================================================
