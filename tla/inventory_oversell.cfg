SPECIFICATION Spec
CONSTANTS
    Orders <- MCSplitOrders
    TotalStock <- MCTotalStock
    Items <- MCSplitItems
    InitialBalance <- MCInitialBalance
    Revenue <- MCRevenue
    Customer <- MCCustomer
    Amount <- MCAmount
    Consumers = {c1, c2}
    MaxShared = 1
INVARIANT NoOversell
CHECK_DEADLOCK FALSE
