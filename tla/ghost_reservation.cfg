SPECIFICATION Spec
CONSTANTS
    Orders <- MCOrders
    TotalStock <- MCTotalStock
    Items <- MCItems
    InitialBalance <- MCInitialBalance
    Revenue <- MCRevenue
    Customer <- MCCustomer
    Amount <- MCAmount
    MaxLost = 1
INVARIANT NoGhostReservation
CHECK_DEADLOCK FALSE
