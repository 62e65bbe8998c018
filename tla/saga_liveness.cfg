SPECIFICATION FairSpec
CONSTANTS
    Orders <- MCOrders
    TotalStock <- MCTotalStock
    Items <- MCItems
    InitialBalance <- MCInitialBalance
    Revenue <- MCRevenue
    Customer <- MCCustomer
    Amount <- MCAmount
    MaxLost = 1
PROPERTIES
    CompletesUnlessLost
    NoPendingForever
CHECK_DEADLOCK FALSE
