SPECIFICATION DashboardSpec
CONSTANTS
    Orders <- MCOrders
    TotalStock <- MCTotalStock
    Items <- MCItems
    InitialBalance <- MCInitialBalance
    Revenue <- MCRevenue
    Customer <- MCCustomer
    Amount <- MCAmount
    MaxLost = 0
    Watched = {"o1"}
    SimOrders = {s1, s2, s3}
    Purchase <- MCPurchase
    IPadOrder = s3
    Stock <- MCStock
    Price <- MCStock
    Funds <- MCInitialBalance
    LiveStock <- MCLiveStock
    LiveReserved <- MCLiveReserved
    LiveBalance <- MCInitialBalance
    Keys = {k1}
    NaN = NaN
INVARIANTS
    PaymentShownIsLedger
    OutcomeShownIsTrue
    PageExplained
    AloneIsSafe
CHECK_DEADLOCK FALSE
