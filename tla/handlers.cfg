SPECIFICATION Spec
CONSTANTS
    Orders <- MCOrders
    TotalStock <- MCTotalStock
    Items <- MCItems
    InitialBalance <- MCInitialBalance
    Revenue <- MCRevenue
    Customer <- MCCustomer
    Amount <- MCAmount
    Consumers = {c1, c2}
    MaxShared = 1
INVARIANTS
    NoOversell
    StockMatchesUnlessShared
    ReleasedHoldsNothing
    NoOverdraft
    LedgerExplainsBalances
    OneChargeUnlessShared
    NoLockCycle
PROPERTIES
    ReservationsAreAtomic
    PaymentsAreAtomic
    TransactionsEnd
CHECK_DEADLOCK FALSE
