SPECIFICATION Spec
CONSTANTS
    Orders <- MCOrders
    TotalStock <- MCTotalStock
    Items <- MCItems
    InitialBalance <- MCInitialBalance
    Revenue <- MCRevenue
    Customer <- MCCustomer
    Amount <- MCAmount
    MaxLost = 1
INVARIANTS
    AtMostOneCharge
    AtMostOneReservation
    StepsInOrder
    AtomicBeforeDeadline
    ContradictionOnlyAfterCompensation
    TombstonesUnused
    IInv
PROPERTY NeverReopened
CHECK_DEADLOCK FALSE
