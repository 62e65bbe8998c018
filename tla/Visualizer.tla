------------------------------ MODULE Visualizer ------------------------------
(***************************************************************************)
(* The page of the visualizer-dashboard, which simulates sagas while the   *)
(* order service does not answer. A simulated saga runs from one wait to   *)
(* the next; any number of them may be under way. It changes the page's    *)
(* state by functions of the latest value, but decides by references that  *)
(* an effect copies from the state after React has rendered it.            *)
(***************************************************************************)
EXTENDS Integers, FiniteSets, Functions

CONSTANTS
    SimOrders,       \* orders the page draws an id for
    Purchase,        \* what each buys: [product, quantity, customer]
    Stock, Price,    \* totalStock and unitPrice of the page's first products
    Funds,           \* the balances of its first accounts
    LiveStock, LiveReserved, LiveBalance,  \* what the services answer to a sync
    Keys,            \* values of the form's Idempotency-Key
    NaN              \* JavaScript's, and undefined in a product without a price

SystemRevenue == "system_revenue"

(* The form and the scenarios name customers of the first list. *)
ASSUME VisualizerAssumption ==
    /\ IsFiniteSet(SimOrders)
    /\ \A o \in SimOrders :
          /\ Purchase[o].quantity \in Nat
          /\ Purchase[o].customer \in DOMAIN Funds \ {SystemRevenue}
    /\ Stock \in [DOMAIN Stock -> Nat] /\ Price \in [DOMAIN Stock -> Nat]
    /\ Funds \in [DOMAIN Funds -> Nat]
    /\ DOMAIN LiveReserved = DOMAIN LiveStock
    /\ NaN \notin Int

VARIABLES
    page,        \* the products, the accounts and the tombstones, as set last
    refs,        \* productsRef, accountsRef, tombstonesRef
    total,       \* the totalAmount of an order
    unrendered,  \* orders whose last change the references do not have yet
    phase,       \* the wait an order's saga is in
    shownStatus, \* newOrder.status
    usedKeys,    \* processedIdempotencyKeys
    forced,      \* orders whose stock was taken without a look at it
    raced,       \* two sagas were under way at the same time
    synced       \* what a sync has overwritten

pageVars ==
    <<page, refs, total, unrendered, phase, shownStatus, usedKeys, forced, raced, synced>>

(* The list of products is three functions of the ids on it. *)
PageInit ==
    /\ page = [stock |-> Stock, reserved |-> [p \in DOMAIN Stock |-> 0], price |-> Price,
               balance |-> Funds, tombstones |-> {}]
    /\ refs = page
    /\ total = [o \in SimOrders |-> 0]
    /\ unrendered = {}
    /\ phase = [o \in SimOrders |-> "idle"]
    /\ shownStatus = [o \in SimOrders |-> "NONE"]
    /\ usedKeys = {}
    /\ forced = {}
    /\ raced = FALSE
    /\ synced = {}

(* React renders, and the effects copy the state to the references.        *)
Render ==
    /\ refs # page \/ unrendered # {}
    /\ refs' = page
    /\ unrendered' = {}
    /\ UNCHANGED <<page, total, phase, shownStatus, usedKeys, forced, raced, synced>>

(* attemptBackendSync replaces a list by what its service answers. The     *)
(* inventory's products have no unitPrice.                                 *)
SyncProducts ==
    /\ DOMAIN LiveStock # {}
    /\ page' = [page EXCEPT !.stock = LiveStock, !.reserved = LiveReserved,
                            !.price = [p \in DOMAIN LiveStock |-> NaN]]
    /\ synced' = synced \cup {"products"}
    /\ UNCHANGED <<refs, total, unrendered, phase, shownStatus, usedKeys, forced, raced>>

SyncAccounts ==
    /\ DOMAIN LiveBalance # {}
    /\ page' = [page EXCEPT !.balance = LiveBalance]
    /\ synced' = synced \cup {"accounts"}
    /\ UNCHANGED <<refs, total, unrendered, phase, shownStatus, usedKeys, forced, raced>>

-----------------------------------------------------------------------------
(* JavaScript's arithmetic: NaN makes a result NaN and a comparison false. *)
Times(x, n) == IF x = NaN THEN NaN ELSE x * n
Add(x, y) == IF NaN \in {x, y} THEN NaN ELSE x + y
Subtract(x, y) == IF NaN \in {x, y} THEN NaN ELSE x - y
Below(x, y) == NaN \notin {x, y} /\ x < y

(* The product an order names or, if the list lacks it, the first listed:  *)
(* any, as the functions do not keep the order of the list.                *)
Selected(o) ==
    IF Purchase[o].product \in DOMAIN refs.price THEN {Purchase[o].product}
    ELSE DOMAIN refs.price

Priced(o) ==
    \E p \in Selected(o) :
        total' = [total EXCEPT ![o] = Times(refs.price[p], Purchase[o].quantity)]

-----------------------------------------------------------------------------
(* An order goes on to another wait. It has set some state before.         *)
WaitIn(o, to) ==
    /\ phase' = [phase EXCEPT ![o] = to]
    /\ unrendered' = unrendered \cup {o}
    /\ UNCHANGED <<refs, synced>>

(* The wait is over. The shortest lasts 160 ms: the page was rendered.     *)
Awake(o, from) == phase[o] = from /\ o \notin unrendered

Simulated(o) == phase[o] \notin {"idle", "posting", "posted", "inverted", "timeout", "ended"}

(* A new order, of a product that the page lists or has listed. *)
New(o) ==
    /\ phase[o] = "idle"
    /\ Purchase[o].product \in DOMAIN Stock \/ "products" \in synced

(* executeSimulatedSaga begins.                                            *)
Launch(o) ==
    /\ Priced(o)
    /\ WaitIn(o, "ingress")
    /\ raced' = (raced \/ \E q \in SimOrders \ {o} : Simulated(q))
    /\ UNCHANGED <<page, shownStatus, forced>>

(* handleOrderSubmit, up to the POST; a key that was used only answers.    *)
SubmitOrder(o, k) ==
    /\ New(o)
    /\ k \notin usedKeys
    /\ Priced(o)
    /\ usedKeys' = usedKeys \cup {k}
    /\ WaitIn(o, "posting")
    /\ UNCHANGED <<page, shownStatus, forced, raced>>

(* The order service refuses an item without a unitPrice. *)
PostAnswered(o) ==
    /\ phase[o] = "posting"
    /\ total[o] # NaN
    /\ WaitIn(o, "posted")
    /\ UNCHANGED <<page, total, shownStatus, usedKeys, forced, raced>>

(* No answer within 1.5 s, or an error: the order is simulated.            *)
PostFails(o) == phase[o] = "posting" /\ Launch(o) /\ UNCHANGED usedKeys

(* One of the orders of runChaosHighConcurrency.                           *)
RunChaosHighConcurrency(o) == New(o) /\ Launch(o) /\ UNCHANGED usedKeys

(* runChaosDuplicateReplay: its second and third attempt start nothing.    *)
RunChaosDuplicateReplay(o, k) ==
    /\ New(o)
    /\ Launch(o)
    /\ usedKeys' = usedKeys \cup {k}

RunChaosInversionGuard(o) ==
    /\ New(o)
    /\ page' = [page EXCEPT !.tombstones = @ \cup {o}]
    /\ WaitIn(o, "inverted")
    /\ UNCHANGED <<total, shownStatus, usedKeys, forced, raced>>

LateReservation(o) == Awake(o, "inverted") /\ Launch(o) /\ UNCHANGED usedKeys

-----------------------------------------------------------------------------
(* The sagas' steps leave these alone. *)
StepFrame == UNCHANGED <<total, usedKeys, raced>>

CreateSimulatedOrder(o) ==
    /\ Awake(o, "ingress")
    /\ WaitIn(o, "created")
    /\ shownStatus' = [shownStatus EXCEPT ![o] = "INVENTORY_RESERVING"]
    /\ UNCHANGED <<page, forced>> /\ StepFrame

Dispatch(o) ==
    /\ \/ Awake(o, "created") /\ WaitIn(o, "dispatched")
       \/ Awake(o, "reserved") /\ WaitIn(o, "commanded")
    /\ UNCHANGED <<page, shownStatus, forced>> /\ StepFrame

Ends(o, status) ==
    /\ WaitIn(o, "ended")
    /\ shownStatus' = [shownStatus EXCEPT ![o] = status]

HasTombstone(o) == o \in refs.tombstones

(* availableStock: nothing of a product that is not listed.                *)
AvailableStock(o) ==
    LET p == Purchase[o].product
    IN  IF p \in DOMAIN refs.stock THEN refs.stock[p] - refs.reserved[p] ELSE 0

(* Mutant of InStock. *)
BugOffByOne(o) == AvailableStock(o) + 1 >= Purchase[o].quantity

InStock(o) == AvailableStock(o) >= Purchase[o].quantity

Refuse(o) ==
    /\ Awake(o, "dispatched")
    /\ HasTombstone(o) \/ ~InStock(o)
    /\ Ends(o, "CANCELLED")
    /\ UNCHANGED <<page, forced>> /\ StepFrame

(* Mutant of Take. *)
BugTakeFromRefs(o) ==
    page' = [page EXCEPT !.stock = refs.stock, !.price = refs.price, !.reserved =
        [p \in DOMAIN refs.reserved |->
            refs.reserved[p] + (IF p = Purchase[o].product THEN Purchase[o].quantity ELSE 0)]]

Take(o) ==
    page' = [page EXCEPT !.reserved =
        [p \in DOMAIN page.reserved |->
            page.reserved[p] + (IF p = Purchase[o].product THEN Purchase[o].quantity ELSE 0)]]

(* Math.max(0, reservedStock - qty) *)
GiveBack(o) ==
    page' = [page EXCEPT !.reserved =
        [p \in DOMAIN page.reserved |->
            IF p # Purchase[o].product THEN page.reserved[p]
            ELSE IF Purchase[o].quantity > page.reserved[p] THEN 0
            ELSE page.reserved[p] - Purchase[o].quantity]]

ReserveStock(o) ==
    /\ Awake(o, "dispatched")
    /\ ~HasTombstone(o) /\ InStock(o)
    /\ Take(o)
    /\ WaitIn(o, "reserved")
    /\ shownStatus' = [shownStatus EXCEPT ![o] = "PAYMENT_PENDING"]
    /\ UNCHANGED forced /\ StepFrame

(* The payment fails if custBalance < totalAmount, and nothing is below or *)
(* above NaN.                                                              *)
HasFunds(o) ==
    LET c == Purchase[o].customer
        custBalance == IF c \in DOMAIN refs.balance THEN refs.balance[c] ELSE 0
    IN  ~Below(custBalance, total[o])

(* The customer is debited and the revenue credited. *)
Charge(o) ==
    page' = [page EXCEPT !.balance =
        [c \in DOMAIN page.balance |->
            IF c = Purchase[o].customer THEN Subtract(page.balance[c], total[o])
            ELSE IF c = SystemRevenue THEN Add(page.balance[c], total[o])
            ELSE page.balance[c]]]

Capture(o) ==
    /\ Awake(o, "commanded")
    /\ HasFunds(o)
    /\ Charge(o)
    /\ Ends(o, "CONFIRMED")
    /\ UNCHANGED forced /\ StepFrame

FailPayment(o) ==
    /\ Awake(o, "commanded")
    /\ ~HasFunds(o)
    /\ WaitIn(o, "rollback")
    /\ shownStatus' = [shownStatus EXCEPT ![o] = "COMPENSATING_INVENTORY"]
    /\ UNCHANGED <<page, forced>> /\ StepFrame

(* runChaosTimeoutRecovery: a pending order that takes its stock unseen.   *)
RunChaosTimeoutRecovery(o) ==
    /\ New(o)
    /\ Take(o)
    /\ WaitIn(o, "timeout")
    /\ shownStatus' = [shownStatus EXCEPT ![o] = "PAYMENT_PENDING"]
    /\ forced' = forced \cup {o}
    /\ StepFrame

(* The compensation, after a failed payment or by the poller. *)
RollBack(o) ==
    /\ Awake(o, "rollback") \/ Awake(o, "timeout")
    /\ GiveBack(o)
    /\ Ends(o, "CANCELLED")
    /\ UNCHANGED forced /\ StepFrame

-----------------------------------------------------------------------------
Starts(o) ==
    \/ \E k \in Keys : SubmitOrder(o, k) \/ RunChaosDuplicateReplay(o, k)
    \/ PostAnswered(o) \/ PostFails(o)
    \/ RunChaosHighConcurrency(o) \/ RunChaosInversionGuard(o) \/ LateReservation(o)
    \/ RunChaosTimeoutRecovery(o)

SagaStep(o) ==
    \/ CreateSimulatedOrder(o) \/ Dispatch(o) \/ Refuse(o) \/ ReserveStock(o)
    \/ Capture(o) \/ FailPayment(o) \/ RollBack(o)

PageNext ==
    \/ Render \/ SyncProducts \/ SyncAccounts
    \/ \E o \in SimOrders : Starts(o) \/ SagaStep(o)

PageSpec == PageInit /\ [][PageNext]_pageVars

-----------------------------------------------------------------------------
Holding == {o \in SimOrders :
    shownStatus[o] \in {"PAYMENT_PENDING", "COMPENSATING_INVENTORY", "CONFIRMED"}}

Reserves(os, p) ==
    SumFunctionOnSet([o \in SimOrders |-> Purchase[o].quantity],
                     {o \in os : Purchase[o].product = p})

(* The confirmed orders that were paid from or to an account. *)
Paying(c) ==
    {o \in SimOrders : shownStatus[o] = "CONFIRMED" /\ c \in {Purchase[o].customer, SystemRevenue}}

Paid(c) == SumFunctionOnSet(total, Paying(c))

(* Until a sync overwrites them the stock and the balances on the page are *)
(* those of the orders with the status that is shown, although sagas that  *)
(* race change them with references that are out of date (a balance is no  *)
(* number as soon as one of its orders had no price); and no order whose   *)
(* cancellation came first holds any ("safely aborted by the Inversion     *)
(* Guard without locking stock").                                          *)
PageExplained ==
    /\ "products" \notin synced =>
         \A p \in DOMAIN Stock : page.reserved[p] = Reserves(Holding, p)
    /\ "accounts" \notin synced =>
         \A c \in DOMAIN Funds :
            page.balance[c] = IF \E o \in Paying(c) : total[o] = NaN THEN NaN
                              ELSE IF c = SystemRevenue THEN Funds[c] + Paid(c)
                              ELSE Funds[c] - Paid(c)
    /\ page.tombstones \cap Holding = {}

(* Sagas that run one after the other promise no more than there is, in    *)
(* spite of the references: the waits are longer than a rendering. (Sagas  *)
(* that race do.) Money is safe only as long as orders have prices: after  *)
(* a sync of the products every order is captured, whatever the balance,   *)
(* and leaves NaN for it. No balance gets lost in any other way, and none  *)
(* that still is a number is overdrawn.                                    *)
AloneIsSafe ==
    ~raced =>
        /\ "products" \notin synced =>
             \A p \in DOMAIN Stock : Reserves(Holding \ forced, p) <= Stock[p]
        /\ "accounts" \notin synced =>
             \A c \in DOMAIN Funds :
                IF page.balance[c] = NaN THEN "products" \in synced ELSE page.balance[c] >= 0
=============================================================================
