# A verification model of the distributed saga orchestrator

The system takes orders through a saga over three services with a database
each. An order service orchestrates; an inventory service reserves stock; a
payment service charges a ledger. They exchange messages through transactional
outboxes and Kafka, and a fourth service projects all messages into a
read model, which a browser dashboard shows. These modules model the saga and
the machinery it rests on, check them with TLC on small instances and prove the
main safety properties with TLAPS for every value of the constants.

Paths below are relative to the repository. `OS` stands for
`services/order-service/src`, `INV` and `PAY` for the Java packages of the
inventory and payment services, `RP` for `services/read-projection-service/src`,
`VIS` for `services/visualizer-dashboard`.

## 1. Inventory of the system

| Component | State it keeps | Operations |
|---|---|---|
| Saga orchestrator, `OS/services/saga-orchestrator.service.ts` | `orders.status`, `outbox_events` | five event handlers, each one transaction under the order's row lock |
| Dead Man's Switch, `OS/services/saga-timeout.service.ts` | `isChecking`, the list of candidates in memory | every 10 s: query for timed-out orders, then one compensating transaction each |
| Order creation and ingress idempotency, `OS/services/order.service.ts`, `OS/middleware/idempotency.middleware.ts` | `orders` (unique index on the key), `ingress_idempotency_keys` | middleware lookup, lookup in the transaction, insert, commit, answer |
| Order outbox relay, `OS/services/outbox-relay.service.ts` | `outbox_events` (status, lease, retries), `isProcessing` | poll every 400 ms: claim a batch of 50 with a lease of 10 s, send concurrently, mark; hourly clean-up |
| Order event consumer, `OS/kafka/kafka.consumer.ts` | group offsets, failed starts | start with five attempts; dispatch an event to a handler; on an error, dead-letter topic |
| Inventory management, `INV/service/InventoryManagementService.java` | `products.reserved_stock`, `reservations`, `saga_tombstones`, `processed_events`, `outbox_events` | reserve and release, one transaction each |
| Payment processing, `PAY/service/PaymentProcessingService.java` | `accounts`, `ledger_transactions` and entries, `processed_events`, `outbox_events` | charge, one transaction |
| Inventory and payment relays, `*/service/OutboxRelayService.java` | `outbox_events`; sends in flight | poll, asynchronous sends, callbacks that read and save the row |
| Inventory and payment listeners, `*/consumer/*.java`, `*/config/KafkaConfig.java` | group offsets, attempt counter in memory | dispatch a command; on an error four attempts, then dead-letter topic |
| Read projection, `RP/services/projection.service.ts`, `RP/kafka/kafka.consumer.ts` | one document per order; group offsets; subscribers of the event stream | one upsert per message, any topic; broadcast; list of orders |
| Dashboard page, `VIS/src/app/page.tsx` | stock, balances, tombstones and orders shown; references to them; used keys | synchronise with the services every 4 s; while the order service does not answer, simulate sagas, one form and four chaos scenarios |
| Older dashboard page, `VIS/public/app.js` | list of orders shown; event stream | reload the list on an event, after a submit |
| Inventory and payment REST controllers, projection REST endpoints, `*/controller*` | none of their own | queries; an event stream; ingestion of a message by hand |
| Seed data, deployment and chaos scripts | catalogue, accounts; topics | once, before or around a run |

How they interact. A handler writes its state and one outbox row in one
transaction. A relay publishes rows to the service's topic. `order-events`
carries commands to the two Java services, `inventory-events` and
`payment-events` carry their reports to the orchestrator, and the projection
consumes all three. Topics have three partitions keyed by the row's
`aggregateId`, which is a reservation id, a transaction id or an order id, so
two messages about one order are ordered only if they have the same key.

```
client -> createOrder -> [outbox] -> relay -> order-events -> inventory / payment
             ^                                                      |
             |  Dead Man's Switch                                [outbox]
             |        v                                             |
          orchestrator <- inventory-events, payment-events <- relay-+
```

What is hard here:

* Delivery. Relays publish again after a lost acknowledgement or an expired
  lease, consumers read again after a rebalance, rows end as FAILED after five
  failed sends, and a record whose handler throws ends in a dead-letter topic.
* The race between the Dead Man's Switch and the events it gave up on. It reads
  its candidates without a lock and compensates them later.
* Handlers with partial state checks: `handlePaymentCaptured` refuses only
  CONFIRMED, `handleInventoryReleased` refuses nothing.
* Leases. A relay's update names the row and not the lease it was claimed under.
* Concurrent HTTP retries with one Idempotency-Key.
* Row locks. The Java handlers lock product and account rows one after the
  other, read some rows before and without a lock, and may be run for one order
  by two consumers at once when a partition changes hands.
* kafkajs consumers start at the log's end, give up after five failed starts and
  go on after any error.
* The pages. `page.tsx` decides by React references that are as old as the last
  rendering; requests of both pages overlap, and answers overtake each other.

What makes each part correct: an order is charged and reserved at most once
whatever is redelivered; a saga's outcome is all or nothing and final; every
saga ends; stock and money are conserved; a row leaves the outbox only when
Kafka has it or its retries are used up; a key buys one order; a consumer drops
no record silently; a transaction does what it would do alone; the dashboard
shows no payment or outcome that is not so, and comes to show the last state.

`PROJECT.json` lists the components with what is left out of each, and under
`hazards` each point of the code where one of these could go wrong.

## 2. Modules

| Module | What it models |
|---|---|
| `OrderIds` | the set of order ids, shared by all services |
| `OrderService` | the orchestrator's five handlers, `createOrder`, the Dead Man's Switch, deadline, restart |
| `InventoryService` | the reserve and release handlers, with tombstones and `processed_events`, each as one step |
| `PaymentService` | the payment handler, accounts and ledger, as one step |
| `RowLocks` | the transactions of several consumers of a Java service: row locks, commit, rollback, deadlock |
| `InventoryTransactions`, `PaymentTransactions` | the same handlers statement by statement; each commit is shown to be a step of the module above |
| `Saga` | the three services joined by their outboxes: every delivery, loss and step; fairness; the saga's properties |
| `SagaInvariant` | the inductive invariant `IInv` |
| `OutboxChannel` | what an outbox with its relay promises (abstract) |
| `OutboxTable` | the `outbox_events` table and the claim statement, shared by both relays |
| `OrderOutboxRelay` | the order service's relay, refined to `OutboxChannel` |
| `JpaOutboxRelay` | the Java services' relay (two copies of one class), refined to `OutboxChannel` |
| `IngressIdempotency` | concurrent HTTP requests, one database step at a time |
| `ReadProjection` | the dashboard document, composed with `Saga` |
| `ConsumerGroup` | one partition and the offsets of a consumer group |
| `CommandConsumer` | a Java listener on it, with its error handler |
| `EventConsumer` | a kafkajs consumer on it: the order service's and the projection's |
| `Visualizer` | the simulator of `page.tsx`: sagas, chaos scenarios, synchronisation, rendering |
| `LiveView` | the list of orders of both pages, from the read model by timer or event stream |
| `ServiceProofs` | lemmas: sums over finite sets, and what the atomic handlers of the two services keep |
| `SagaProofs` | theorems about the composed saga |
| `HandlerProofs` | theorems about the handlers' transactions under row locks |
| `RelayProofs`, `JpaRelayProofs` | theorems about the two relays |
| `IngressProofs`, `ConsumerProofs`, `DashboardProofs` | theorems about the ingress, the consumers, the read model and the page |
| `MC*` | instances for TLC |

### How the model corresponds to the code

*Saga level.* A handler is one database transaction that locks the rows it
changes and is run by one consumer thread per instance, so it is one atomic
step; an exception rolls it back, which is a stutter. `status[o]` is
`orders.status`. An outbox is the number of rows of each type for each order; a
row is `<<type, order, n>>`. Any row that was written may be delivered at any
time, any number of times, in any order, unless it is in `lost`; that covers
relays, Kafka and the consumers' offsets, each of which has a module of its
own. `expired[o]` is `expires_at < NOW()`; time is otherwise absent. `scan` is
the list the Dead Man's Switch has read and not yet worked off. `reservations`
counts an order's reservations by status (the code keeps one row per line, all
with the same status). `ledger[o]` counts an order's transactions by status, a
transaction standing for its two entries. Ids of orders are taken to be unique,
although the code draws eight hexadecimal digits.

*Relays.* `OutboxTable.Claim` is the one `UPDATE ... FOR UPDATE SKIP LOCKED`
statement. From there on a relay's sends, answers and updates are steps of
their own, with leases expiring and processes stopping in between. In the Java
relay a poll does not wait for its sends, so sends of one row may overlap, and
the callback's `findById` and `save` are two transactions because a method
called on the object itself is not intercepted by `@Transactional`.

*Ingress.* One step per statement that matters: both lookups, the insert with
the unique index (which waits for an uncommitted insert of the same key), the
commit and the answer, with failures at each.

*Transactions.* The databases run at READ COMMITTED. `job[c]` is the command a
consumer `c` is handling and `stage[c]` the statement it has come to; `loaded[c]`
holds the rows it has read by `SELECT ... FOR UPDATE`, with their values, until
`End`. Other statements read what is committed at that moment: `existsById` on
`processed_events` when the handler begins, the tombstone, and on a release the
reservation rows (`seen[c]`). A reservation refers to its product by a lazy
proxy, so the lock is the first read of the product's row and no older copy is in
the persistence context. Writes go to the tables at the commit, since Hibernate
flushes them then and no other transaction could see them earlier. `save()` of
an entity with a given id is a SELECT and an INSERT, or an UPDATE when the row
is there: two consumers that share an order may both commit, or the second may
fail on the primary key, which is `RollBackCommand`. `shared` records the orders
that two consumers had in a handler at once. The two services have nothing in
common; `MCHandlers` checks them in one run, one at a time.

*Consumers.* Log, committed offset and position of one partition; attempts are
counted in memory and lost at a restart. A kafkajs consumer has two ways to lose
a record, both in the code: `fromBeginning: false`, and a failure that is only
logged. Four variables keep track of them: `logged`; `firstOffset`, where the group
first began to read, which no later join moves; `firstCommit`, the first offset it
committed; and `interrupted`, which says that a consumer was gone before that
commit. Its successor then starts at the log's end again, and what came in between
is skipped without a message (`kafka.consumer.ts:56`). `LossIsLogged` excepts these
records by name, those before `firstCommit` of a group that was interrupted, and
none that any later stop, rebalance or failure might cost.

*Projection.* `ProcessEvent` is the one upsert with `$set` and `$addToSet`; the
three operators `SetsStatus`, `SetsInventory`, `SetsPayment` are the code's
switch.

*Simulator.* `executeSimulatedSaga` is a chain of waits; what it does between two
waits is one step. The functions it hands to `setProducts` and `setAccounts`
get the latest state (`page`), while its decisions read `productsRef`,
`accountsRef` and `tombstonesRef` (`refs`), which `Render` brings up to date. A
wait lasts at least 160 ms, so the page has been rendered when it ends:
`unrendered` holds the orders that this has not happened for. A sync replaces
the whole list of products, or of accounts, by what a service answers: other
products, other stock, and no `unitPrice` (`Product.java:14-34`). The list is kept as
three functions of its ids (`stock`, `reserved`, `price`). An order's `total` is
computed when it is submitted and again when its saga starts (`page.tsx:230-231`),
from the product it names or, if the list lacks that, the first one, for which the
model takes any. `NaN` stands for JavaScript's number of that name and for the
missing price; `Times`, `Add`, `Subtract` and `Below` follow JavaScript: a result is
NaN, a comparison false.

*Lists of orders.* A list is represented by the number of updates of the read
model it includes. Requests are counted on the way to the service (`asked`) and
back (`answers`), in no order. `missed` says that `app.js` has, since it last
asked, lost an event or a request or put an older list in place of a newer one.

Operators whose names begin with `Bug` are mutants: faulty variants of the
operator that follows them (a forgotten guard, a missing record). No
specification uses them. Each property that a run checks is violated when one of
them takes its operator's place, which shows that the property depends on the
code it is about. `PROJECT.json` pairs them.

## 3. Runs

| Run | Instance | What it shows |
|---|---|---|
| `saga_safety` | 3 orders, 2 units of stock, one customer with money for one of two orders and the revenue account as a customer, one lost row | charges and reservations happen once and in order; before its deadline an order is atomic over the three services; outcomes are final; both outcomes are announced only after a compensation; the orchestrator causes no tombstone; `IInv` is an invariant |
| `saga_liveness` | 2 orders that compete for one unit, the second payable only from the first's payment, one lost row, fairness | a saga none of whose rows is lost ends; even with a lost row no saga stays in CREATED or PAYMENT_PENDING |
| `saga_stuck` | same | violated: a compensation whose message is lost is never taken up again |
| `ghost_reservation` | same, no fairness | violated: an order that timed out in CREATED keeps its stock |
| `charged_without_stock` | same, no fairness | violated: a late capture ends in a charged customer without stock |
| `handlers` | 2 consumers, fairness. Inventory: 2 orders that list the same two products in opposite orders and compete for one, and an order for an unknown product. Payment: 2 orders of one customer who can pay one, and an order of the revenue account | every commit does what the handler does in one step; counters equal reservation rows, balances equal the ledger, no oversell and no overdraft; a released order holds nothing, an order is charged once; payments never deadlock; every transaction ends, those that deadlock included. What is said of an order holds unless two consumers shared it |
| `inventory_oversell` | 2 orders with a product on two lines | violated: more is reserved than there is |
| `order_relay` | 2 retries, fairness; either 2 processes and 1 row, or 1 process and a batch of 2 rows | nothing is lost silently, every row settles, `OutboxChannel` is implemented |
| `jpa_relay` | 1 process, 2 retries, fairness; either 1 row with 2 unanswered sends, or a batch of 2 rows | the same for the Java relay |
| `consumers` | 3 records, one of them poison, 2 attempts, 2 starts, 2 restarts, fairness | Java: nothing is dropped, first handling is in order, no record blocks the partition. kafkajs: a record that was passed was handled, quarantined or logged, unless it precedes the group's first join or, after a stop before its first commit, that commit; only a consumer that gave up stands still |
| `browser` | a checkout, two retries with its key, another checkout; 2 updates of the read model, 2 requests per page; fairness | one order and one answer per key, late retries are replayed, every request ends; `page.tsx` comes to list the last state, `app.js` does unless it missed something |
| `dashboard` | 2 competing orders and one document, no lost row; 3 simulated orders, two for the one macbook and one for an ipad that a sync takes from the list, money for one; syncs at any time | the payment shown is the ledger's, the outcome shown before the deadline is true; the simulator's stock and balances are those of the orders by the status shown, also when sagas race, and NaN where an order had no price; sagas that do not race promise no more stock than there is, overdraw no balance that is a number, and spoil one only after a sync of the products |

Deadlock is not checked: each system comes to rest when all orders, rows,
requests or records are done.

Four runs check two systems that share nothing. A variable of the MC module
(`running`, or `shape` for the relays' two instances) picks one of them in the
initial state; the other stays as it is.

### Bounds and why they are enough

* *Orders.* What one order does to another goes through stock, balances and
  `scan`; two orders make each contention happen (one gets the last unit, one
  the last money), and three allow one to be paid from the other's payment
  while a third competes. The safety theorems hold for any number.
* *`MaxLost = 1`.* Each type of row, in each situation, is lost in some
  behaviour. `IInv` and the safety theorems are proved for any number.
* *`Consumers`, `MaxShared = 1`.* Two consumers give every overlap of two
  transactions and the shortest cycle of waits; a longer one would need three
  products in three orders of lines. One order may be handled by both at once,
  while the others show what that does not affect. The safety properties are
  proved for any consumers, products, lines and shared orders.
* *`MaxRow`, `MaxRetries`, `MaxSends` of the relays.* Rows share the claim
  statement and the batch. Two retries distinguish a failure that puts the row
  back from the one that ends it; two processes, or two unanswered sends, make a
  late answer overtake a newer one; a batch of two makes one row succeed and the
  other fail, and a poll stop between them. Both at once is beyond TLC's
  liveness checking in reasonable time, hence two shapes. `MaxSends` is the only
  bound that is not in the code: with a lease of 10 s and a delivery timeout of
  two minutes a dozen sends may be unanswered. `NoSilentLoss` and the safety
  part of the refinement are proved for both relays with any values.
* *`Requests`.* Three with one key: one holds the index entry, one waits for
  it, one comes late.
* *`MaxOffset`, `MaxRestarts`, `MaxAttempts`, `MaxStarts`.* A record before and one
  behind the poison record; two attempts instead of four, and two starts instead
  of five, separate a retry from the last attempt. The safety properties are
  proved for any values.
* *`MaxUpdates`, `MaxRequests`.* Two updates and two requests of a page: an answer
  with the first is overtaken by one with the second. An answer that is older
  than two versions is like one that is older by one.
* *Projection.* The first order's document; the second order only competes. A
  lost row does not matter to the document, as the projection has offsets of
  its own.
* *Simulator.* Three sagas: two race for the piece or the money while the third
  gives back or waits. Of the two products one is on both lists and one on the
  first only, and the service has one that the page did not: an order is priced
  before a sync and decided after it, or finds its product gone. `Keys` has one
  key: a second form with it starts nothing. Both invariants are proved for any
  number of orders, products and accounts.

### Fairness

* `Saga!Fairness`: weak fairness of every delivery that would change something
  (consumers poll without end), of time and of the cron job; strong fairness of
  one order's compensation, since a restart or a failed transaction takes it off
  the list and the next check puts it back. Creating an order, failing,
  stopping and losing a row are never obliged.
* The transactions: a handler's next statement is executed in the end (weak
  fairness). Taking a row lock is strongly fair: PostgreSQL queues the waiting
  transactions, while others may take the lock first. A rollback or a deadlock
  needs no fairness; the handler is then outside its transaction.
* The relays: weak fairness of polling and of leases ending; strong fairness of
  a send, of its answer and of writing its outcome, because a process may stop
  or the database refuse at any of them, again and again but not every time. In
  the shape with one process the other one owes nothing.
* `IngressIdempotency`: each request's next statement is executed in the end.
* `CommandConsumer`: the container polls without end; the dead-letter topic is
  not unreachable every time. `EventConsumer`: a start succeeds or fails, and
  the consumer takes the next record.
* `LiveView`: timers and callbacks run (weak), and not every request fails
  (strong). Connecting the event stream is not obliged.

## 4. What disagrees with the documentation

* `saga_stuck`: the scan leaves out COMPENSATING_INVENTORY
  (`saga-timeout.service.ts:28`), which the index made for it includes
  (`init.sql:25-26`).
* `ghost_reservation`: a timeout in CREATED cancels without a release command
  (`saga-timeout.service.ts:99`). The inventory's tombstones would protect
  against a late reservation, but nothing asks for one: theorem `NoTombstone`
  shows that the orchestrator never makes the inventory write a tombstone.
* `charged_without_stock`: the release and the capture race, and neither handler
  checks the state (`saga-orchestrator.service.ts:164` and `:296`).
* `inventory_oversell`: each line is checked by itself
  (`InventoryManagementService.java:75`), so two lines of one product pass
  together.

Seen while modelling and not checked by a run: an HTTP retry that overlaps the
first request is refused by the unique index with an error 500 instead of being
answered (`order.service.ts:61`, against README.md:73); the order service's
consumer drops a record when its dead-letter topic cannot be written
(`kafka.consumer.ts:152`), with a message in its log (`LossIsLogged`), and the
projection only ever logs what it cannot process (`RP/kafka/kafka.consumer.ts:85-87`),
while README.md:72 says that "Spring Kafka and NestJS error boundaries intercept
unrecoverable messages and quarantine them to `*.DLT`"; a group that is interrupted
before its first commit skips records (`kafka.consumer.ts:56`); the dashboard's
status is that of the message that came last (`projection.service.ts:144`); a stale relay can put a PROCESSED row
back to PENDING (`outbox-relay.service.ts:131`), so it is sent again, which the
saga tolerates. Two consumers that handle one command at the same time can both
charge, or both return the stock (`shared` in `RowLocks`), if the second one's
`save()` finds the first one's row; a consumer group promises an interval without
an owner, not this. The order service's consumer gives up after five starts
while the service goes on accepting orders (`kafka.consumer.ts:75`). In the
pages, the "polling fallback" of `app.js:21` reloads other tables and not the
orders; simulated sagas that race may reserve and charge more than there is,
although the page logs "with pessimistic row locks" (`page.tsx:473`); after a sync
of the products simulated orders have no price, so that every one of them is
captured whatever the balance (`page.tsx:230-231`, `:344`), also of the customer whom
the form offers with "Triggers Rollback & Compensation" (`page.tsx:703`), and the
balances become NaN, while the form shows a price of 100.00 (`page.tsx:716`); the
item of a POST then has no `unitPrice` either, which `create-order.dto.ts:13-14`
refuses, so the order is always simulated; an order
whose POST takes more than 1.5 s is simulated although the order service may
have created it; and `runChaosTimeoutRecovery` takes stock without a look at it.

Two points depend on TypeORM and are listed as hazards without a property: what
`query()` returns for an UPDATE (`outbox-relay.service.ts:66`) and a
`pessimistic_write` lock on an entity with an eager relation
(`order.entity.ts:59`). The model follows the code's intent there.

## 5. Proofs

All proofs are checked by TLAPS with no unproved step.

*Types.* `TypeCorrect` for the composed saga, `PaymentTypes`, `InventoryTypes` and
`JpaRelayTypes`. No run repeats them; the other invariants begin with theirs.

*Sums.* Stock, balances and the page are explained by sums over orders.
`SumFunctionOnSet` is a fold, defined by a recursive function on the subsets of a
finite set. In place of induction, which the provers cannot instantiate, the
lemmas of `ServiceProofs` take a smallest counterexample: proper inclusion is well
founded on finite subsets (`FS_StrictSubsetOrderingWellFounded`, `WFMin`), so a
set that breaks a rule includes a smallest one, and that one without an element
keeps it (`MinimalSubset`). `SumExists` builds the recursive function, `SumUnique`
says that there is one only, and from `SumRule` follow `SumRemove`, `SumSame`,
`SumZero`, `SumChange` and the types.

*The saga's invariant.* The safety properties are not inductive: that an order
is charged once follows only from its having one payment command, which follows
from the status, which in turn depends on which events the inventory can have
written. `IInv` (module `SagaInvariant`) ties these together for each order:

1. `CommandsFollowStatus`: the status bounds how many commands of each type were
   written, at most one each;
2. `InventoryFollowsCommands`, `PaymentFollowsCommands`: rows, ledger and events
   follow from the commands recorded in `processed_events`;
3. `CommandsFollowEffects`: a payment command needs a reserved event, and
   CONFIRMED needs a successful transaction;
4. `DeadlineRules`: before the deadline only a failed payment compensates, and
   only a refused or released reservation cancels;
5. `AnnouncementsFollowStatus`: the announced outcome is the status, up to a
   late compensation.

`SagaProofs` has one lemma per action (`CreateOrderInv` ... `LoseInv`), each for
an arbitrary order, and frame lemmas for the orders and services an action
leaves alone; `InvariantCorrect` combines them. From it follow `ChargedOnce`,
`ReservedOnce`, `RunsInOrder`, `AtomicUntilDeadline`, `ContradictionNeedsRelease`,
`NoTombstone`, and the action property `OutcomeIsFinal`. `StockNeverOversold`,
`NeverOverdrawn` and `MoneyIsExplained` are inductive with the types.

*The handlers' transactions.* `PaymentsCommitAtomically` and
`ReservationsCommitAtomically` say that the commit of a transaction, whose
statements interleave with those of other consumers, is the one step of
`PaymentService` or `InventoryService`, unless another consumer had the same order:
the detailed handlers refine the atomic ones, on which the saga's theorems
rest. `PaymentTxInv` and `InventoryTxInv` say why:

1. locks exclude each other, and the value loaded under a lock is still the
   row's (`LockInv`, the first line of `StageTellsPayment` and of
   `StageTellsInventory`);
2. the statement a transaction has come to tells which rows it holds and what it
   found there;
3. what it read without a lock (the processed command, the tombstone, the
   reservation rows) is still true if it does not share the order
   (`PaymentUnshared`, `StillTrue`); if it does, the rows may be older
   (`SeenIsOld`), which is why the types hold even then;
4. an unshared order's rows follow from its processed commands
   (`RowsFollowCommands`).

`ChargedOnceByHandler`, `ReleaseIsFinal`, `NeverOverdrawnByHandler`,
`NeverOversoldByHandler`, `MoneyExplainedByHandler` and `StockIsExplained` follow. So
does `PaymentsNeverDeadlock`, for cycles of any length: a transaction that holds
a row and waits waits for the revenue account, so a cycle would need a holder of
the revenue account that waits, and it has all the rows it needs.

`PaymentImplementsService` and `InventoryImplementsService` carry this from commits
to runs: a behaviour in which no two consumers are ever in a handler for one order
(`[](shared = {})`, what a partition per order gives as long as no rebalance hands
an order to a second consumer while the first is still in its handler) is a
behaviour of the atomic service, its other statements and its rollbacks being
stuttering steps.

*The relays.* `NothingLostSilently`, `NothingLostByJpaRelay`: a row is acknowledged
by some relay only if it was published, and only then marked. `RelayIsChannel`,
`JpaRelayIsChannel`: both relays refine the safety part of `OutboxChannel`; a late
failure that revives a FAILED row maps to `Resume`. In `JpaInv` the acknowledgement
may be one of several, that of a callback that has read its row, or that of one
that has not.

*Ingress.* `OneOrder`, `OneAnswer`: at most one request per key is between insert
and commit, and the record of a key names the one committed order.
`LateRetries`: a record is never withdrawn, so a request that has seen one, or
starts when there is one, stays on the way to its replay (`Replaying`).

*Consumers.* `CommandsNeverDropped`, `CommandsInOrder`: every offset below the
position is handled or quarantined, and the committed offset is not beyond it.
`EventLossIsLogged`: the same with a log entry as a third way, and with the two
exceptions (`EventInv`). They carry over from one consumer to the next because the
group's past fits its present (`HistoryFits`): a consumer that joins without a
committed offset is the first, or follows one that was interrupted before any
commit. `ConsumerProofs` extends `MCConsumers`, which
instantiates the two consumers side by side; it uses none of its constants'
values.

*The read model.* `DashboardShowsLedger`, `DashboardShowsOutcome`: each field of a
document is explained by a message in its timeline, and every message there was
written (`DocumentInv`). With `IInv` the message tells what is in the ledger and in
the order.

*The page.* `PageIsExplained`, `SagasAloneAreSafe`. `PageInv` ties the status an order
is shown with to the wait its saga is in; from that `MoveKinds` concludes that a
move keeps the page's stock and balances, or one order takes, gives back what it
holds (so `Math.max(0, ...)` never cuts anything off), or pays. A total never changes
once its order is confirmed, and one without a price turns the sum that explains a
balance into NaN (`ExplainedAdd`). An order's tombstone
is in the references by the time its saga looks at them, because it waited and
the page was rendered. While no sagas raced, at most one is under way; once the
page was rendered after its last move, the references hold at least what is
reserved by orders that looked, and the balances of the page (`AloneInv`):
everything else that happens in between is forced or given back by the timeout
scenario. Prices and totals are numbers as long as no sync has replaced the
products (`PageTypeOK`), so a balance is NaN only after one.

Assumptions, besides the types of the constants:

* `NonEmptyOrders` (hypothesis of the theorems that rest on `IInv`): each order
  has a line. `create-order.dto.ts` does not demand it; an order without lines
  reserves no row, and its release writes a tombstone.
* `OneLinePerProduct` (hypothesis of `StockNeverOversold` and
  `NeverOversoldByHandler`): no two lines of an order name the same product.
  Without it `inventory_oversell` shows the property false.
* `OrdersAssumption`: the set of order ids is finite (they are eight hexadecimal
  digits, `order.service.ts:42`). `ItemsAssumption`: an order has finitely many lines.
  The sums need both.
* `IngressAssumption`: requests are not named like one of the four markers.
* `VisualizerAssumption`: the form and the scenarios name customers of the page's
  first list, none of them the revenue account; quantities, first stock, prices and
  balances are not negative; NaN is not an integer. Of what a sync brings it is only
  assumed that each product has both its stock and its reserved stock.

### Only model-checked

Liveness (`CompletesUnlessLost`, `NoPendingForever`, `TransactionsEnd`,
`EveryRowSettles`, `PostsEnd`, `ListsCatchUp`, `PartitionMoves`, `EventsMove`, and
the fairness of `OutboxChannel`) is out of the prover's reach. Every safety
invariant and action property that a passing run checks is also proved. The
proofs about parts that share a run (`handlers`, `consumers`, `dashboard`, `browser`)
are about the specification of each part; that the run's specification is one of
them at a time is by construction of the MC module.

### What some properties do not say

* `NoSilentLoss` is about acknowledgements: a row that is marked was published. It does
  not see a stale update that overwrites a newer outcome; `ImplementsChannel`, whose
  `Resume` is that update, and `EveryRowSettles` do.
* `TransactionsEnd` ends with the rollback of a deadlocked transaction. That the
  command is then handled again, or quarantined, and holds up nothing is the
  listener's part: `NothingDropped` and `PartitionMoves`.
* `LossIsLogged` and `AloneIsSafe` state their exceptions, which are real losses of the
  code: section 4 names them.

## 6. What is not modelled

* Endpoints that only read, except the list of orders: the REST controllers of
  the Java services, the single document, the health checks. The ingest endpoint
  is modelled by its effect on the stream. The chaos scripts (`scripts/chaos/02`,
  `03`, `04`, `07`) and a button of `app.js` (line 367) call it with events that no
  service wrote. `PaymentShownIsLedger` and `OutcomeShownIsTrue` are about documents of
  messages from the services, not about those.
* Of the pages: drawing, animations, latency figures and logs, the simulator's
  own lists of orders and outbox rows (they are written and shown, and no
  decision reads them), and the tables of `app.js` other than the orders.
* Seeding, which runs once before any command; its results are constants.
* Deployment and chaos scripts: configuration and demonstrations. What they
  configure (partitions, replicas, isolation) is in the delivery and transaction
  models.
* What libraries do where the code does not show it: the two hazards of section
  4, and collisions of order ids, which are a matter of probability.

## 7. Plan

Done: the saga and its proofs, the relays, the ingress, the consumers of all
services, the handlers' transactions, the projection, the dashboard pages.

The safety part of every component is proved. What is left:

1. `RelayProofs`, `IngressProofs`: the types and the inductive invariants as theorems
   of their own, as for the Java relay.
2. Safety lemmas that the liveness properties rest on, for any values: an order that
   is not final has an undelivered row, an entry in `scan`, or a deadline ahead; a
   row that is not settled is claimable, leased or held by a process.
