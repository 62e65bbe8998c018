---------------------------- MODULE HandlerProofs ----------------------------
(***************************************************************************)
(* The handlers of the two Java services, statement by statement, for any  *)
(* number of consumers, orders, products and accounts: what they do to the *)
(* tables is what the atomic handlers of InventoryService and              *)
(* PaymentService do, unless two consumers share an order.                 *)
(***************************************************************************)
EXTENDS InventoryTransactions, PaymentTransactions, ServiceProofs

-----------------------------------------------------------------------------
(* Transactions and their locks, whatever the handler. *)

(* A row has one owner, who is in a transaction; two consumers in a        *)
(* handler for one order are known to share it.                            *)
LockInv(types, stages, rows) ==
    /\ LocksTypeOK(types, stages, rows)
    /\ \A c \in Consumers : Busy(c) => job[c] \in types \X Orders
    /\ \A c \in Consumers : ~Busy(c) => Locked(c) = {}
    /\ \A c, d \in Consumers : c # d => Locked(c) \cap Locked(d) = {}
    /\ \A c, d \in Consumers :
         c # d /\ Busy(c) /\ Busy(d) /\ Order(c) = Order(d) => Order(c) \in shared

(* What a step of consumer c leaves alone. *)
OthersKeep(c) ==
    /\ shared \subseteq shared'
    /\ \A d \in Consumers \ {c} :
         job'[d] = job[d] /\ stage'[d] = stage[d] /\ loaded'[d] = loaded[d]

LEMMA LocksStart ==
  ASSUME NEW types, NEW stages, NEW rows, "idle" \in stages, LocksInit
  PROVE  LockInv(types, stages, rows)
  <1>1. NoRows \in [{} -> Int] /\ DOMAIN NoRows = {}
    BY DEF NoRows
  <1> QED
    BY <1>1 DEF LocksInit, LockInv, LocksTypeOK, Busy, Locked

LEMMA BeginLocks ==
  ASSUME NEW types, NEW stages, NEW rows, LockInv(types, stages, rows),
         NEW c \in Consumers, NEW t \in types, NEW o \in Orders, NEW s \in stages \ {"idle"},
         Begin(c, t, o, s)
  PROVE  /\ LockInv(types, stages, rows)' /\ OthersKeep(c)
         /\ job'[c] = <<t, o>> /\ stage'[c] = s /\ loaded'[c] = loaded[c]
         /\ \A d \in Consumers \ {c} : Busy(d) /\ Order(d) = o => o \in shared'
  <1>1. /\ job'[c] = <<t, o>> /\ stage'[c] = s /\ loaded' = loaded
        /\ OthersKeep(c)
        /\ \A d \in Consumers : Order(d) = o => o \in shared'
        /\ shared' \in SUBSET Orders
    BY DEF LockInv, LocksTypeOK, Begin, OthersKeep
  <1>2. LocksTypeOK(types, stages, rows)'
    <2>1. job' \in [Consumers -> (types \X Orders) \cup {NoJob}] /\ stage' \in [Consumers -> stages]
      BY DEF LockInv, LocksTypeOK, Begin
    <2> QED
      BY <1>1, <2>1 DEF LockInv, LocksTypeOK, Locked
  <1>3. \A d, e \in Consumers : d # e => Locked(d)' \cap Locked(e)' = {}
    BY <1>1 DEF LockInv, Locked
  <1>4. \A d \in Consumers \ {c} :
          Order(d)' = Order(d) /\ (Busy(d)' <=> Busy(d)) /\ Locked(d)' = Locked(d)
    BY <1>1 DEF OthersKeep, Order, Busy, Locked
  <1>5. Order(c)' = o /\ Busy(c)' /\ job'[c] \in types \X Orders
    BY <1>1 DEF Order, Busy
  <1>6. \A d \in Consumers : /\ Busy(d)' => job'[d] \in types \X Orders
                             /\ ~Busy(d)' => Locked(d)' = {}
    BY <1>1, <1>4, <1>5 DEF LockInv, OthersKeep
  <1>7. \A d, e \in Consumers :
          d # e /\ Busy(d)' /\ Busy(e)' /\ Order(d)' = Order(e)' => Order(d)' \in shared'
    BY <1>1, <1>4, <1>5 DEF LockInv, OthersKeep
  <1> QED
    BY <1>1, <1>2, <1>6, <1>3, <1>7 DEF LockInv

LEMMA GoToLocks ==
  ASSUME NEW types, NEW stages, NEW rows, LockInv(types, stages, rows),
         NEW c \in Consumers, Busy(c), NEW s \in stages \ {"idle"}, GoTo(c, s)
  PROVE  /\ LockInv(types, stages, rows)' /\ OthersKeep(c)
         /\ job' = job /\ stage'[c] = s /\ loaded' = loaded /\ shared' = shared
  <1>1. /\ job' = job /\ stage'[c] = s /\ loaded' = loaded /\ shared' = shared
        /\ OthersKeep(c) /\ stage' \in [Consumers -> stages]
    BY DEF LockInv, LocksTypeOK, GoTo, OthersKeep
  <1>2. \A d \in Consumers : Order(d)' = Order(d) /\ (Busy(d)' <=> Busy(d)) /\ Locked(d)' = Locked(d)
    BY <1>1 DEF OthersKeep, Order, Busy, Locked
  <1> QED
    BY <1>1, <1>2 DEF LockInv, LocksTypeOK

LEMMA LockRowLocks ==
  ASSUME NEW types, NEW stages, NEW rows, LockInv(types, stages, rows),
         NEW c \in Consumers, Busy(c), NEW s \in stages \ {"idle"}, NEW r \in rows,
         NEW v \in Int, LockRow(c, r, v, s)
  PROVE  /\ LockInv(types, stages, rows)' /\ OthersKeep(c)
         /\ job' = job /\ stage'[c] = s /\ shared' = shared
         /\ Locked(c)' = Locked(c) \cup {r}
         /\ loaded'[c][r] = v
         /\ \A x \in Locked(c) \ {r} : loaded'[c][x] = loaded[c][x]
  <1> DEFINE new == [x \in Locked(c) \cup {r} |-> IF x = r THEN v ELSE loaded[c][x]]
  <1>1. /\ job' = job /\ stage'[c] = s /\ shared' = shared
        /\ stage' \in [Consumers -> stages]
        /\ loaded' = [loaded EXCEPT ![c] = new] /\ loaded'[c] = new
        /\ OthersKeep(c)
    BY DEF LockInv, LocksTypeOK, LockRow, OthersKeep
  <1>2. new \in [Locked(c) \cup {r} -> Int] /\ Locked(c) \cup {r} \in SUBSET rows
    BY DEF LockInv, LocksTypeOK
  <1>3. Locked(c)' = Locked(c) \cup {r}
    BY <1>1 DEF Locked
  <1>4. \A d \in Consumers \ {c} : Locked(d)' = Locked(d) /\ r \notin Locked(d)
    BY <1>1 DEF OthersKeep, Locked, LockRow, Free
  <1>5. \A d \in Consumers : Order(d)' = Order(d) /\ (Busy(d)' <=> Busy(d))
    BY <1>1 DEF OthersKeep, Order, Busy
  <1>6. LocksTypeOK(types, stages, rows)'
    <2>1. loaded' = [d \in Consumers |-> loaded'[d]]
      BY <1>1 DEF LockInv, LocksTypeOK
    <2>2. loaded'[c] \in [Locked(c)' -> Int] /\ Locked(c)' \subseteq rows
      BY <1>1, <1>2, <1>3
    <2>3. \A d \in Consumers \ {c} : loaded'[d] \in [Locked(d)' -> Int] /\ Locked(d)' \subseteq rows
      BY <1>1, <1>4 DEF LockInv, LocksTypeOK, OthersKeep
    <2> HIDE DEF new
    <2> QED
      BY <1>1, <2>1, <2>2, <2>3 DEF LockInv, LocksTypeOK
  <1>7. \A d, e \in Consumers : d # e => Locked(d)' \cap Locked(e)' = {}
    BY <1>3, <1>4 DEF LockInv
  <1>8. LockInv(types, stages, rows)'
    <2> HIDE DEF new
    <2> QED
      BY <1>1, <1>3, <1>4, <1>5, <1>6, <1>7 DEF LockInv
  <1> QED
    BY <1>1, <1>3, <1>8

LEMMA EndLocks ==
  ASSUME NEW types, NEW stages, NEW rows, LockInv(types, stages, rows), "idle" \in stages,
         NEW c \in Consumers, End(c)
  PROVE  /\ LockInv(types, stages, rows)' /\ OthersKeep(c)
         /\ stage'[c] = "idle" /\ Locked(c)' = {} /\ shared' = shared
  <1>1. NoRows \in [{} -> Int] /\ DOMAIN NoRows = {}
    BY DEF NoRows
  <1>2. /\ job'[c] = NoJob /\ stage'[c] = "idle" /\ loaded'[c] = NoRows /\ shared' = shared
        /\ OthersKeep(c)
    BY DEF LockInv, LocksTypeOK, End, OthersKeep
  <1>3. Locked(c)' = {} /\ ~Busy(c)'
    BY <1>1, <1>2 DEF Locked, Busy
  <1>4. \A d \in Consumers \ {c} :
          Order(d)' = Order(d) /\ (Busy(d)' <=> Busy(d)) /\ Locked(d)' = Locked(d)
    BY <1>2 DEF OthersKeep, Order, Busy, Locked
  <1>5. LocksTypeOK(types, stages, rows)'
    <2>1. loaded' = [d \in Consumers |-> loaded'[d]]
      BY DEF LockInv, LocksTypeOK, End
    <2>2. \A d \in Consumers : loaded'[d] \in [Locked(d)' -> Int] /\ Locked(d)' \subseteq rows
      BY <1>1, <1>2, <1>3, <1>4 DEF LockInv, LocksTypeOK, OthersKeep
    <2> QED
      BY <2>1, <2>2 DEF LockInv, LocksTypeOK, End
  <1>6. \A d \in Consumers : Busy(d)' => job'[d] \in types \X Orders
    BY <1>2, <1>3, <1>4 DEF LockInv, OthersKeep
  <1> QED
    BY <1>2, <1>5, <1>3, <1>4, <1>6 DEF LockInv

-----------------------------------------------------------------------------
(* The payment handler. *)

PaymentStages == {"idle", "charging", "debited", "credited", "failed"}
PaymentLocks == LockInv({"InitiatePaymentCommand"}, PaymentStages, Accounts)

PaymentDone(o) == <<"InitiatePaymentCommand", o, 1>> \in paymentProcessed

(* How far a transaction is tells which rows it holds and whether the      *)
(* customer can pay: nobody else writes a row that it has locked.          *)
StageTellsPayment(c) ==
    /\ \A a \in Locked(c) : loaded[c][a] = balance[a]
    /\ stage[c] = "charging" => Locked(c) = {}
    /\ stage[c] = "debited" => CanPay(Order(c)) /\ Locked(c) = {Customer[Order(c)]}
    /\ stage[c] = "credited" =>
         CanPay(Order(c)) /\ Locked(c) = {Customer[Order(c)], Revenue}
    /\ stage[c] = "failed" =>
         ~CanPay(Order(c)) /\ Locked(c) = {Customer[Order(c)]} \cap Accounts

PaymentUnshared ==
    /\ \A c \in Consumers : Busy(c) /\ Order(c) \notin shared => ~PaymentDone(Order(c))
    /\ \A o \in Orders \ shared :
         ledger[o]["SUCCESS"] + ledger[o]["FAILED"] = IF PaymentDone(o) THEN 1 ELSE 0

PaymentTxInv ==
    /\ PaymentTypeOK
    /\ PaymentLocks
    /\ \A c \in Consumers : StageTellsPayment(c)
    /\ PaymentUnshared

(* A commit does what the atomic handler does. *)
LEMMA CapturedIsTransfer ==
  ASSUME PaymentTxInv, NEW c \in Consumers, CommitCaptured(c)
  PROVE  /\ Order(c) \in Orders /\ CanPay(Order(c)) /\ Transfer(Order(c))
         /\ Busy(c) /\ Locked(c) \subseteq Accounts
  <1> DEFINE o == Order(c)
             a == Customer[o]
  <1>1. stage[c] = "credited" /\ Busy(c) /\ StageTellsPayment(c)
    BY DEF PaymentTxInv, CommitCaptured, Busy
  <1>2. o \in Orders /\ CanPay(o) /\ Locked(c) = {a, Revenue}
    BY <1>1 DEF PaymentTxInv, PaymentLocks, LockInv, Order, StageTellsPayment
  <1>3. a \in Accounts /\ Revenue \in Accounts /\ Amount[o] \in Nat
    BY <1>2, PaymentAssumption DEF CanPay
  <1>4. loaded[c] \in [Locked(c) -> Int] /\ \A x \in Locked(c) : loaded[c][x] = balance[x]
    BY <1>1 DEF PaymentTxInv, PaymentLocks, LockInv, LocksTypeOK, StageTellsPayment
  <1>5. balance' = [x \in Accounts |-> IF x \in Locked(c) THEN WrittenBack(c)[x] ELSE balance[x]]
    BY DEF CommitCaptured
  <1>6. balance \in [Accounts -> Int]
    BY DEF PaymentTxInv, PaymentTypeOK
  <1>7. Transfer(o)
    <2> DEFINE debited == [balance EXCEPT ![a] = @ - Amount[o]]
               written == [loaded[c] EXCEPT ![a] = @ - Amount[o]]
    <2>1. \A x \in Locked(c) : written[x] = debited[x]
      BY <1>2, <1>3, <1>4, <1>6
    <2>2. \A x \in Locked(c) : WrittenBack(c)[x] = [debited EXCEPT ![Revenue] = @ + Amount[o]][x]
      <3>1. WrittenBack(c) = [written EXCEPT ![Revenue] = @ + Amount[o]]
        BY DEF WrittenBack
      <3>2. DOMAIN written = Locked(c) /\ DOMAIN debited = Accounts
        BY <1>4, <1>6
      <3> HIDE DEF written, debited
      <3> QED
        BY <1>2, <1>3, <2>1, <3>1, <3>2
    <2>3. balance' = [debited EXCEPT ![Revenue] = @ + Amount[o]]
      <3>1. \A x \in Accounts \ Locked(c) : [debited EXCEPT ![Revenue] = @ + Amount[o]][x] = balance[x]
        BY <1>2, <1>6
      <3> DEFINE total == [debited EXCEPT ![Revenue] = @ + Amount[o]]
      <3>2. total = [x \in Accounts |-> total[x]]
        BY <1>6
      <3> HIDE DEF total
      <3> QED
        BY <1>5, <2>2, <3>1, <3>2 DEF total
    <2> QED
      BY <2>3 DEF Transfer
  <1> QED
    BY <1>1, <1>2, <1>3, <1>7

LEMMA FailedCannotPay ==
  ASSUME PaymentTxInv, NEW c \in Consumers, CommitFailed(c)
  PROVE  Order(c) \in Orders /\ ~CanPay(Order(c)) /\ Busy(c)
  BY DEF PaymentTxInv, PaymentLocks, LockInv, CommitFailed, Busy, Order, StageTellsPayment

LEMMA PaymentCommitIsHandler ==
  ASSUME PaymentTxInv, NEW c \in Consumers, CommitsPayment(c), Order(c) \notin shared
  PROVE  HandleInitiatePaymentCommand(Order(c), 1)
  <1>1. Busy(c) /\ ~PaymentDone(Order(c))
    BY CapturedIsTransfer, FailedCannotPay DEF CommitsPayment, PaymentTxInv, PaymentUnshared
  <1>2. CASE CommitCaptured(c)
    BY <1>1, <1>2, CapturedIsTransfer
       DEF CommitCaptured, HandleInitiatePaymentCommand, PaymentDone
  <1>3. CASE CommitFailed(c)
    BY <1>1, <1>3, FailedCannotPay
       DEF CommitFailed, HandleInitiatePaymentCommand, PaymentDone
  <1> QED
    BY <1>2, <1>3 DEF CommitsPayment

(* A step of c does not disturb what another consumer has read. *)
LEMMA OtherPayments ==
  ASSUME PaymentTxInv, NEW c \in Consumers, OthersKeep(c),
         \A a \in Accounts \ Locked(c) : balance'[a] = balance[a],
         NEW d \in Consumers \ {c}
  PROVE  StageTellsPayment(d)'
  <1>1. job'[d] = job[d] /\ stage'[d] = stage[d] /\ loaded'[d] = loaded[d]
    BY DEF OthersKeep
  <1>2. Order(d)' = Order(d) /\ Locked(d)' = Locked(d)
    BY <1>1 DEF Order, Locked
  <1>3. Locked(d) \subseteq Accounts \ Locked(c)
    BY DEF PaymentTxInv, PaymentLocks, LockInv, LocksTypeOK
  <1>4. \A a \in Locked(d) : balance'[a] = balance[a]
    BY <1>3
  <1>5. Customer[Order(d)] \in Locked(d) \/ Customer[Order(d)] \notin Accounts =>
          (CanPay(Order(d))' <=> CanPay(Order(d)))
    BY <1>2, <1>4 DEF CanPay
  <1>6. StageTellsPayment(d)
    BY DEF PaymentTxInv
  <1> QED
    BY <1>1, <1>2, <1>4, <1>5, <1>6 DEF StageTellsPayment

(* A step that writes no table and begins no transaction. *)
LEMMA UnsharedKept ==
  ASSUME PaymentTxInv, NEW c \in Consumers, OthersKeep(c), UNCHANGED <<paymentVars, shared>>,
         Busy(c)' => Busy(c) /\ Order(c)' = Order(c)
  PROVE  PaymentUnshared'
  <1>1. UNCHANGED <<ledger, paymentProcessed>>
    BY DEF paymentVars
  <1>2. \A d \in Consumers : Busy(d)' => Busy(d) /\ Order(d)' = Order(d)
    BY DEF OthersKeep, Busy, Order
  <1> QED
    BY <1>1, <1>2 DEF PaymentTxInv, PaymentUnshared, PaymentDone

LEMMA BeginPaymentInv ==
  ASSUME PaymentTxInv, NEW c \in Consumers, NEW o \in Orders, BeginPayment(c, o)
  PROVE  PaymentTxInv'
  <1>1. UNCHANGED paymentVars /\ ~PaymentDone(o) /\ ~Busy(c)
    BY DEF BeginPayment, ReadsAccounts, PaymentDone, Begin
  <1>2. /\ PaymentLocks' /\ OthersKeep(c) /\ stage'[c] = "charging"
        /\ loaded'[c] = loaded[c] /\ job'[c] = <<"InitiatePaymentCommand", o>>
    BY BeginLocks DEF BeginPayment, PaymentTxInv, PaymentLocks, PaymentStages
  <1>3. Locked(c)' = {}
    BY <1>1, <1>2 DEF PaymentTxInv, PaymentLocks, LockInv, Locked
  <1>4. StageTellsPayment(c)'
    BY <1>2, <1>3 DEF StageTellsPayment
  <1>5. \A d \in Consumers \ {c} : StageTellsPayment(d)'
    BY <1>1, <1>2, OtherPayments DEF paymentVars
  <1>6. PaymentUnshared'
    <2>1. \A d \in Consumers \ {c} : (Busy(d)' <=> Busy(d)) /\ Order(d)' = Order(d)
      BY <1>2 DEF OthersKeep, Busy, Order
    <2>2. Order(c)' = o /\ shared \subseteq shared'
      BY <1>2 DEF Order, OthersKeep
    <2> QED
      BY <1>1, <2>1, <2>2 DEF PaymentTxInv, PaymentUnshared, PaymentDone, paymentVars
  <1> QED
    BY <1>1, <1>2, <1>4, <1>5, <1>6 DEF PaymentTxInv, PaymentTypeOK, paymentVars

LEMMA LockAccountInv ==
  ASSUME PaymentTxInv, NEW c \in Consumers, LockAccount(c)
  PROVE  PaymentTxInv'
  <1> DEFINE o == Order(c)
             a == Customer[o]
  <1>1. UNCHANGED paymentVars /\ Busy(c) /\ StageTellsPayment(c) /\ o \in Orders
    <2>1. UNCHANGED paymentVars /\ Busy(c)
      BY DEF LockAccount, LockCustomer, LockRevenue, ReadsAccounts, Busy
    <2> QED
      BY <2>1 DEF PaymentTxInv, PaymentLocks, LockInv, Order
  <1>2. balance' = balance /\ balance \in [Accounts -> Int]
    BY <1>1 DEF paymentVars, PaymentTxInv, PaymentTypeOK
  <1>3. SUFFICES /\ PaymentLocks' /\ OthersKeep(c) /\ shared' = shared /\ job' = job
                 /\ StageTellsPayment(c)'
    <2>1. Order(c)' = Order(c)
      BY <1>3 DEF Order
    <2>2. PaymentUnshared'
      BY <1>1, <1>3, <2>1, UnsharedKept
    <2>3. \A d \in Consumers \ {c} : StageTellsPayment(d)'
      BY <1>2, <1>3, OtherPayments
    <2>4. PaymentTypeOK'
      BY <1>1 DEF PaymentTxInv, PaymentTypeOK, paymentVars
    <2> QED
      BY <1>3, <2>2, <2>3, <2>4 DEF PaymentTxInv
  <1>4. CASE stage[c] = "charging" /\ a \notin Accounts /\ GoTo(c, "failed")
    <2>1. /\ PaymentLocks' /\ OthersKeep(c) /\ shared' = shared /\ job' = job
          /\ stage'[c] = "failed" /\ loaded' = loaded
      BY <1>1, <1>4, GoToLocks DEF PaymentTxInv, PaymentLocks, PaymentStages
    <2>2. Order(c)' = o /\ Locked(c)' = {}
      BY <1>1, <1>4, <2>1 DEF Order, Locked, StageTellsPayment
    <2>3. StageTellsPayment(c)'
      BY <1>4, <2>1, <2>2 DEF StageTellsPayment, CanPay
    <2> QED
      BY <2>1, <2>3
  <1>5. CASE /\ stage[c] = "charging" /\ a \in Accounts
             /\ LockRow(c, a, balance[a], IF CanPay(o) THEN "debited" ELSE "failed")
    <2>1. /\ PaymentLocks' /\ OthersKeep(c) /\ shared' = shared /\ job' = job
          /\ stage'[c] = IF CanPay(o) THEN "debited" ELSE "failed"
          /\ Locked(c)' = Locked(c) \cup {a} /\ loaded'[c][a] = balance[a]
      <3> DEFINE s == IF CanPay(o) THEN "debited" ELSE "failed"
      <3>1. s \in PaymentStages \ {"idle"} /\ balance[a] \in Int
        BY <1>2, <1>5 DEF PaymentStages
      <3>2. LockRow(c, a, balance[a], s)
        BY <1>5
      <3> HIDE DEF s
      <3>3. /\ PaymentLocks' /\ OthersKeep(c) /\ shared' = shared /\ job' = job
            /\ stage'[c] = s
            /\ Locked(c)' = Locked(c) \cup {a} /\ loaded'[c][a] = balance[a]
        BY <1>1, <1>5, <3>1, <3>2, LockRowLocks DEF PaymentTxInv, PaymentLocks
      <3> QED
        BY <3>3 DEF s
    <2>2. Locked(c)' = {a} /\ Order(c)' = o
      BY <1>1, <1>5, <2>1 DEF Order, StageTellsPayment
    <2>3. CanPay(o)' <=> CanPay(o)
      BY <1>2, <2>2 DEF CanPay
    <2>4. StageTellsPayment(c)'
      BY <1>2, <1>5, <2>1, <2>2, <2>3 DEF StageTellsPayment
    <2> QED
      BY <2>1, <2>4
  <1>6. CASE LockRevenue(c)
    <2>1. stage[c] = "debited" /\ LockRow(c, Revenue, balance[Revenue], "credited")
      BY <1>6 DEF LockRevenue
    <2>2. Revenue \in Accounts /\ balance[Revenue] \in Int
      BY <1>2, PaymentAssumption
    <2>3. /\ PaymentLocks' /\ OthersKeep(c) /\ shared' = shared /\ job' = job
          /\ stage'[c] = "credited"
          /\ Locked(c)' = Locked(c) \cup {Revenue} /\ loaded'[c][Revenue] = balance[Revenue]
          /\ \A x \in Locked(c) \ {Revenue} : loaded'[c][x] = loaded[c][x]
      BY <1>1, <2>1, <2>2, LockRowLocks DEF PaymentTxInv, PaymentLocks, PaymentStages
    <2>4. Order(c)' = o /\ (CanPay(o)' <=> CanPay(o))
      BY <1>2, <2>3 DEF Order, CanPay
    <2>5. StageTellsPayment(c)'
      BY <1>1, <1>2, <2>1, <2>3, <2>4 DEF StageTellsPayment
    <2> QED
      BY <2>3, <2>5
  <1> QED
    BY <1>4, <1>5, <1>6 DEF LockAccount, LockCustomer

LEMMA EndPaymentInv ==
  ASSUME PaymentTxInv, NEW c \in Consumers, End(c), PaymentTypeOK', PaymentUnshared',
         \A a \in Accounts \ Locked(c) : balance'[a] = balance[a]
  PROVE  PaymentTxInv'
  <1>1. /\ PaymentLocks' /\ OthersKeep(c) /\ stage'[c] = "idle" /\ Locked(c)' = {}
    BY EndLocks DEF PaymentTxInv, PaymentLocks, PaymentStages
  <1>2. StageTellsPayment(c)'
    BY <1>1 DEF StageTellsPayment
  <1> QED
    BY <1>1, <1>2, OtherPayments DEF PaymentTxInv

LEMMA CommitPaymentInv ==
  ASSUME PaymentTxInv, NEW c \in Consumers, CommitsPayment(c)
  PROVE  PaymentTxInv'
  <1> DEFINE o == Order(c)
  <1>1. o \in Orders /\ Busy(c) /\ End(c) /\ RecordPaid(o, 1)
    BY CapturedIsTransfer, FailedCannotPay DEF CommitsPayment, CommitCaptured, CommitFailed
  <1>2. PICK s \in {"SUCCESS", "FAILED"}, e \in PaymentEventTypes : RecordTransaction(o, s, e)
    BY DEF CommitsPayment, CommitCaptured, CommitFailed, RecordFailedPayment, PaymentEventTypes
  <1>3. /\ balance' \in [Accounts -> Int]
        /\ \A a \in Accounts \ Locked(c) : balance'[a] = balance[a]
    <2>1. CASE CommitCaptured(c)
      <3>1. Transfer(o) /\ Amount[o] \in Nat /\ balance \in [Accounts -> Int]
        BY <1>1, <2>1, CapturedIsTransfer, PaymentAssumption DEF PaymentTxInv, PaymentTypeOK
      <3> QED
        BY <2>1, <3>1 DEF Transfer, CommitCaptured
    <2>2. CASE CommitFailed(c)
      BY <2>2 DEF CommitFailed, RecordFailedPayment, PaymentTxInv, PaymentTypeOK
    <2> QED
      BY <2>1, <2>2 DEF CommitsPayment
  <1>4. PaymentTypeOK'
    BY <1>1, <1>2, <1>3 DEF PaymentTxInv, PaymentTypeOK, RecordTransaction, RecordPaid
  <1>5. PaymentUnshared'
    <2>1. /\ shared' = shared
          /\ \A d \in Consumers \ {c} : (Busy(d)' <=> Busy(d)) /\ Order(d)' = Order(d)
          /\ ~Busy(c)'
      BY <1>1, EndLocks DEF PaymentTxInv, PaymentLocks, PaymentStages, OthersKeep, Busy, Order
    <2>2. \A q \in Orders : PaymentDone(q)' <=> PaymentDone(q) \/ q = o
      BY <1>1 DEF PaymentDone, RecordPaid
    <2>3. \A d \in Consumers \ {c} : Busy(d) /\ Order(d) \notin shared => Order(d) # o
      BY <1>1 DEF PaymentTxInv, PaymentLocks, LockInv
    <2>4. o \notin shared => ~PaymentDone(o)
      BY <1>1 DEF PaymentTxInv, PaymentUnshared
    <2>5. /\ \A q \in Orders \ {o} : ledger'[q] = ledger[q]
          /\ ledger'[o]["SUCCESS"] + ledger'[o]["FAILED"]
               = ledger[o]["SUCCESS"] + ledger[o]["FAILED"] + 1
          /\ ledger[o]["SUCCESS"] \in Nat /\ ledger[o]["FAILED"] \in Nat
      <3>1. /\ ledger[o]["SUCCESS"] \in Nat /\ ledger[o]["FAILED"] \in Nat
            /\ ledger' = [ledger EXCEPT ![o][s] = @ + 1]
        BY <1>1, <1>2 DEF RecordTransaction, PaymentTxInv, PaymentTypeOK
      <3> QED
        BY <1>1, <3>1 DEF PaymentTxInv, PaymentTypeOK
    <2>6. \A d \in Consumers : Busy(d)' => d # c /\ Busy(d) /\ Order(d)' = Order(d) /\ Order(d) \in Orders
      BY <2>1 DEF PaymentTxInv, PaymentLocks, LockInv, Order
    <2>7. \A d \in Consumers : (Busy(d) /\ Order(d) \notin shared => ~PaymentDone(Order(d)))'
      <3> SUFFICES ASSUME NEW d \in Consumers, Busy(d)', Order(d)' \notin shared'
                   PROVE  ~PaymentDone(Order(d))'
        OBVIOUS
      <3>1. ~PaymentDone(Order(d)) /\ Order(d) # o /\ Order(d) \in Orders /\ Order(d)' = Order(d)
        BY <2>1, <2>3, <2>6 DEF PaymentTxInv, PaymentUnshared
      <3> QED
        BY <1>1, <3>1 DEF PaymentDone, RecordPaid
    <2>8. \A q \in Orders \ shared' :
            ledger'[q]["SUCCESS"] + ledger'[q]["FAILED"] = IF PaymentDone(q)' THEN 1 ELSE 0
      BY <1>1, <2>1, <2>2, <2>4, <2>5 DEF PaymentTxInv, PaymentUnshared
    <2> QED
      BY <2>7, <2>8 DEF PaymentUnshared, PaymentDone
  <1> QED
    BY <1>1, <1>3, <1>4, <1>5, EndPaymentInv

LEMMA PaymentTxInvNext == PaymentTxInv /\ [PaymentTxNext]_paymentTxVars => PaymentTxInv'
  <1> SUFFICES ASSUME PaymentTxInv, [PaymentTxNext]_paymentTxVars PROVE PaymentTxInv'
    OBVIOUS
  <1>1. ASSUME NEW c \in Consumers, RollBackPayment(c) PROVE PaymentTxInv'
    <2>1. End(c) /\ UNCHANGED paymentVars
      BY <1>1 DEF RollBackPayment
    <2>2. OthersKeep(c) /\ stage'[c] = "idle" /\ shared' = shared
      BY <2>1, EndLocks DEF PaymentTxInv, PaymentLocks, PaymentStages
    <2>3. PaymentUnshared'
      BY <2>1, <2>2, UnsharedKept DEF Busy
    <2> QED
      BY <2>1, <2>3, EndPaymentInv DEF PaymentTxInv, PaymentTypeOK, paymentVars
  <1>2. CASE UNCHANGED paymentTxVars
    BY <1>2 DEF paymentTxVars, paymentVars, lockVars, PaymentTxInv, PaymentTypeOK, PaymentLocks,
                LockInv, LocksTypeOK, Busy, Locked, Order, StageTellsPayment, CanPay,
                PaymentUnshared, PaymentDone
  <1> QED
    BY <1>1, <1>2, BeginPaymentInv, LockAccountInv, CommitPaymentInv DEF PaymentTxNext

LEMMA PaymentTxInvInit == PaymentTxInit => PaymentTxInv
  <1> SUFFICES ASSUME PaymentTxInit PROVE PaymentTxInv
    OBVIOUS
  <1>1. PaymentTypeOK
    BY PaymentAssumption DEF PaymentTxInit, PaymentInit, PaymentTypeOK
  <1>2. PaymentLocks
    BY LocksStart DEF PaymentTxInit, PaymentLocks, PaymentStages
  <1>3. \A c \in Consumers : ~Busy(c) /\ Locked(c) = {} /\ stage[c] = "idle"
    BY <1>2 DEF PaymentTxInit, LocksInit, Busy, PaymentLocks, LockInv
  <1>4. PaymentUnshared
    BY <1>3 DEF PaymentUnshared, PaymentDone, PaymentTxInit, PaymentInit
  <1> QED
    BY <1>1, <1>2, <1>3, <1>4 DEF PaymentTxInv, StageTellsPayment

LEMMA PaymentTxInvCorrect == PaymentTxSpec => []PaymentTxInv
  BY PaymentTxInvInit, PaymentTxInvNext, PTL DEF PaymentTxSpec

(* Whoever holds a row, the tables have their types in every interleaving. *)
THEOREM PaymentTypes == PaymentTxSpec => []PaymentTxTypeOK
  <1>1. PaymentTxInv => PaymentTxTypeOK
    BY DEF PaymentTxInv, PaymentLocks, PaymentStages, LockInv, PaymentTxTypeOK
  <1> QED
    BY <1>1, PaymentTxInvCorrect, PTL

(* The composed saga may take handleInitiatePaymentCommand for one atomic  *)
(* step: that is what every commit is, for any number of consumers, unless *)
(* two of them share the order.                                            *)
THEOREM PaymentsCommitAtomically == PaymentTxSpec => PaymentsAreAtomic
  <1>1. PaymentTxInv /\ [PaymentTxNext]_paymentTxVars =>
          [\A c \in Consumers : CommitsPayment(c) /\ Order(c) \notin shared =>
             HandleInitiatePaymentCommand(Order(c), 1)]_paymentTxVars
    BY PaymentCommitIsHandler
  <1> QED
    BY <1>1, PaymentTxInvCorrect, PTL DEF PaymentTxSpec, PaymentsAreAtomic

(* A command is charged once, however often it is delivered, rolled back   *)
(* and tried again: existsById and the account's lock together stop all    *)
(* but two handlers that are in it at once (PaymentProcessingService.java: *)
(* 32-45).                                                                 *)
THEOREM ChargedOnceByHandler == PaymentTxSpec => []OneChargeUnlessShared
  <1>1. PaymentTxInv => OneChargeUnlessShared
    BY DEF PaymentTxInv, PaymentUnshared, OneChargeUnlessShared
  <1> QED
    BY <1>1, PaymentTxInvCorrect, PTL

(* Any number of payments, of any customers, never wait in a cycle: who    *)
(* waits for a customer's account holds no row, and who holds one waits    *)
(* for system_revenue only.                                                *)
THEOREM PaymentsNeverDeadlock == PaymentTxSpec => []NoLockCycle
  <1>1. ASSUME PaymentTxInv PROVE NoLockCycle
    <2> SUFFICES ASSUME NEW c \in Consumers, NEW S \in SUBSET Consumers, c \in S,
                        \A d \in S : \E e \in S \ {d} : PaymentWants(d) \cap Locked(e) # {}
                 PROVE  FALSE
      <3> DEFINE wants == [d \in Consumers |-> PaymentWants(d)]
      <3>1. \A d \in Consumers : wants[d] = PaymentWants(d)
        OBVIOUS
      <3>2. NoLockCycle <=> \A c \in Consumers : ~Deadlocked(c, wants)
        BY DEF NoLockCycle
      <3> HIDE DEF wants
      <3>3. SUFFICES ASSUME NEW c \in Consumers, Deadlocked(c, wants) PROVE FALSE
        BY <3>2
      <3>4. PICK S \in SUBSET Consumers :
              c \in S /\ \A d \in S : \E e \in S \ {d} : wants[d] \cap Locked(e) # {}
        BY <3>3 DEF Deadlocked
      <3>5. \A d \in S : \E e \in S \ {d} : PaymentWants(d) \cap Locked(e) # {}
        BY <3>1, <3>4
      <3> QED
        BY <3>4, <3>5
    <2>1. \A d \in S : stage[d] \in {"charging", "debited"}
      BY DEF PaymentWants
    <2>2. \A d \in S : Locked(d) # {} => PaymentWants(d) = {Revenue} \ Locked(d)
      BY <1>1, <2>1 DEF PaymentTxInv, StageTellsPayment, PaymentWants
    <2>3. PICK d \in S : PaymentWants(c) \cap Locked(d) # {}
      OBVIOUS
    <2>4. PICK e \in S : PaymentWants(d) \cap Locked(e) # {}
      BY <2>3
    <2>5. Revenue \in Locked(e)
      BY <2>2, <2>3, <2>4
    <2>6. PaymentWants(e) = {}
      BY <2>2, <2>5
    <2> QED
      BY <2>6
  <1> QED
    BY <1>1, PaymentTxInvCorrect, PTL

LEMMA PaymentTxMoney ==
  ASSUME PaymentTxInv, [PaymentTxNext]_paymentTxVars
  PROVE  \/ UNCHANGED <<balance, ledger>>
         \/ \E o \in Orders : RecordFailedPayment(o)
         \/ \E o \in Orders : /\ CanPay(o) /\ Transfer(o)
                              /\ RecordTransaction(o, "SUCCESS", "PaymentCapturedEvent")
  <1>1. ASSUME NEW c \in Consumers, CommitCaptured(c)
        PROVE  \E o \in Orders : /\ CanPay(o) /\ Transfer(o)
                                 /\ RecordTransaction(o, "SUCCESS", "PaymentCapturedEvent")
    BY <1>1, CapturedIsTransfer DEF CommitCaptured
  <1>2. ASSUME NEW c \in Consumers, CommitFailed(c)
        PROVE  \E o \in Orders : RecordFailedPayment(o)
    BY <1>2, FailedCannotPay DEF CommitFailed
  <1>3. ASSUME \/ \E c \in Consumers :
                    \/ \E o \in Orders : BeginPayment(c, o)
                    \/ LockAccount(c) \/ RollBackPayment(c)
               \/ UNCHANGED paymentTxVars
        PROVE  UNCHANGED <<balance, ledger>>
    BY <1>3 DEF BeginPayment, LockAccount, LockCustomer, LockRevenue, RollBackPayment,
                ReadsAccounts, paymentTxVars, paymentVars
  <1> QED
    BY <1>1, <1>2, <1>3 DEF PaymentTxNext, CommitsPayment

(* The debit uses the balance that was checked under the account's lock,   *)
(* also when consumers share an order.                                     *)
THEOREM NeverOverdrawnByHandler == PaymentTxSpec => []NoOverdraft
  <1>1. PaymentTxInit => NoOverdraft
    BY PaymentAssumption DEF PaymentTxInit, PaymentInit, NoOverdraft
  <1>2. ASSUME PaymentTxInv, NoOverdraft, [PaymentTxNext]_paymentTxVars PROVE NoOverdraft'
    <2>1. CASE balance' = balance
      BY <1>2, <2>1 DEF NoOverdraft
    <2>2. ASSUME NEW o \in Orders, CanPay(o), Transfer(o) PROVE NoOverdraft'
      BY <1>2, <2>2, TransferNoOverdraft DEF PaymentTxInv
    <2> QED
      BY <1>2, <2>1, <2>2, PaymentTxMoney DEF RecordFailedPayment
  <1> QED
    BY <1>1, <1>2, PaymentTxInvCorrect, PTL DEF PaymentTxSpec

(* No money is lost or made by interleaved payments, shared orders         *)
(* included: a second charge is a second ledger transaction.               *)
THEOREM MoneyExplainedByHandler == PaymentTxSpec => []LedgerExplainsBalances
  <1>1. PaymentTxInit => LedgerExplainsBalances
    BY InitExplained DEF PaymentTxInit
  <1>2. ASSUME PaymentTxInv, LedgerExplainsBalances, [PaymentTxNext]_paymentTxVars
        PROVE  LedgerExplainsBalances'
    <2>1. PaymentTypeOK
      BY <1>2 DEF PaymentTxInv
    <2>2. ASSUME NEW o \in Orders, CanPay(o), Transfer(o),
                 RecordTransaction(o, "SUCCESS", "PaymentCapturedEvent")
          PROVE  LedgerExplainsBalances'
      BY <1>2, <2>1, <2>2, CaptureExplained DEF CanPay
    <2> QED
      BY <1>2, <2>1, <2>2, PaymentTxMoney, FailureExplained
  <1> QED
    BY <1>1, <1>2, PaymentTxInvCorrect, PTL DEF PaymentTxSpec

-----------------------------------------------------------------------------
(* The inventory's handlers. *)

InventoryStages == {"idle", "checked", "locking", "outOfStock", "tombstone"}
InventoryLocks == LockInv(InventoryCommands, InventoryStages, Products)

ReserveDone(o) == <<"ReserveInventoryCommand", o, 1>> \in inventoryProcessed
ReleaseDone(o) == <<"ReleaseInventoryCommand", o, 1>> \in inventoryProcessed

Reserving(c) == Handles(c, "ReserveInventoryCommand")
Releasing(c) == Handles(c, "ReleaseInventoryCommand")

(* A line that cannot be served, as its consumer knows. *)
Refused(c, i) ==
    \/ Items[Order(c)][i].product \notin Products
    \/ Items[Order(c)][i].product \in Locked(c) /\ ~LineAvailable(Order(c), i)

(* How far a transaction is tells what it has found in the rows it locked. *)
StageTellsInventory(c) ==
    /\ \A p \in Locked(c) : loaded[c][p] = reservedStock[p]
    /\ stage[c] = "checked" => Locked(c) = {}
    /\ stage[c] = "locking" /\ Reserving(c) => \A p \in Locked(c) : Available(Order(c), p)
    /\ stage[c] = "outOfStock" =>
         Reserving(c) /\ \E i \in DOMAIN Items[Order(c)] : Refused(c, i)
    /\ stage[c] = "tombstone" => Releasing(c)

(* Rows that were read without a lock may be old, but rows do not vanish   *)
(* and a released one is not reserved again.                               *)
SeenIsOld(c) ==
    stage[c] = "locking" /\ Releasing(c) =>
        /\ seen[c]["RESERVED"] + seen[c]["RELEASED"] > 0
        /\ seen[c]["RELEASED"] <= reservations[Order(c)]["RELEASED"]
        /\ seen[c]["RESERVED"] + seen[c]["RELEASED"]
             <= reservations[Order(c)]["RESERVED"] + reservations[Order(c)]["RELEASED"]

(* What a consumer has found out about an order that it does not share     *)
(* still holds.                                                            *)
StillTrue(c) ==
    Busy(c) /\ Order(c) \notin shared =>
        /\ <<job[c][1], Order(c), 1>> \notin inventoryProcessed
        /\ Reserving(c) /\ stage[c] \in {"locking", "outOfStock"} => Order(c) \notin tombstones
        /\ Releasing(c) /\ stage[c] = "locking" => seen[c] = reservations[Order(c)]
        /\ stage[c] = "tombstone" => ~HasReservationRows(Order(c))

(* The rows of an order that nobody shared follow from its commands. *)
RowsFollowCommands(o) ==
    o \notin shared =>
        /\ HasReservationRows(o) => ReserveDone(o)
        /\ ReleaseDone(o) => ~Held(o) /\ (o \in tombstones \/ ReserveDone(o))

(* What was reserved is in the catalogue. *)
ReservedFromCatalogue(o) ==
    HasReservationRows(o) => \A i \in DOMAIN Items[o] : Items[o][i].product \in Products

InventoryTxInv ==
    /\ InventoryTypeOK
    /\ seen \in [Consumers -> [{"RESERVED", "RELEASED"} -> Nat]]
    /\ InventoryLocks
    /\ \A c \in Consumers : StageTellsInventory(c) /\ SeenIsOld(c) /\ StillTrue(c)
    /\ \A o \in Orders : RowsFollowCommands(o) /\ ReservedFromCatalogue(o)

LEMMA JobFacts ==
  ASSUME InventoryTxInv, NEW c \in Consumers, Busy(c)
  PROVE  /\ Order(c) \in Orders /\ job[c][1] \in InventoryCommands
         /\ Reserving(c) <=> job[c][1] = "ReserveInventoryCommand"
         /\ Releasing(c) <=> job[c][1] = "ReleaseInventoryCommand"
         /\ Reserving(c) \/ Releasing(c)
  BY DEF InventoryTxInv, InventoryLocks, LockInv, Order, Reserving, Releasing, Handles,
         InventoryCommands

(* The rows of the tables about order o. *)
RowsKept(o) ==
    /\ reservations'[o] = reservations[o]
    /\ o \in tombstones' <=> o \in tombstones
    /\ \A t \in InventoryCommands :
         <<t, o, 1>> \in inventoryProcessed' <=> <<t, o, 1>> \in inventoryProcessed

(* A step of c does not disturb what another consumer has found out. *)
LEMMA OtherInventory ==
  ASSUME InventoryTxInv, NEW c \in Consumers, OthersKeep(c),
         \A p \in Products \ Locked(c) : reservedStock'[p] = reservedStock[p],
         NEW d \in Consumers \ {c}
  PROVE  StageTellsInventory(d)'
  <1>1. job'[d] = job[d] /\ stage'[d] = stage[d] /\ loaded'[d] = loaded[d]
    BY DEF OthersKeep
  <1>2. /\ Order(d)' = Order(d) /\ Locked(d)' = Locked(d)
        /\ (Reserving(d)' <=> Reserving(d)) /\ (Releasing(d)' <=> Releasing(d))
    BY <1>1 DEF Order, Locked, Reserving, Releasing, Handles
  <1>3. Locked(d) \subseteq Products \ Locked(c)
    BY DEF InventoryTxInv, InventoryLocks, LockInv, LocksTypeOK
  <1>4. \A p \in Locked(d) : reservedStock'[p] = reservedStock[p]
    BY <1>3
  <1>5. \A i : Items[Order(d)][i].product \in Locked(d) =>
                 (LineAvailable(Order(d), i)' <=> LineAvailable(Order(d), i))
    BY <1>2, <1>4 DEF LineAvailable
  <1>6. \A p \in Locked(d) : Available(Order(d), p)' <=> Available(Order(d), p)
    BY <1>2, <1>5 DEF Available
  <1>7. \A i : Refused(d, i) => Refused(d, i)'
    BY <1>2, <1>5 DEF Refused
  <1>8. StageTellsInventory(d)
    BY DEF InventoryTxInv
  <1> QED
    BY <1>1, <1>2, <1>4, <1>6, <1>7, <1>8 DEF StageTellsInventory

LEMMA OtherRows ==
  ASSUME InventoryTxInv, NEW c \in Consumers, OthersKeep(c), NEW d \in Consumers \ {c},
         seen'[d] = seen[d],
         \A o \in Orders : o # Order(c) \/ ~Busy(c) => RowsKept(o),
         \A o \in Orders :
           /\ reservations[o]["RELEASED"] <= reservations'[o]["RELEASED"]
           /\ reservations[o]["RESERVED"] + reservations[o]["RELEASED"]
                <= reservations'[o]["RESERVED"] + reservations'[o]["RELEASED"],
         reservations' \in [Orders -> [{"RESERVED", "RELEASED"} -> Nat]]
  PROVE  SeenIsOld(d)' /\ StillTrue(d)'
  <1>1. job'[d] = job[d] /\ stage'[d] = stage[d] /\ shared \subseteq shared'
    BY DEF OthersKeep
  <1>2. /\ Order(d)' = Order(d) /\ (Busy(d)' <=> Busy(d))
        /\ (Reserving(d)' <=> Reserving(d)) /\ (Releasing(d)' <=> Releasing(d))
    BY <1>1 DEF Order, Busy, Reserving, Releasing, Handles
  <1>3. SeenIsOld(d) /\ StillTrue(d)
    BY DEF InventoryTxInv
  <1>4. SeenIsOld(d)'
    <2> SUFFICES ASSUME stage[d] = "locking", Releasing(d)
                 PROVE  (/\ seen[d]["RESERVED"] + seen[d]["RELEASED"] > 0
                         /\ seen[d]["RELEASED"] <= reservations[Order(d)]["RELEASED"]
                         /\ seen[d]["RESERVED"] + seen[d]["RELEASED"]
                              <= reservations[Order(d)]["RESERVED"]
                                 + reservations[Order(d)]["RELEASED"])'
      BY <1>1, <1>2 DEF SeenIsOld
    <2> DEFINE o == Order(d)
    <2>1. Busy(d) /\ o \in Orders
      <3>1. Busy(d)
        BY DEF Busy
      <3> QED
        BY <3>1, JobFacts
    <2>2. /\ seen[d]["RESERVED"] + seen[d]["RELEASED"] > 0
          /\ seen[d]["RELEASED"] <= reservations[o]["RELEASED"]
          /\ seen[d]["RESERVED"] + seen[d]["RELEASED"]
               <= reservations[o]["RESERVED"] + reservations[o]["RELEASED"]
      BY <1>3 DEF SeenIsOld
    <2>3. /\ reservations[o]["RESERVED"] \in Nat /\ reservations[o]["RELEASED"] \in Nat
          /\ reservations'[o]["RESERVED"] \in Nat /\ reservations'[o]["RELEASED"] \in Nat
          /\ seen[d]["RESERVED"] \in Nat /\ seen[d]["RELEASED"] \in Nat
      BY <2>1 DEF InventoryTxInv, InventoryTypeOK
    <2>4. /\ reservations[o]["RELEASED"] <= reservations'[o]["RELEASED"]
          /\ reservations[o]["RESERVED"] + reservations[o]["RELEASED"]
               <= reservations'[o]["RESERVED"] + reservations'[o]["RELEASED"]
      BY <2>1
    <2>5. /\ seen[d]["RELEASED"] <= reservations'[o]["RELEASED"]
          /\ seen[d]["RESERVED"] + seen[d]["RELEASED"]
               <= reservations'[o]["RESERVED"] + reservations'[o]["RELEASED"]
      BY <2>2, <2>3, <2>4
    <2> QED
      BY <1>2, <2>2, <2>5
  <1>5. StillTrue(d)'
    <2> SUFFICES ASSUME Busy(d), Order(d) \notin shared PROVE StillTrue(d)'
      BY <1>1, <1>2 DEF StillTrue
    <2>1. Order(d) \in Orders /\ job[d][1] \in InventoryCommands
      BY JobFacts
    <2>2. Order(d) # Order(c) \/ ~Busy(c)
      BY DEF InventoryTxInv, InventoryLocks, LockInv
    <2>3. RowsKept(Order(d))
      BY <2>1, <2>2
    <2>4. HasReservationRows(Order(d))' <=> HasReservationRows(Order(d))
      BY <1>2, <2>3 DEF RowsKept, HasReservationRows
    <2> QED
      BY <1>1, <1>2, <1>3, <2>1, <2>3, <2>4 DEF StillTrue, RowsKept
  <1> QED
    BY <1>4, <1>5

(* A step that writes no table. *)
LEMMA ReadingInv ==
  ASSUME InventoryTxInv, NEW c \in Consumers, UNCHANGED inventoryVars,
         InventoryLocks', OthersKeep(c),
         seen' \in [Consumers -> [{"RESERVED", "RELEASED"} -> Nat]],
         \A d \in Consumers \ {c} : seen'[d] = seen[d],
         StageTellsInventory(c)', SeenIsOld(c)', StillTrue(c)'
  PROVE  InventoryTxInv'
  <1>1. UNCHANGED <<reservedStock, reservations, tombstones, inventoryProcessed>>
    BY DEF inventoryVars
  <1>2. InventoryTypeOK'
    BY DEF inventoryVars, InventoryTxInv, InventoryTypeOK
  <1>3. \A d \in Consumers \ {c} : StageTellsInventory(d)'
    BY <1>1, OtherInventory
  <1>4. \A o \in Orders : RowsKept(o)
    BY <1>1 DEF RowsKept
  <1>5. \A o \in Orders :
           /\ reservations[o]["RELEASED"] <= reservations'[o]["RELEASED"]
           /\ reservations[o]["RESERVED"] + reservations[o]["RELEASED"]
                <= reservations'[o]["RESERVED"] + reservations'[o]["RELEASED"]
    BY <1>1 DEF InventoryTxInv, InventoryTypeOK
  <1>6. reservations' \in [Orders -> [{"RESERVED", "RELEASED"} -> Nat]]
    BY <1>2 DEF InventoryTypeOK
  <1>7. \A d \in Consumers \ {c} : SeenIsOld(d)' /\ StillTrue(d)'
    BY <1>4, <1>5, <1>6, OtherRows
  <1>8. \A o \in Orders : RowsFollowCommands(o)' /\ ReservedFromCatalogue(o)'
    BY <1>1 DEF InventoryTxInv, RowsFollowCommands, ReservedFromCatalogue, OthersKeep,
                HasReservationRows, ReserveDone, ReleaseDone, Held
  <1> QED
    BY <1>2, <1>3, <1>7, <1>8 DEF InventoryTxInv

(* What the end of c's transaction does to the tables, as far as the       *)
(* invariant cares: only rows about its order o are written, no row of o   *)
(* is lost, and those of o still follow from its commands.                 *)
EndsWith(c, o) ==
    /\ End(c) /\ seen' = [seen EXCEPT ![c] = NoneSeen]
    /\ InventoryTypeOK'
    /\ \A p \in Products \ Locked(c) : reservedStock'[p] = reservedStock[p]
    /\ \A q \in Orders \ {o} : RowsKept(q)
    /\ reservations[o]["RELEASED"] <= reservations'[o]["RELEASED"]
    /\ reservations[o]["RESERVED"] + reservations[o]["RELEASED"]
         <= reservations'[o]["RESERVED"] + reservations'[o]["RELEASED"]
    /\ RowsFollowCommands(o)' /\ ReservedFromCatalogue(o)'

LEMMA EndingInv ==
  ASSUME InventoryTxInv, NEW c \in Consumers, NEW o \in Orders, o = Order(c), EndsWith(c, o)
  PROVE  InventoryTxInv'
  <1> USE DEF EndsWith
  <1>1. Busy(c)
    BY DEF End
  <1>2. /\ InventoryLocks' /\ OthersKeep(c) /\ stage'[c] = "idle"
        /\ Locked(c)' = {} /\ shared' = shared
    BY EndLocks DEF InventoryTxInv, InventoryLocks, InventoryStages
  <1>3. StageTellsInventory(c)' /\ SeenIsOld(c)' /\ StillTrue(c)'
    BY <1>2 DEF StageTellsInventory, SeenIsOld, StillTrue, Busy
  <1>4. /\ seen' \in [Consumers -> [{"RESERVED", "RELEASED"} -> Nat]]
        /\ \A d \in Consumers \ {c} : seen'[d] = seen[d]
    BY DEF InventoryTxInv, NoneSeen
  <1>5. \A q \in Orders :
           /\ reservations[q]["RELEASED"] <= reservations'[q]["RELEASED"]
           /\ reservations[q]["RESERVED"] + reservations[q]["RELEASED"]
                <= reservations'[q]["RESERVED"] + reservations'[q]["RELEASED"]
    <2> SUFFICES ASSUME NEW q \in Orders, q # o
                 PROVE  /\ reservations[q]["RELEASED"] <= reservations'[q]["RELEASED"]
                        /\ reservations[q]["RESERVED"] + reservations[q]["RELEASED"]
                             <= reservations'[q]["RESERVED"] + reservations'[q]["RELEASED"]
      OBVIOUS
    <2>1. reservations'[q] = reservations[q]
      BY DEF RowsKept
    <2>2. reservations[q]["RELEASED"] \in Nat /\ reservations[q]["RESERVED"] \in Nat
      BY DEF InventoryTxInv, InventoryTypeOK
    <2> QED
      BY <2>1, <2>2
  <1>6. reservations' \in [Orders -> [{"RESERVED", "RELEASED"} -> Nat]]
    BY DEF InventoryTypeOK
  <1>7. \A d \in Consumers \ {c} : SeenIsOld(d)' /\ StillTrue(d)'
    BY <1>1, <1>2, <1>4, <1>5, <1>6, OtherRows
  <1>8. \A d \in Consumers \ {c} : StageTellsInventory(d)'
    BY <1>2, OtherInventory
  <1>9. ASSUME NEW q \in Orders, q # o
        PROVE  RowsFollowCommands(q)' /\ ReservedFromCatalogue(q)'
    <2>1. RowsKept(q) /\ RowsFollowCommands(q) /\ ReservedFromCatalogue(q)
      BY <1>9 DEF InventoryTxInv
    <2>2. /\ HasReservationRows(q)' <=> HasReservationRows(q)
          /\ Held(q)' <=> Held(q)
          /\ ReserveDone(q)' <=> ReserveDone(q)
          /\ ReleaseDone(q)' <=> ReleaseDone(q)
      BY <2>1 DEF RowsKept, HasReservationRows, Held, ReserveDone, ReleaseDone, InventoryCommands
    <2> QED
      BY <1>2, <2>1, <2>2 DEF RowsFollowCommands, ReservedFromCatalogue, RowsKept
  <1> QED
    BY <1>2, <1>3, <1>4, <1>7, <1>8, <1>9 DEF InventoryTxInv

LEMMA BeginHandlerInv ==
  ASSUME InventoryTxInv, NEW c \in Consumers, NEW t \in InventoryCommands, NEW o \in Orders,
         BeginHandler(c, t, o)
  PROVE  InventoryTxInv'
  <1>1. UNCHANGED inventoryVars /\ seen' = seen /\ <<t, o, 1>> \notin inventoryProcessed /\ ~Busy(c)
    BY DEF BeginHandler, ReadsOnly, Begin
  <1>2. /\ InventoryLocks' /\ OthersKeep(c)
        /\ job'[c] = <<t, o>> /\ stage'[c] = "checked" /\ loaded'[c] = loaded[c]
    BY BeginLocks DEF BeginHandler, InventoryTxInv, InventoryLocks, InventoryStages
  <1>3. Locked(c)' = {}
    BY <1>1, <1>2 DEF InventoryTxInv, InventoryLocks, LockInv, Locked
  <1>4. StageTellsInventory(c)' /\ SeenIsOld(c)'
    BY <1>2, <1>3 DEF StageTellsInventory, SeenIsOld
  <1>5. StillTrue(c)'
    BY <1>1, <1>2 DEF StillTrue, Order, inventoryVars
  <1> QED
    BY <1>1, <1>2, <1>4, <1>5, ReadingInv DEF InventoryTxInv

(* A transaction goes on without a lock or a write. *)
LEMMA FindNoTombstoneInv ==
  ASSUME InventoryTxInv, NEW c \in Consumers, FindNoTombstone(c)
  PROVE  InventoryTxInv'
  <1>1. /\ UNCHANGED inventoryVars /\ seen' = seen /\ stage[c] = "checked" /\ Busy(c)
        /\ Reserving(c) /\ Order(c) \notin tombstones
    BY DEF FindNoTombstone, ReadsOnly, Busy, Reserving, PreCancelled
  <1>2. /\ InventoryLocks' /\ OthersKeep(c) /\ job' = job /\ stage'[c] = "locking"
        /\ loaded' = loaded /\ shared' = shared
    BY <1>1, GoToLocks DEF FindNoTombstone, InventoryTxInv, InventoryLocks, InventoryStages
  <1>3. Order(c)' = Order(c) /\ Locked(c)' = {} /\ Reserving(c)' /\ ~Releasing(c)'
    BY <1>1, <1>2 DEF InventoryTxInv, StageTellsInventory, Locked, Order, Reserving, Releasing, Handles
  <1>4. StageTellsInventory(c)' /\ SeenIsOld(c)'
    BY <1>2, <1>3 DEF StageTellsInventory, SeenIsOld
  <1>5. StillTrue(c)'
    BY <1>1, <1>2, <1>3 DEF InventoryTxInv, StillTrue, inventoryVars
  <1> QED
    BY <1>1, <1>2, <1>4, <1>5, ReadingInv DEF InventoryTxInv

LEMMA MissProductInv ==
  ASSUME InventoryTxInv, NEW c \in Consumers, NEW p \in Wants(c), MissProduct(c, p)
  PROVE  InventoryTxInv'
  <1>1. /\ UNCHANGED inventoryVars /\ seen' = seen /\ stage[c] = "locking" /\ Busy(c)
        /\ Reserving(c) /\ p \notin Products
        /\ \E i \in DOMAIN Items[Order(c)] : Items[Order(c)][i].product = p
    BY DEF MissProduct, ReadsOnly, Busy, Reserving, Wants, Unlocked, Lines
  <1>2. /\ InventoryLocks' /\ OthersKeep(c) /\ job' = job /\ stage'[c] = "outOfStock"
        /\ loaded' = loaded /\ shared' = shared
    BY <1>1, GoToLocks DEF MissProduct, InventoryTxInv, InventoryLocks, InventoryStages
  <1>3. /\ Order(c)' = Order(c) /\ Locked(c)' = Locked(c) /\ reservedStock' = reservedStock
        /\ Reserving(c)' /\ ~Releasing(c)'
    BY <1>1, <1>2 DEF Locked, Order, Reserving, Releasing, Handles, inventoryVars
  <1>4. \E i \in DOMAIN Items[Order(c)] : Refused(c, i)'
    BY <1>1, <1>3 DEF Refused
  <1>5. StageTellsInventory(c)' /\ SeenIsOld(c)'
    BY <1>2, <1>3, <1>4 DEF InventoryTxInv, StageTellsInventory, SeenIsOld
  <1>6. StillTrue(c)'
    BY <1>1, <1>2, <1>3 DEF InventoryTxInv, StillTrue, inventoryVars
  <1> QED
    BY <1>1, <1>2, <1>5, <1>6, ReadingInv DEF InventoryTxInv

LEMMA ReadReservationsInv ==
  ASSUME InventoryTxInv, NEW c \in Consumers, ReadReservations(c)
  PROVE  InventoryTxInv'
  <1> DEFINE o == Order(c)
             next == IF HasReservationRows(o) THEN "locking" ELSE "tombstone"
  <1>1. /\ UNCHANGED inventoryVars /\ stage[c] = "checked" /\ Busy(c) /\ Releasing(c)
        /\ seen' = [seen EXCEPT ![c] = reservations[o]]
    BY DEF ReadReservations, Busy, Releasing
  <1>2. o \in Orders /\ reservations[o] \in [{"RESERVED", "RELEASED"} -> Nat]
    BY <1>1, JobFacts DEF InventoryTxInv, InventoryTypeOK
  <1>3. /\ InventoryLocks' /\ OthersKeep(c) /\ job' = job /\ stage'[c] = next
        /\ loaded' = loaded /\ shared' = shared
    <2>1. GoTo(c, next) /\ next \in InventoryStages \ {"idle"}
      BY DEF ReadReservations, InventoryStages
    <2> HIDE DEF next
    <2> QED
      BY <1>1, <2>1, GoToLocks DEF InventoryTxInv, InventoryLocks
  <1>4. /\ Order(c)' = o /\ Locked(c)' = {} /\ ~Reserving(c)' /\ Releasing(c)'
        /\ UNCHANGED <<reservations, inventoryProcessed>>
    BY <1>1, <1>3 DEF InventoryTxInv, StageTellsInventory, Locked, Order, Reserving, Releasing,
                      Handles, inventoryVars
  <1>5. /\ seen' \in [Consumers -> [{"RESERVED", "RELEASED"} -> Nat]]
        /\ seen'[c] = reservations[o]
        /\ \A d \in Consumers \ {c} : seen'[d] = seen[d]
    BY <1>1, <1>2 DEF InventoryTxInv
  <1>6. StageTellsInventory(c)'
    BY <1>3, <1>4 DEF StageTellsInventory
  <1>7. SeenIsOld(c)'
    <2> SUFFICES ASSUME HasReservationRows(o)
                 PROVE  SeenIsOld(c)'
      BY <1>3 DEF SeenIsOld
    <2> QED
      BY <1>2, <1>4, <1>5 DEF SeenIsOld, HasReservationRows
  <1>8. StillTrue(c)'
    BY <1>1, <1>3, <1>4, <1>5 DEF InventoryTxInv, StillTrue, HasReservationRows
  <1> QED
    BY <1>1, <1>3, <1>5, <1>6, <1>7, <1>8, ReadingInv

(* A line's product is locked and read. *)
LEMMA LockInvNext ==
  ASSUME InventoryTxInv, NEW c \in Consumers, Lock(c)
  PROVE  InventoryTxInv'
  <1> DEFINE o == Order(c)
  <1>1. PICK p \in Wants(c) : LockLine(c, p) \/ LockReserved(c, p)
    BY DEF Lock
  <1> DEFINE next == IF Reserving(c) /\ ~Available(o, p) THEN "outOfStock" ELSE "locking"
  <1>2. /\ UNCHANGED inventoryVars /\ seen' = seen /\ stage[c] = "locking" /\ Busy(c)
        /\ \E i \in DOMAIN Lines(c) : Lines(c)[i].product = p
        /\ Reserving(c) \/ Releasing(c)
    BY <1>1 DEF LockLine, LockReserved, ReadsOnly, Busy, Reserving, Releasing, Wants, Unlocked
  <1>3. o \in Orders /\ ~(Reserving(c) /\ Releasing(c))
    BY <1>2, JobFacts
  <1>4. p \in Products
    <2>1. CASE LockLine(c, p)
      BY <2>1 DEF LockLine
    <2>2. CASE LockReserved(c, p)
      <3>1. Releasing(c) /\ ~Reserving(c)
        BY <2>2, <1>3 DEF LockReserved, Releasing
      <3>2. Lines(c) = IF seen[c]["RESERVED"] > 0 THEN Items[o] ELSE <<>>
        BY <3>1 DEF Lines, Reserving
      <3>3. seen[c]["RESERVED"] > 0 /\ \E i \in DOMAIN Items[o] : Items[o][i].product = p
        BY <1>2, <3>2
      <3>4. HasReservationRows(o)
        <4>1. /\ seen[c]["RESERVED"] + seen[c]["RELEASED"]
                   <= reservations[o]["RESERVED"] + reservations[o]["RELEASED"]
          BY <1>2, <3>1 DEF InventoryTxInv, SeenIsOld
        <4>2. /\ seen[c]["RESERVED"] \in Nat /\ seen[c]["RELEASED"] \in Nat
              /\ reservations[o]["RESERVED"] \in Nat /\ reservations[o]["RELEASED"] \in Nat
          BY <1>3 DEF InventoryTxInv, InventoryTypeOK
        <4> QED
          BY <3>3, <4>1, <4>2 DEF HasReservationRows
      <3> QED
        BY <1>3, <3>3, <3>4 DEF InventoryTxInv, ReservedFromCatalogue
    <2> QED
      BY <1>1, <2>1, <2>2
  <1>5. /\ InventoryLocks' /\ OthersKeep(c) /\ job' = job /\ stage'[c] = next
        /\ shared' = shared /\ Locked(c)' = Locked(c) \cup {p}
        /\ loaded'[c][p] = reservedStock[p]
        /\ \A x \in Locked(c) \ {p} : loaded'[c][x] = loaded[c][x]
    <2>1. LockRow(c, p, reservedStock[p], next)
      BY <1>1, <1>3 DEF LockLine, LockReserved, Reserving, Releasing
    <2>2. next \in InventoryStages \ {"idle"} /\ reservedStock[p] \in Int
      BY <1>4 DEF InventoryStages, InventoryTxInv, InventoryTypeOK
    <2> HIDE DEF next
    <2> QED
      BY <1>2, <1>4, <2>1, <2>2, LockRowLocks DEF InventoryTxInv, InventoryLocks
  <1>6. /\ Order(c)' = o /\ (Reserving(c)' <=> Reserving(c)) /\ (Releasing(c)' <=> Releasing(c))
        /\ UNCHANGED <<reservedStock, reservations, tombstones, inventoryProcessed>>
    BY <1>2, <1>5 DEF Order, Reserving, Releasing, Handles, inventoryVars
  <1>7. /\ \A i : LineAvailable(o, i)' <=> LineAvailable(o, i)
        /\ \A x : Available(o, x)' <=> Available(o, x)
    BY <1>6 DEF LineAvailable, Available
  <1>8. StageTellsInventory(c) /\ SeenIsOld(c) /\ StillTrue(c)
    BY DEF InventoryTxInv
  <1>9. ASSUME Reserving(c), ~Available(o, p) PROVE \E i \in DOMAIN Items[o] : Refused(c, i)'
    BY <1>5, <1>6, <1>7, <1>9 DEF Available, Refused
  <1>10. StageTellsInventory(c)'
    <2>1. \A x \in Locked(c)' : loaded'[c][x] = reservedStock'[x]
      BY <1>5, <1>6, <1>8 DEF StageTellsInventory
    <2>2. stage'[c] = "locking" /\ Reserving(c)' => \A x \in Locked(c)' : Available(Order(c), x)'
      BY <1>2, <1>5, <1>6, <1>7, <1>8 DEF StageTellsInventory
    <2> QED
      BY <1>5, <1>6, <1>9, <2>1, <2>2 DEF StageTellsInventory
  <1>11. SeenIsOld(c)'
    BY <1>2, <1>5, <1>6, <1>8 DEF SeenIsOld
  <1>12. StillTrue(c)'
    BY <1>2, <1>5, <1>6, <1>8 DEF StillTrue, Busy
  <1> QED
    BY <1>2, <1>5, <1>10, <1>11, <1>12, ReadingInv DEF InventoryTxInv

(* A row's value is current while it is locked. *)
LEMMA ReadIsCurrent ==
  ASSUME InventoryTxInv, NEW c \in Consumers, NEW p
  PROVE  Read(c, p) = reservedStock[p]
  BY DEF InventoryTxInv, StageTellsInventory, Read

LEMMA CommitFacts ==
  ASSUME InventoryTxInv, NEW c \in Consumers, NEW event \in InventoryEventTypes, Commit(c, event)
  PROVE  /\ Busy(c) /\ Order(c) \in Orders /\ End(c) /\ seen' = [seen EXCEPT ![c] = NoneSeen]
         /\ inventoryOutbox' \in [Orders -> [InventoryEventTypes -> Nat]]
         /\ inventoryProcessed' \in SUBSET (InventoryCommands \X Orders \X Nat)
         /\ \A o \in Orders, t \in InventoryCommands :
              <<t, o, 1>> \in inventoryProcessed' <=>
                <<t, o, 1>> \in inventoryProcessed \/ (o = Order(c) /\ t = job[c][1])
  <1>1. End(c) /\ Busy(c) /\ seen' = [seen EXCEPT ![c] = NoneSeen]
    BY DEF Commit, End
  <1>2. Order(c) \in Orders /\ job[c][1] \in InventoryCommands
    BY <1>1, JobFacts
  <1>3. inventoryOutbox' \in [Orders -> [InventoryEventTypes -> Nat]]
    BY <1>2 DEF Commit, EmitInventoryEvent, InventoryTxInv, InventoryTypeOK
  <1>4. inventoryProcessed' = inventoryProcessed \cup {<<job[c][1], Order(c), 1>>}
    BY DEF Commit, RecordProcessed
  <1> QED
    BY <1>1, <1>2, <1>3, <1>4 DEF InventoryTxInv, InventoryTypeOK, InventoryCommands

(* What a commit leaves alone of other orders' rows. *)
LEMMA CommitKeeps ==
  ASSUME InventoryTxInv, NEW c \in Consumers, NEW event \in InventoryEventTypes, Commit(c, event),
         tombstones' = tombstones \/ tombstones' = tombstones \cup {Order(c)},
         \A o \in Orders \ {Order(c)} : reservations'[o] = reservations[o],
         NEW o \in Orders \ {Order(c)}
  PROVE  RowsKept(o)
  BY CommitFacts DEF RowsKept

(* The locks of a reservation cover what it changes, and its lines were    *)
(* all available when it did.                                              *)
LEMMA ReservedIsReserve ==
  ASSUME InventoryTxInv, NEW c \in Consumers, CommitReserved(c)
  PROVE  /\ AllAvailable(Order(c)) /\ Reserve(Order(c))
         /\ \A p \in Products \ Locked(c) : Demand(Order(c), p) = 0
  <1> DEFINE o == Order(c)
  <1>1. /\ stage[c] = "locking" /\ Reserving(c) /\ Unlocked(c) = {} /\ Busy(c)
        /\ Commit(c, "InventoryReservedEvent") /\ MakeReservation(o) /\ UNCHANGED tombstones
        /\ reservedStock' = [p \in Products |-> Read(c, p) + Demand(o, p)]
    BY DEF CommitReserved, Reserving, Busy
  <1>2. o \in Orders
    BY <1>1, JobFacts
  <1>3. Lines(c) = Items[o]
    BY <1>1 DEF Lines, Reserving
  <1>4. \A i \in DOMAIN Items[o] : Items[o][i].product \in Locked(c)
    BY <1>1, <1>3 DEF Unlocked
  <1>5. AllAvailable(o)
    BY <1>1, <1>4 DEF AllAvailable, InventoryTxInv, StageTellsInventory, Available
  <1>6. reservedStock' = [p \in Products |-> reservedStock[p] + Demand(o, p)]
    BY <1>1, ReadIsCurrent
  <1>7. Reserve(o)
    BY <1>1, <1>6 DEF Reserve, Commit
  <1>8. ASSUME NEW p \in Products \ Locked(c) PROVE Demand(o, p) = 0
    BY <1>2, <1>4, DemandUnnamed
  <1> QED
    BY <1>5, <1>7, <1>8

(* The locks of a release cover what it changes. *)
LEMMA ReleasedIsReturn ==
  ASSUME InventoryTxInv, NEW c \in Consumers, CommitReleased(c)
  PROVE  /\ reservedStock' = [p \in Products |->
              Minus(reservedStock[p], seen[c]["RESERVED"] * Demand(Order(c), p))]
         /\ \A p \in Products \ Locked(c) : seen[c]["RESERVED"] * Demand(Order(c), p) = 0
         /\ StillReserved(c) \in Nat
         /\ StillReserved(c) <= reservations[Order(c)]["RESERVED"]
         /\ seen[c] = reservations[Order(c)] =>
              StillReserved(c) = reservations[Order(c)]["RESERVED"]
         /\ Releasing(c) /\ Order(c) \in Orders
  <1> DEFINE o == Order(c)
             R == seen[c]["RESERVED"]
             L == seen[c]["RELEASED"]
  <1>1. /\ stage[c] = "locking" /\ Releasing(c) /\ Unlocked(c) = {} /\ Busy(c)
        /\ reservedStock' = [p \in Products |-> Minus(Read(c, p), R * Demand(o, p))]
    BY DEF CommitReleased, Releasing, Busy
  <1>2. o \in Orders
    BY <1>1, JobFacts
  <1>3. R \in Nat /\ L \in Nat /\ reservations[o]["RESERVED"] \in Nat /\ reservations[o]["RELEASED"] \in Nat
    BY <1>2 DEF InventoryTxInv, InventoryTypeOK
  <1>4. /\ L <= reservations[o]["RELEASED"]
        /\ R + L <= reservations[o]["RESERVED"] + reservations[o]["RELEASED"]
    BY <1>1 DEF InventoryTxInv, SeenIsOld
  <1>5. StillReserved(c) = Minus(R, reservations[o]["RELEASED"] - L)
    BY DEF StillReserved
  <1>6. /\ StillReserved(c) \in Nat
        /\ StillReserved(c) <= reservations[o]["RESERVED"]
        /\ seen[c] = reservations[o] => StillReserved(c) = reservations[o]["RESERVED"]
    BY <1>3, <1>4, <1>5 DEF Minus
  <1>7. reservedStock' = [p \in Products |-> Minus(reservedStock[p], R * Demand(o, p))]
    BY <1>1, ReadIsCurrent
  <1>8. ASSUME NEW p \in Products \ Locked(c) PROVE R * Demand(o, p) = 0
    <2>1. CASE R = 0
      BY <2>1, DemandType, <1>2
    <2>2. CASE R > 0
      <3>1. Lines(c) = Items[o]
        BY <2>2 DEF Lines
      <3>2. \A i \in DOMAIN Items[o] : Items[o][i].product # p
        BY <1>1, <3>1 DEF Unlocked
      <3>3. Demand(o, p) = 0
        BY <1>2, <3>2, DemandUnnamed
      <3> QED
        BY <1>3, <3>3
    <2> QED
      BY <1>3, <2>1, <2>2
  <1> QED
    BY <1>1, <1>2, <1>6, <1>7, <1>8

LEMMA MinusNone ==
  ASSUME NEW stock \in Nat PROVE Minus(stock, 0) = stock
  BY DEF Minus

(* A commit that only writes its event. *)
LEMMA CommitRefusedInv ==
  ASSUME InventoryTxInv, NEW c \in Consumers, CommitPreCancelled(c) \/ CommitOutOfStock(c)
  PROVE  InventoryTxInv'
  <1> SUFFICES ASSUME NEW o, o = Order(c) PROVE InventoryTxInv'
    OBVIOUS
  <1>1. /\ Commit(c, "InventoryReservationFailedEvent") /\ Reserving(c)
        /\ UNCHANGED <<reservedStock, reservations, tombstones>>
    BY DEF CommitPreCancelled, CommitOutOfStock, Reserving, InventoryTxInv, StageTellsInventory
  <1>2. "InventoryReservationFailedEvent" \in InventoryEventTypes
    BY DEF InventoryEventTypes
  <1>3. /\ Busy(c) /\ o \in Orders /\ End(c) /\ seen' = [seen EXCEPT ![c] = NoneSeen]
        /\ InventoryTypeOK'
    BY <1>1, <1>2, CommitFacts DEF InventoryTxInv, InventoryTypeOK, InventoryCommands
  <1>4. \A q \in Orders \ {o} : RowsKept(q)
    BY <1>1, <1>2, CommitKeeps
  <1>5. job[c][1] = "ReserveInventoryCommand"
    BY <1>1, <1>3, JobFacts
  <1>6. /\ ReserveDone(o)' /\ (ReleaseDone(o)' <=> ReleaseDone(o)) /\ (Held(o)' <=> Held(o))
        /\ HasReservationRows(o)' <=> HasReservationRows(o)
    BY <1>1, <1>2, <1>3, <1>5, CommitFacts
       DEF ReserveDone, ReleaseDone, InventoryCommands, Held, HasReservationRows
  <1>7. shared' = shared
    BY <1>3 DEF End
  <1>8. RowsFollowCommands(o)' /\ ReservedFromCatalogue(o)'
    BY <1>1, <1>3, <1>6, <1>7 DEF InventoryTxInv, RowsFollowCommands, ReservedFromCatalogue
  <1>9. reservations[o]["RELEASED"] \in Nat /\ reservations[o]["RESERVED"] \in Nat
    BY <1>3 DEF InventoryTxInv, InventoryTypeOK
  <1>10. EndsWith(c, o)
    BY <1>1, <1>3, <1>4, <1>8, <1>9 DEF EndsWith
  <1> QED
    BY <1>3, <1>10, EndingInv

LEMMA CommitReservedInv ==
  ASSUME InventoryTxInv, NEW c \in Consumers, CommitReserved(c)
  PROVE  InventoryTxInv'
  <1> SUFFICES ASSUME NEW o, o = Order(c) PROVE InventoryTxInv'
    OBVIOUS
  <1>1. /\ Commit(c, "InventoryReservedEvent") /\ Reserving(c) /\ stage[c] = "locking"
        /\ tombstones' = tombstones /\ MakeReservation(o)
    BY DEF CommitReserved, Reserving
  <1>2. /\ AllAvailable(o) /\ \A p \in Products \ Locked(c) : Demand(o, p) = 0
        /\ reservedStock' = [p \in Products |-> reservedStock[p] + Demand(o, p)]
    BY ReservedIsReserve DEF Reserve
  <1>3. "InventoryReservedEvent" \in InventoryEventTypes
    BY DEF InventoryEventTypes
  <1>4. Busy(c) /\ o \in Orders /\ End(c) /\ seen' = [seen EXCEPT ![c] = NoneSeen]
    BY <1>1, <1>3, CommitFacts
  <1>5. /\ reservations[o]["RELEASED"] \in Nat /\ reservations[o]["RESERVED"] \in Nat
        /\ reservations \in [Orders -> [{"RESERVED", "RELEASED"} -> Nat]]
        /\ reservedStock \in [Products -> Nat]
    BY <1>4 DEF InventoryTxInv, InventoryTypeOK
  <1>6. /\ reservations' \in [Orders -> [{"RESERVED", "RELEASED"} -> Nat]]
        /\ \A q \in Orders \ {o} : reservations'[q] = reservations[q]
        /\ reservations'[o]["RELEASED"] = reservations[o]["RELEASED"]
        /\ reservations'[o]["RESERVED"] >= reservations[o]["RESERVED"]
    <2>1. CASE Items[o] = <<>>
      BY <1>1, <1>5, <2>1 DEF MakeReservation
    <2>2. CASE Items[o] # <<>>
      <3>1. reservations' = [reservations EXCEPT ![o]["RESERVED"] = @ + 1]
        BY <1>1, <2>2 DEF MakeReservation
      <3> QED
        BY <1>4, <1>5, <3>1
    <2> QED
      BY <2>1, <2>2
  <1>7. reservedStock' \in [Products -> Nat]
    BY <1>2, <1>4, <1>5, DemandType
  <1>8. InventoryTypeOK'
    BY <1>1, <1>3, <1>6, <1>7, CommitFacts DEF InventoryTxInv, InventoryTypeOK, InventoryCommands
  <1>9. \A q \in Orders \ {o} : RowsKept(q)
    BY <1>1, <1>3, <1>6, CommitKeeps
  <1>10. /\ job[c][1] = "ReserveInventoryCommand"
         /\ ReserveDone(o)' /\ (ReleaseDone(o)' <=> ReleaseDone(o))
    BY <1>1, <1>3, <1>4, JobFacts, CommitFacts DEF ReserveDone, ReleaseDone, InventoryCommands
  <1>11. shared' = shared
    BY <1>4 DEF End
  <1>12. RowsFollowCommands(o)'
    <2> SUFFICES ASSUME o \notin shared PROVE ~ReleaseDone(o)
      BY <1>10, <1>11 DEF RowsFollowCommands
    <2>1. ~ReserveDone(o) /\ o \notin tombstones
      BY <1>1, <1>4, <1>10 DEF InventoryTxInv, StillTrue, ReserveDone
    <2> QED
      BY <1>4, <2>1 DEF InventoryTxInv, RowsFollowCommands
  <1>13. ReservedFromCatalogue(o)'
    BY <1>2 DEF AllAvailable, LineAvailable, ReservedFromCatalogue
  <1>14. \A p \in Products \ Locked(c) : reservedStock'[p] = reservedStock[p]
    BY <1>2, <1>5
  <1>15. EndsWith(c, o)
    BY <1>4, <1>5, <1>6, <1>8, <1>9, <1>12, <1>13, <1>14 DEF EndsWith
  <1> QED
    BY <1>4, <1>15, EndingInv

LEMMA CommitTombstoneInv ==
  ASSUME InventoryTxInv, NEW c \in Consumers, CommitTombstone(c)
  PROVE  InventoryTxInv'
  <1> SUFFICES ASSUME NEW o, o = Order(c) PROVE InventoryTxInv'
    OBVIOUS
  <1>1. /\ Commit(c, "InventoryReleasedEvent") /\ Releasing(c) /\ stage[c] = "tombstone"
        /\ tombstones' = tombstones \cup {o} /\ UNCHANGED <<reservedStock, reservations>>
    BY DEF CommitTombstone, RecordTombstone, InventoryTxInv, StageTellsInventory
  <1>2. "InventoryReleasedEvent" \in InventoryEventTypes
    BY DEF InventoryEventTypes
  <1>3. Busy(c) /\ o \in Orders /\ End(c) /\ seen' = [seen EXCEPT ![c] = NoneSeen]
    BY <1>1, <1>2, CommitFacts
  <1>4. InventoryTypeOK'
    BY <1>1, <1>2, <1>3, CommitFacts DEF InventoryTxInv, InventoryTypeOK, InventoryCommands
  <1>5. \A q \in Orders \ {o} : RowsKept(q)
    BY <1>1, <1>2, CommitKeeps
  <1>6. /\ reservations[o]["RELEASED"] \in Nat /\ reservations[o]["RESERVED"] \in Nat
    BY <1>3 DEF InventoryTxInv, InventoryTypeOK
  <1>7. shared' = shared
    BY <1>3 DEF End
  <1>8. RowsFollowCommands(o)'
    <2> SUFFICES ASSUME o \notin shared PROVE ~HasReservationRows(o)' /\ ~Held(o)'
      BY <1>1, <1>7 DEF RowsFollowCommands
    <2>1. ~HasReservationRows(o)
      BY <1>1, <1>3 DEF InventoryTxInv, StillTrue
    <2> QED
      BY <1>1, <1>6, <2>1 DEF HasReservationRows, Held
  <1>9. ReservedFromCatalogue(o)'
    BY <1>1, <1>3 DEF InventoryTxInv, ReservedFromCatalogue, HasReservationRows
  <1>10. EndsWith(c, o)
    BY <1>1, <1>3, <1>4, <1>5, <1>6, <1>8, <1>9 DEF EndsWith
  <1> QED
    BY <1>3, <1>10, EndingInv

LEMMA CommitReleasedInv ==
  ASSUME InventoryTxInv, NEW c \in Consumers, CommitReleased(c)
  PROVE  InventoryTxInv'
  <1> SUFFICES ASSUME NEW o, o = Order(c) PROVE InventoryTxInv'
    OBVIOUS
  <1> DEFINE k == StillReserved(c)
  <1>1. /\ Commit(c, "InventoryReleasedEvent") /\ stage[c] = "locking"
        /\ tombstones' = tombstones
        /\ reservations' = [reservations EXCEPT ![o]["RESERVED"] = @ - k, ![o]["RELEASED"] = @ + k]
    BY DEF CommitReleased
  <1>2. /\ reservedStock' = [p \in Products |->
             Minus(reservedStock[p], seen[c]["RESERVED"] * Demand(o, p))]
        /\ \A p \in Products \ Locked(c) : seen[c]["RESERVED"] * Demand(o, p) = 0
        /\ k \in Nat /\ k <= reservations[o]["RESERVED"]
        /\ seen[c] = reservations[o] => k = reservations[o]["RESERVED"]
        /\ Releasing(c) /\ o \in Orders
    BY ReleasedIsReturn
  <1> HIDE DEF k
  <1>3. "InventoryReleasedEvent" \in InventoryEventTypes
    BY DEF InventoryEventTypes
  <1>4. Busy(c) /\ End(c) /\ seen' = [seen EXCEPT ![c] = NoneSeen]
    BY <1>1, <1>3, CommitFacts
  <1>5. /\ reservations[o]["RELEASED"] \in Nat /\ reservations[o]["RESERVED"] \in Nat
        /\ reservations \in [Orders -> [{"RESERVED", "RELEASED"} -> Nat]]
        /\ reservedStock \in [Products -> Nat] /\ seen[c]["RESERVED"] \in Nat
    BY <1>2 DEF InventoryTxInv, InventoryTypeOK
  <1>6. /\ reservations'[o]["RESERVED"] = reservations[o]["RESERVED"] - k
        /\ reservations'[o]["RELEASED"] = reservations[o]["RELEASED"] + k
        /\ \A q \in Orders \ {o} : reservations'[q] = reservations[q]
        /\ reservations' \in [Orders -> [{"RESERVED", "RELEASED"} -> Nat]]
    BY <1>1, <1>2, <1>5
  <1>7. reservedStock' \in [Products -> Nat]
    <2>1. \A p \in Products : seen[c]["RESERVED"] * Demand(o, p) \in Nat
      BY <1>2, <1>5, DemandType
    <2> QED
      BY <1>2, <1>5, <2>1, MinusBound
  <1>8. InventoryTypeOK'
    BY <1>1, <1>3, <1>6, <1>7, CommitFacts DEF InventoryTxInv, InventoryTypeOK, InventoryCommands
  <1>9. \A q \in Orders \ {o} : RowsKept(q)
    BY <1>1, <1>3, <1>6, CommitKeeps
  <1>10. ReserveDone(o) => ReserveDone(o)'
    BY <1>1, <1>2, <1>3, CommitFacts DEF ReserveDone, InventoryCommands
  <1>11. shared' = shared
    BY <1>4 DEF End
  <1>12. HasReservationRows(o)' => HasReservationRows(o)
    BY <1>2, <1>5, <1>6 DEF HasReservationRows
  <1>13. RowsFollowCommands(o)'
    <2> SUFFICES ASSUME o \notin shared PROVE ReserveDone(o) /\ ~Held(o)'
      BY <1>10, <1>11 DEF RowsFollowCommands
    <2>1. seen[c] = reservations[o]
      BY <1>1, <1>2, <1>4 DEF InventoryTxInv, StillTrue
    <2>2. reservations'[o]["RESERVED"] = 0
      BY <1>2, <1>5, <1>6, <2>1
    <2>3. HasReservationRows(o)
      BY <1>1, <1>2, <2>1 DEF InventoryTxInv, SeenIsOld, HasReservationRows
    <2> QED
      BY <1>2, <2>2, <2>3 DEF InventoryTxInv, RowsFollowCommands, Held
  <1>14. ReservedFromCatalogue(o)'
    BY <1>2, <1>12 DEF InventoryTxInv, ReservedFromCatalogue
  <1>15. \A p \in Products \ Locked(c) : reservedStock'[p] = reservedStock[p]
    BY <1>2, <1>5, MinusNone
  <1>16. EndsWith(c, o)
    BY <1>2, <1>4, <1>5, <1>6, <1>8, <1>9, <1>13, <1>14, <1>15 DEF EndsWith
  <1> QED
    BY <1>2, <1>16, EndingInv

LEMMA RollBackCommandInv ==
  ASSUME InventoryTxInv, NEW c \in Consumers, RollBackCommand(c)
  PROVE  InventoryTxInv'
  <1>1. /\ End(c) /\ UNCHANGED inventoryVars /\ seen' = [seen EXCEPT ![c] = NoneSeen]
    BY DEF RollBackCommand
  <1>2. /\ InventoryLocks' /\ OthersKeep(c) /\ stage'[c] = "idle" /\ Locked(c)' = {}
    BY <1>1, EndLocks DEF InventoryTxInv, InventoryLocks, InventoryStages
  <1>3. StageTellsInventory(c)' /\ SeenIsOld(c)' /\ StillTrue(c)'
    BY <1>2 DEF StageTellsInventory, SeenIsOld, StillTrue, Busy
  <1>4. /\ seen' \in [Consumers -> [{"RESERVED", "RELEASED"} -> Nat]]
        /\ \A d \in Consumers \ {c} : seen'[d] = seen[d]
    BY <1>1 DEF InventoryTxInv, NoneSeen
  <1> QED
    BY <1>1, <1>2, <1>3, <1>4, ReadingInv

LEMMA InventoryTxInvNext ==
  InventoryTxInv /\ [InventoryTxNext]_inventoryTxVars => InventoryTxInv'
  <1> SUFFICES ASSUME InventoryTxInv, [InventoryTxNext]_inventoryTxVars PROVE InventoryTxInv'
    OBVIOUS
  <1>1. ASSUME NEW c \in Consumers, Step(c) PROVE InventoryTxInv'
    <2>1. CASE CommitsCommand(c)
      BY <2>1, CommitRefusedInv, CommitReservedInv, CommitTombstoneInv, CommitReleasedInv
         DEF CommitsCommand
    <2>2. CASE AbortDeadlocked(c)
      BY <2>2, RollBackCommandInv DEF AbortDeadlocked
    <2> QED
      BY <1>1, <2>1, <2>2, FindNoTombstoneInv, ReadReservationsInv, MissProductInv DEF Step
  <1>2. CASE UNCHANGED inventoryTxVars
    <2>1. /\ UNCHANGED <<reservedStock, reservations, tombstones, inventoryProcessed, inventoryOutbox>>
          /\ UNCHANGED <<job, stage, loaded, shared, seen>>
      BY <1>2 DEF inventoryTxVars, inventoryVars, lockVars
    <2>2. InventoryTypeOK' /\ InventoryLocks'
      BY <2>1 DEF InventoryTxInv, InventoryTypeOK, InventoryLocks, LockInv, LocksTypeOK,
                  Busy, Locked, Order
    <2>3. \A c \in Consumers : StageTellsInventory(c)' /\ SeenIsOld(c)' /\ StillTrue(c)'
      BY <2>1 DEF InventoryTxInv, StageTellsInventory, SeenIsOld, StillTrue, Busy, Locked, Order,
                  Reserving, Releasing, Handles, Available, LineAvailable, Refused,
                  HasReservationRows
    <2>4. \A o \in Orders : RowsFollowCommands(o)' /\ ReservedFromCatalogue(o)'
      BY <2>1 DEF InventoryTxInv, RowsFollowCommands, ReservedFromCatalogue, HasReservationRows,
                  ReserveDone, ReleaseDone, Held
    <2> QED
      BY <2>1, <2>2, <2>3, <2>4 DEF InventoryTxInv
  <1> QED
    BY <1>1, <1>2, BeginHandlerInv, LockInvNext, RollBackCommandInv DEF InventoryTxNext

LEMMA InventoryTxInvInit == InventoryTxInit => InventoryTxInv
  <1> SUFFICES ASSUME InventoryTxInit PROVE InventoryTxInv
    OBVIOUS
  <1>1. InventoryTypeOK
    BY DEF InventoryTxInit, InventoryInit, InventoryTypeOK
  <1>2. InventoryLocks
    BY LocksStart DEF InventoryTxInit, InventoryLocks, InventoryStages
  <1>3. \A c \in Consumers : ~Busy(c) /\ Locked(c) = {} /\ stage[c] = "idle"
    BY <1>2 DEF InventoryTxInit, LocksInit, Busy, InventoryLocks, LockInv
  <1>4. \A c \in Consumers : StageTellsInventory(c) /\ SeenIsOld(c) /\ StillTrue(c)
    BY <1>3 DEF StageTellsInventory, SeenIsOld, StillTrue
  <1>5. \A o \in Orders : ~HasReservationRows(o) /\ ~ReleaseDone(o)
    BY DEF InventoryTxInit, InventoryInit, HasReservationRows, ReleaseDone
  <1> QED
    BY <1>1, <1>2, <1>4, <1>5
       DEF InventoryTxInv, RowsFollowCommands, ReservedFromCatalogue, InventoryTxInit, NoneSeen

LEMMA InventoryTxInvCorrect == InventoryTxSpec => []InventoryTxInv
  BY InventoryTxInvInit, InventoryTxInvNext, PTL DEF InventoryTxSpec

(* Whoever holds a row, the tables have their types in every interleaving. *)
THEOREM InventoryTypes == InventoryTxSpec => []InventoryTxTypeOK
  <1>1. InventoryTxInv => InventoryTxTypeOK
    BY DEF InventoryTxInv, InventoryLocks, InventoryStages, LockInv, InventoryTxTypeOK
  <1> QED
    BY <1>1, InventoryTxInvCorrect, PTL

(* A reservation or release that was handled, whatever came in between,    *)
(* leaves no stock held for a released order, unless two consumers were in *)
(* its handlers at once.                                                   *)
THEOREM ReleaseIsFinal == InventoryTxSpec => []ReleasedHoldsNothing
  <1>1. InventoryTxInv => ReleasedHoldsNothing
    BY DEF InventoryTxInv, RowsFollowCommands, ReleaseDone, ReleasedHoldsNothing
  <1> QED
    BY <1>1, InventoryTxInvCorrect, PTL

LEMMA RefusedIsRejected ==
  ASSUME InventoryTxInv, NEW c \in Consumers, stage[c] = "outOfStock"
  PROVE  ~AllAvailable(Order(c))
  BY DEF InventoryTxInv, StageTellsInventory, Refused, AllAvailable, LineAvailable

LEMMA ReserveCommitIsHandler ==
  ASSUME InventoryTxInv, NEW c \in Consumers, Order(c) \notin shared,
         CommitPreCancelled(c) \/ CommitOutOfStock(c) \/ CommitReserved(c)
  PROVE  HandleReserveInventoryCommand(Order(c), 1)
  <1>1. Busy(c) /\ Reserving(c)
    BY DEF CommitPreCancelled, CommitOutOfStock, CommitReserved, Reserving, Busy,
           InventoryTxInv, StageTellsInventory
  <1>2. /\ job[c][1] = "ReserveInventoryCommand"
        /\ <<"ReserveInventoryCommand", Order(c), 1>> \notin inventoryProcessed
    BY <1>1, JobFacts DEF InventoryTxInv, StillTrue
  <1>3. CASE CommitPreCancelled(c)
    BY <1>2, <1>3 DEF CommitPreCancelled, Commit, AbortPreCancelled, HandleReserveInventoryCommand
  <1>4. CASE CommitOutOfStock(c)
    <2>1. ~PreCancelled(Order(c)) /\ ~AllAvailable(Order(c))
      BY <1>1, <1>4, RefusedIsRejected DEF CommitOutOfStock, InventoryTxInv, StillTrue, PreCancelled
    <2> QED
      BY <1>2, <1>4, <2>1 DEF CommitOutOfStock, Commit, RejectOutOfStock, HandleReserveInventoryCommand
  <1>5. CASE CommitReserved(c)
    <2>1. ~PreCancelled(Order(c))
      BY <1>1, <1>5 DEF CommitReserved, InventoryTxInv, StillTrue, PreCancelled
    <2> QED
      BY <1>2, <1>5, <2>1, ReservedIsReserve DEF CommitReserved, Commit, HandleReserveInventoryCommand
  <1> QED
    BY <1>3, <1>4, <1>5

LEMMA ReleaseCommitIsHandler ==
  ASSUME InventoryTxInv, NEW c \in Consumers, Order(c) \notin shared,
         CommitTombstone(c) \/ CommitReleased(c)
  PROVE  HandleReleaseInventoryCommand(Order(c), 1)
  <1>1. Busy(c) /\ Releasing(c)
    BY DEF CommitTombstone, CommitReleased, Releasing, Busy, InventoryTxInv, StageTellsInventory
  <1>2. /\ job[c][1] = "ReleaseInventoryCommand" /\ Order(c) \in Orders
        /\ <<"ReleaseInventoryCommand", Order(c), 1>> \notin inventoryProcessed
    BY <1>1, JobFacts DEF InventoryTxInv, StillTrue
  <1>3. CASE CommitTombstone(c)
    <2>1. ~HasReservationRows(Order(c))
      BY <1>1, <1>3 DEF CommitTombstone, InventoryTxInv, StillTrue
    <2> QED
      BY <1>2, <1>3, <2>1 DEF CommitTombstone, Commit, HandleReleaseInventoryCommand
  <1>4. CASE CommitReleased(c)
    <2> SUFFICES ASSUME NEW o \in Orders, o = Order(c) PROVE HandleReleaseInventoryCommand(o, 1)
      BY <1>2
    <2>1. stage[c] = "locking" /\ seen[c] = reservations[o]
      BY <1>1, <1>4 DEF CommitReleased, InventoryTxInv, StillTrue
    <2>2. HasReservationRows(o)
      BY <1>1, <2>1 DEF InventoryTxInv, SeenIsOld, HasReservationRows
    <2>3. /\ reservedStock' = [p \in Products |->
               Minus(reservedStock[p], reservations[o]["RESERVED"] * Demand(o, p))]
          /\ StillReserved(c) = reservations[o]["RESERVED"]
      BY <1>4, <2>1, ReleasedIsReturn
    <2>4. reservations' = [reservations EXCEPT
             ![o]["RESERVED"] = @ - reservations[o]["RESERVED"],
             ![o]["RELEASED"] = @ + reservations[o]["RESERVED"]]
      BY <1>4, <2>3 DEF CommitReleased
    <2>5. /\ reservations \in [Orders -> [{"RESERVED", "RELEASED"} -> Nat]]
          /\ reservations[o]["RESERVED"] \in Nat /\ reservations[o]["RELEASED"] \in Nat
      BY DEF InventoryTxInv, InventoryTypeOK
    <2> DEFINE rows == [s \in {"RESERVED", "RELEASED"} |-> IF s = "RESERVED" THEN 0
                          ELSE reservations[o]["RESERVED"] + reservations[o]["RELEASED"]]
    <2>6. reservations'[o] = rows
      <3>1. /\ reservations'[o] \in [{"RESERVED", "RELEASED"} -> Int]
            /\ reservations'[o]["RESERVED"] = 0
            /\ reservations'[o]["RELEASED"]
                 = reservations[o]["RELEASED"] + reservations[o]["RESERVED"]
        BY <2>4, <2>5
      <3>2. /\ rows \in [{"RESERVED", "RELEASED"} -> Int]
            /\ rows["RESERVED"] = 0
            /\ rows["RELEASED"] = reservations[o]["RELEASED"] + reservations[o]["RESERVED"]
        BY <2>5
      <3> HIDE DEF rows
      <3> QED
        BY <3>1, <3>2
    <2>7. reservations' = [reservations EXCEPT ![o] = rows]
      <3> HIDE DEF rows
      <3>1. DOMAIN reservations' = Orders /\ \A q \in Orders \ {o} : reservations'[q] = reservations[q]
        BY <2>4, <2>5
      <3>2. reservations' = [q \in DOMAIN reservations' |-> reservations'[q]]
        BY <2>4
      <3> QED
        BY <2>5, <2>6, <3>1, <3>2
    <2>8. ReturnStock(o)
      BY <1>4, <2>3, <2>7 DEF ReturnStock, CommitReleased
    <2> QED
      BY <1>2, <1>4, <2>2, <2>8 DEF CommitReleased, Commit, HandleReleaseInventoryCommand
  <1> QED
    BY <1>3, <1>4

(* The composed saga may take the inventory's two handlers for one atomic  *)
(* step each: their lines are locked one by one, but what a transaction    *)
(* has checked stays true until it commits, whatever other orders'         *)
(* transactions commit in between (InventoryManagementService.java:30-196).*)
THEOREM ReservationsCommitAtomically == InventoryTxSpec => ReservationsAreAtomic
  <1>1. InventoryTxInv /\ [InventoryTxNext]_inventoryTxVars =>
          [\A c \in Consumers : CommitsCommand(c) /\ Order(c) \notin shared =>
             \/ HandleReserveInventoryCommand(Order(c), 1)
             \/ HandleReleaseInventoryCommand(Order(c), 1)]_inventoryTxVars
    BY ReserveCommitIsHandler, ReleaseCommitIsHandler DEF CommitsCommand
  <1> QED
    BY <1>1, InventoryTxInvCorrect, PTL DEF InventoryTxSpec, ReservationsAreAtomic

-----------------------------------------------------------------------------
(* The stock in the catalogue. *)

(* What a step may do to stock and reservations. *)
LEMMA InventoryTxStock ==
  ASSUME InventoryTxInv, [InventoryTxNext]_inventoryTxVars
  PROVE  \/ UNCHANGED <<reservedStock, reservations>> /\ shared \subseteq shared'
         \/ \E c \in Consumers : shared' = shared /\ (CommitReserved(c) \/ CommitReleased(c))
  <1>1. ASSUME NEW c \in Consumers, CommitReserved(c) \/ CommitReleased(c) PROVE shared' = shared
    BY <1>1 DEF CommitReserved, CommitReleased, Commit, End
  <1>2. ASSUME NEW c \in Consumers, Lock(c)
        PROVE  UNCHANGED <<reservedStock, reservations, shared>>
    BY <1>2 DEF Lock, LockLine, LockReserved, LockRow, ReadsOnly, inventoryVars
  <1>3. ASSUME NEW c \in Consumers, NEW o \in Orders, NEW t \in InventoryCommands,
               BeginHandler(c, t, o)
        PROVE  UNCHANGED <<reservedStock, reservations>> /\ shared \subseteq shared'
    BY <1>3 DEF BeginHandler, Begin, ReadsOnly, inventoryVars
  <1>4. ASSUME NEW c \in Consumers,
               \/ FindNoTombstone(c) \/ ReadReservations(c)
               \/ \E p \in Wants(c) : MissProduct(c, p)
        PROVE  UNCHANGED <<reservedStock, reservations, shared>>
    BY <1>4 DEF FindNoTombstone, ReadReservations, MissProduct, GoTo, ReadsOnly, inventoryVars
  <1>5. ASSUME NEW c \in Consumers,
               \/ CommitPreCancelled(c) \/ CommitOutOfStock(c) \/ CommitTombstone(c)
               \/ RollBackCommand(c) \/ AbortDeadlocked(c)
        PROVE  UNCHANGED <<reservedStock, reservations, shared>>
    BY <1>5 DEF CommitPreCancelled, CommitOutOfStock, CommitTombstone, RecordTombstone, Commit, End,
                RollBackCommand, AbortDeadlocked, inventoryVars
  <1>6. CASE UNCHANGED inventoryTxVars
    BY <1>6 DEF inventoryTxVars, inventoryVars, lockVars
  <1> QED
    BY <1>1, <1>2, <1>3, <1>4, <1>5, <1>6 DEF InventoryTxNext, Step, CommitsCommand

(* If no order names a product twice, no interleaving of consumers promises*)
(* a product beyond its stock, shared orders included: the counter that is *)
(* checked is read under the product's lock, and written before it is given*)
(* back (InventoryManagementService.java:63-95).                           *)
THEOREM NeverOversoldByHandler ==
  ASSUME OneLinePerProduct
  PROVE  InventoryTxSpec => []NoOversell
  <1>1. InventoryTxInit => NoOversell
    BY TotalStockAssumption DEF InventoryTxInit, InventoryInit, NoOversell
  <1>2. ASSUME InventoryTxInv, NoOversell, [InventoryTxNext]_inventoryTxVars PROVE NoOversell'
    <2>1. ASSUME NEW c \in Consumers, CommitReserved(c) PROVE NoOversell'
      <3>1. Order(c) \in Orders
        BY <1>2, <2>1, JobFacts DEF CommitReserved, Busy
      <3> QED
        BY <1>2, <2>1, <3>1, ReservedIsReserve, ReserveFits DEF InventoryTxInv
    <2>2. ASSUME NEW c \in Consumers, CommitReleased(c) PROVE NoOversell'
      <3> SUFFICES ASSUME NEW p \in Products PROVE reservedStock'[p] <= TotalStock[p]
        BY DEF NoOversell
      <3> DEFINE q == seen[c]["RESERVED"] * Demand(Order(c), p)
      <3>1. reservedStock'[p] = Minus(reservedStock[p], q) /\ q \in Nat
        BY <1>2, <2>2, ReleasedIsReturn, DemandType DEF InventoryTxInv
      <3> HIDE DEF q
      <3>2. /\ reservedStock[p] \in Nat /\ TotalStock[p] \in Nat
            /\ reservedStock[p] <= TotalStock[p]
        BY <1>2, TotalStockAssumption DEF InventoryTxInv, InventoryTypeOK, NoOversell
      <3>3. Minus(reservedStock[p], q) \in Nat /\ Minus(reservedStock[p], q) <= reservedStock[p]
        BY <3>1, <3>2, MinusBound
      <3> QED
        BY <3>1, <3>2, <3>3
    <2>3. CASE UNCHANGED <<reservedStock, reservations>>
      BY <1>2, <2>3 DEF NoOversell
    <2> QED
      BY <1>2, <2>1, <2>2, <2>3, InventoryTxStock
  <1> QED
    BY <1>1, <1>2, InventoryTxInvCorrect, PTL DEF InventoryTxSpec

(* What the RESERVED rows of an order hold of product p. *)
HeldOf(p) == [o \in Orders |-> reservations[o]["RESERVED"] * Demand(o, p)]

LEMMA HeldOfSum ==
  ASSUME InventoryTypeOK, NEW p \in Products
  PROVE  /\ SumFunction(HeldOf(p)) = SumFunctionOnSet(HeldOf(p), Orders)
         /\ \A o \in Orders : HeldOf(p)[o] = reservations[o]["RESERVED"] * Demand(o, p)
         /\ \A o \in Orders : HeldOf(p)[o] \in Nat
  <1>1. \A o \in Orders : reservations[o]["RESERVED"] \in Nat /\ Demand(o, p) \in Nat
    BY DemandType DEF InventoryTypeOK
  <1>2. \A o \in Orders : reservations[o]["RESERVED"] * Demand(o, p) \in Nat
    BY <1>1
  <1>3. SumFunction(HeldOf(p)) = SumFunctionOnSet(HeldOf(p), Orders)
    BY DEF SumFunction, HeldOf
  <1> QED
    BY <1>2, <1>3 DEF HeldOf

(* Stock and rows of one product, when a commit changes those of order o.  *)
StockMatches(p) == reservedStock[p] = SumFunction(HeldOf(p))

LEMMA StockMatchesStep ==
  ASSUME InventoryTypeOK, InventoryTypeOK', NEW p \in Products, StockMatches(p),
         NEW o \in Orders, \A q \in Orders \ {o} : reservations'[q] = reservations[q],
         reservedStock'[p] - reservedStock[p] =
           reservations'[o]["RESERVED"] * Demand(o, p)
             - reservations[o]["RESERVED"] * Demand(o, p)
  PROVE  StockMatches(p)'
  <1> DEFINE f == HeldOf(p)
             g == [q \in Orders |-> reservations'[q]["RESERVED"] * Demand(q, p)]
  <1>1. g = HeldOf(p)'
    BY DEF HeldOf
  <1>2. \A q \in Orders : f[q] \in Nat
    BY HeldOfSum
  <1>3. g[o] = reservations'[o]["RESERVED"] * Demand(o, p) /\ g[o] \in Nat
    <2>1. reservations'[o]["RESERVED"] \in Nat /\ Demand(o, p) \in Nat
      BY DemandType DEF InventoryTypeOK
    <2> QED
      BY <2>1
  <1>4. \A q \in Orders \ {o} : g[q] = f[q]
    BY DEF HeldOf
  <1>5. f[o] = reservations[o]["RESERVED"] * Demand(o, p)
    BY HeldOfSum
  <1>6. SumFunction(g) = SumFunctionOnSet(g, Orders)
    BY DEF SumFunction
  <1>7. reservedStock[p] = SumFunctionOnSet(f, Orders)
    BY HeldOfSum DEF StockMatches
  <1> HIDE DEF f, g
  <1>8. SumFunctionOnSet(g, Orders) = SumFunctionOnSet(f, Orders) + (g[o] - f[o])
    BY <1>2, <1>3, <1>4, OrdersAssumption, SumChange
  <1>9. reservedStock'[p] \in Nat /\ reservedStock[p] \in Nat
    BY DEF InventoryTypeOK
  <1>10. reservedStock'[p] = SumFunction(g)
    BY <1>2, <1>3, <1>5, <1>6, <1>7, <1>8, <1>9
  <1> QED
    BY <1>1, <1>10 DEF StockMatches

(* One reservation is never more than the counter of its product. *)
LEMMA HeldInStock ==
  ASSUME InventoryTypeOK, NEW p \in Products, StockMatches(p), NEW o \in Orders
  PROVE  reservations[o]["RESERVED"] * Demand(o, p) <= reservedStock[p]
  <1> DEFINE f == HeldOf(p)
  <1>1. \A q \in Orders : f[q] \in Nat
    BY HeldOfSum
  <1>2. f[o] = reservations[o]["RESERVED"] * Demand(o, p)
    BY HeldOfSum
  <1>3. reservedStock[p] = SumFunctionOnSet(f, Orders)
    BY HeldOfSum DEF StockMatches
  <1> HIDE DEF f
  <1>4. SumFunctionOnSet(f, Orders) = f[o] + SumFunctionOnSet(f, Orders \ {o})
    BY <1>1, OrdersAssumption, SumRemove
  <1>5. SumFunctionOnSet(f, Orders \ {o}) \in Nat
    BY <1>1, OrdersAssumption, FS_RemoveElement, SumType
  <1> QED
    BY <1>1, <1>2, <1>3, <1>4, <1>5

LEMMA ReservedKeepsMatch ==
  ASSUME InventoryTxInv, InventoryTypeOK', NEW c \in Consumers, CommitReserved(c),
         NEW p \in Products, StockMatches(p)
  PROVE  StockMatches(p)'
  <1> SUFFICES ASSUME NEW o, o = Order(c) PROVE StockMatches(p)'
    OBVIOUS
  <1>1. o \in Orders
    BY JobFacts DEF CommitReserved, Busy
  <1>2. MakeReservation(o) /\ reservedStock'[p] = reservedStock[p] + Demand(o, p)
    BY ReservedIsReserve DEF Reserve
  <1>3. /\ reservations \in [Orders -> [{"RESERVED", "RELEASED"} -> Nat]]
        /\ reservations[o]["RESERVED"] \in Nat /\ reservedStock[p] \in Nat
        /\ Demand(o, p) \in Nat
    BY <1>1, DemandType DEF InventoryTxInv, InventoryTypeOK
  <1>4. CASE Items[o] = <<>>
    <2>1. Demand(o, p) = 0
      BY <1>1, <1>4, DemandUnnamed
    <2>2. reservations' = reservations
      BY <1>2, <1>4 DEF MakeReservation
    <2>3. reservedStock'[p] = reservedStock[p]
      BY <1>2, <1>3, <2>1
    <2> QED
      BY <2>2, <2>3 DEF StockMatches, HeldOf
  <1>5. CASE Items[o] # <<>>
    <2>1. reservations' = [reservations EXCEPT ![o]["RESERVED"] = @ + 1]
      BY <1>2, <1>5 DEF MakeReservation
    <2>2. /\ \A q \in Orders \ {o} : reservations'[q] = reservations[q]
          /\ reservations'[o]["RESERVED"] = reservations[o]["RESERVED"] + 1
      BY <1>1, <1>3, <2>1
    <2> DEFINE held == reservations[o]["RESERVED"] * Demand(o, p)
    <2>3. held \in Nat
      BY <1>3
    <2>4. reservations'[o]["RESERVED"] * Demand(o, p) = held + Demand(o, p)
      <3>1. (reservations[o]["RESERVED"] + 1) * Demand(o, p) = held + Demand(o, p)
        BY <1>3
      <3> QED
        BY <2>2, <3>1
    <2> HIDE DEF held
    <2>5. reservedStock'[p] - reservedStock[p] = reservations'[o]["RESERVED"] * Demand(o, p) - held
      BY <1>2, <1>3, <2>3, <2>4
    <2> QED
      BY <1>1, <2>2, <2>5, StockMatchesStep DEF InventoryTxInv, held
  <1> QED
    BY <1>4, <1>5

LEMMA ReleasedKeepsMatch ==
  ASSUME InventoryTxInv, InventoryTypeOK', NEW c \in Consumers, CommitReleased(c),
         NEW p \in Products, StockMatches(p),
         Order(c) \notin shared \/ Demand(Order(c), p) = 0
  PROVE  StockMatches(p)'
  <1> SUFFICES ASSUME NEW o, o = Order(c) PROVE StockMatches(p)'
    OBVIOUS
  <1> DEFINE k == StillReserved(c)
             r == reservations[o]["RESERVED"]
             d == Demand(o, p)
  <1>1. /\ o \in Orders /\ Releasing(c)
        /\ reservedStock'[p] = Minus(reservedStock[p], seen[c]["RESERVED"] * d)
        /\ k \in Nat /\ (seen[c] = reservations[o] => k = r)
    BY ReleasedIsReturn
  <1>2. /\ reservations \in [Orders -> [{"RESERVED", "RELEASED"} -> Nat]]
        /\ r \in Nat /\ reservedStock[p] \in Nat /\ d \in Nat
        /\ seen[c]["RESERVED"] \in Nat
    BY <1>1, DemandType DEF InventoryTxInv, InventoryTypeOK
  <1>3. /\ \A q \in Orders \ {o} : reservations'[q] = reservations[q]
        /\ reservations'[o]["RESERVED"] = r - k
    <2>1. reservations' = [reservations EXCEPT ![o]["RESERVED"] = @ - k, ![o]["RELEASED"] = @ + k]
      BY DEF CommitReleased
    <2> HIDE DEF k
    <2> QED
      BY <1>1, <1>2, <2>1
  <1>4. CASE d = 0
    <2>1. reservedStock'[p] = reservedStock[p]
      BY <1>1, <1>2, <1>4, MinusNone
    <2> HIDE DEF k, d
    <2>2. (r - k) * d = 0 /\ r * d = 0
      BY <1>1, <1>2, <1>4
    <2>3. reservedStock'[p] - reservedStock[p] = reservations'[o]["RESERVED"] * d - r * d
      BY <1>2, <1>3, <2>1, <2>2
    <2> QED
      BY <1>1, <1>3, <2>3, StockMatchesStep DEF InventoryTxInv, d
  <1>5. CASE o \notin shared
    <2>1. seen[c] = reservations[o]
      BY <1>1, <1>5 DEF InventoryTxInv, StillTrue, CommitReleased, Busy
    <2>2. r * d <= reservedStock[p]
      BY <1>1, HeldInStock DEF InventoryTxInv
    <2>3. reservedStock'[p] = Minus(reservedStock[p], r * d)
      BY <1>1, <2>1
    <2>4. reservations'[o]["RESERVED"] = 0
      BY <1>1, <1>2, <1>3, <2>1
    <2> HIDE DEF k, d, r
    <2>5. r * d \in Nat
      BY <1>2
    <2>6. reservedStock'[p] = reservedStock[p] - r * d
      BY <1>2, <2>2, <2>3, <2>5 DEF Minus
    <2>7. reservedStock'[p] - reservedStock[p] = reservations'[o]["RESERVED"] * d - r * d
      BY <1>2, <2>4, <2>5, <2>6
    <2> QED
      BY <1>1, <1>3, <2>7, StockMatchesStep DEF InventoryTxInv, d, r
  <1> QED
    BY <1>4, <1>5

(* The counter of a product is what the RESERVED rows hold of it, for any  *)
(* number of consumers, lines and orders, unless two consumers shared one  *)
(* of its orders: a reservation adds the same quantities that its rows     *)
(* give back, and never more than the counter has                          *)
(* (InventoryManagementService.java:84-95, 113-121).                       *)
THEOREM StockIsExplained == InventoryTxSpec => []StockMatchesUnlessShared
  <1>0. StockMatchesUnlessShared <=>
          \A p \in Products : (\A o \in shared : Demand(o, p) = 0) => StockMatches(p)
    BY DEF StockMatchesUnlessShared, StockMatches, HeldOf
  <1>1. InventoryTxInit => StockMatchesUnlessShared
    <2> SUFFICES ASSUME InventoryTxInit, NEW p \in Products PROVE StockMatches(p)
      BY <1>0
    <2>1. InventoryTypeOK /\ reservedStock[p] = 0
      BY InventoryTxInvInit DEF InventoryTxInv, InventoryTxInit, InventoryInit
    <2>2. \A o \in Orders : reservations[o]["RESERVED"] = 0 /\ Demand(o, p) \in Nat
      BY DemandType DEF InventoryTxInit, InventoryInit
    <2>3. \A o \in Orders : HeldOf(p)[o] = 0
      BY <2>2 DEF HeldOf
    <2>4. SumFunctionOnSet(HeldOf(p), Orders) = 0
      BY <2>3, OrdersAssumption, SumZero
    <2> QED
      BY <2>1, <2>4, HeldOfSum DEF StockMatches
  <1>2. ASSUME InventoryTxInv, InventoryTxInv', StockMatchesUnlessShared,
               [InventoryTxNext]_inventoryTxVars
        PROVE  StockMatchesUnlessShared'
    <2> SUFFICES ASSUME NEW p \in Products, \A o \in shared' : Demand(o, p) = 0
                 PROVE  StockMatches(p)'
      BY DEF StockMatchesUnlessShared, StockMatches, HeldOf
    <2>1. CASE UNCHANGED <<reservedStock, reservations>> /\ shared \subseteq shared'
      <3>1. StockMatches(p)
        BY <1>0, <1>2, <2>1
      <3> QED
        BY <2>1, <3>1 DEF StockMatches, HeldOf
    <2>2. ASSUME NEW c \in Consumers, shared' = shared, CommitReserved(c) \/ CommitReleased(c)
          PROVE  StockMatches(p)'
      <3>1. StockMatches(p) /\ (Order(c) \in shared => Demand(Order(c), p) = 0)
        BY <1>0, <1>2, <2>2
      <3>2. InventoryTypeOK'
        BY <1>2 DEF InventoryTxInv
      <3> QED
        BY <1>2, <2>2, <3>1, <3>2, ReservedKeepsMatch, ReleasedKeepsMatch
    <2> QED
      BY <1>2, <2>1, <2>2, InventoryTxStock
  <1> QED
    BY <1>1, <1>2, InventoryTxInvCorrect, PTL DEF InventoryTxSpec

-----------------------------------------------------------------------------
(* Each service, statement by statement, implements its atomic version.    *)

PaymentServiceSpec ==
    PaymentInit /\ [][\E o \in Orders : HandleInitiatePaymentCommand(o, 1)]_paymentVars

InventoryServiceSpec ==
    InventoryInit /\ [][\E o \in Orders : \/ HandleReserveInventoryCommand(o, 1)
                                          \/ HandleReleaseInventoryCommand(o, 1)]_inventoryVars

(* As long as no two consumers are in a handler for one order, what the    *)
(* payment handler's interleaved transactions do to the tables is a run of *)
(* atomic handlers; all other statements and rollbacks leave the tables    *)
(* as they are (PaymentProcessingService.java:30-150).                     *)
THEOREM PaymentImplementsService ==
  PaymentTxSpec /\ [](shared = {}) => PaymentServiceSpec
  <1>1. PaymentTxInit => PaymentInit
    BY DEF PaymentTxInit
  <1>2. PaymentTxInv /\ shared = {} /\ [PaymentTxNext]_paymentTxVars =>
          [\E o \in Orders : HandleInitiatePaymentCommand(o, 1)]_paymentVars
    <2> SUFFICES ASSUME PaymentTxInv, shared = {}, [PaymentTxNext]_paymentTxVars
                 PROVE  [\E o \in Orders : HandleInitiatePaymentCommand(o, 1)]_paymentVars
      OBVIOUS
    <2>1. ASSUME NEW c \in Consumers, CommitsPayment(c)
          PROVE  \E o \in Orders : HandleInitiatePaymentCommand(o, 1)
      <3>1. HandleInitiatePaymentCommand(Order(c), 1)
        BY <2>1, PaymentCommitIsHandler
      <3>2. Order(c) \in Orders
        BY <2>1, CapturedIsTransfer, FailedCannotPay DEF CommitsPayment
      <3> QED
        BY <3>1, <3>2
    <2>2. ASSUME NEW c \in Consumers,
                 \/ \E o \in Orders : BeginPayment(c, o)
                 \/ LockAccount(c) \/ RollBackPayment(c)
          PROVE  UNCHANGED paymentVars
      BY <2>2 DEF BeginPayment, LockAccount, LockCustomer, LockRevenue, RollBackPayment,
                  ReadsAccounts
    <2>3. CASE UNCHANGED paymentTxVars
      BY <2>3 DEF paymentTxVars
    <2> QED
      BY <2>1, <2>2, <2>3 DEF PaymentTxNext
  <1> QED
    BY <1>1, <1>2, PaymentTxInvCorrect, PTL DEF PaymentTxSpec, PaymentServiceSpec

(* The same for the inventory: its lines are locked one by one, other      *)
(* orders' lines in between, and yet the tables go through a run of atomic *)
(* handlers (InventoryManagementService.java:30-196).                      *)
THEOREM InventoryImplementsService ==
  InventoryTxSpec /\ [](shared = {}) => InventoryServiceSpec
  <1>1. InventoryTxInit => InventoryInit
    BY DEF InventoryTxInit
  <1> DEFINE handles == \E o \in Orders : \/ HandleReserveInventoryCommand(o, 1)
                                          \/ HandleReleaseInventoryCommand(o, 1)
  <1>2. InventoryTxInv /\ shared = {} /\ [InventoryTxNext]_inventoryTxVars => [handles]_inventoryVars
    <2> SUFFICES ASSUME InventoryTxInv, shared = {}, [InventoryTxNext]_inventoryTxVars
                 PROVE  [handles]_inventoryVars
      OBVIOUS
    <2>1. ASSUME NEW c \in Consumers, CommitsCommand(c) PROVE handles
      <3>1. \/ HandleReserveInventoryCommand(Order(c), 1)
            \/ HandleReleaseInventoryCommand(Order(c), 1)
        BY <2>1, ReserveCommitIsHandler, ReleaseCommitIsHandler DEF CommitsCommand
      <3>2. Busy(c)
        BY <2>1 DEF CommitsCommand, CommitPreCancelled, CommitOutOfStock, CommitReserved,
                    CommitTombstone, CommitReleased, Commit, End
      <3>3. Order(c) \in Orders
        BY <3>2, JobFacts
      <3> QED
        BY <3>1, <3>3
    <2>2. ASSUME NEW c \in Consumers,
                 \/ \E o \in Orders, t \in InventoryCommands : BeginHandler(c, t, o)
                 \/ Lock(c) \/ RollBackCommand(c) \/ AbortDeadlocked(c)
                 \/ FindNoTombstone(c) \/ ReadReservations(c)
                 \/ \E p \in Wants(c) : MissProduct(c, p)
          PROVE  UNCHANGED inventoryVars
      BY <2>2 DEF BeginHandler, Lock, LockLine, LockReserved, RollBackCommand, AbortDeadlocked,
                  FindNoTombstone, ReadReservations, MissProduct, ReadsOnly
    <2>3. CASE UNCHANGED inventoryTxVars
      BY <2>3 DEF inventoryTxVars
    <2> QED
      BY <2>1, <2>2, <2>3 DEF InventoryTxNext, Step
  <1> QED
    BY <1>1, <1>2, InventoryTxInvCorrect, PTL DEF InventoryTxSpec, InventoryServiceSpec
=============================================================================
