------------------------- MODULE PaymentTransactions -------------------------
(***************************************************************************)
(* handleInitiatePaymentCommand of PaymentProcessingService, statement by  *)
(* statement, run by several consumers at once.                            *)
(***************************************************************************)
EXTENDS PaymentService, RowLocks

paymentTxVars == <<paymentVars, lockVars>>

PaymentTxTypeOK ==
    /\ PaymentTypeOK
    /\ LocksTypeOK({"InitiatePaymentCommand"},
                   {"idle", "charging", "debited", "credited", "failed"}, Accounts)

PaymentTxInit == PaymentInit /\ LocksInit

ReadsAccounts == UNCHANGED paymentVars

(* existsById finds no processed_events row. *)
BeginPayment(c, o) ==
    /\ <<"InitiatePaymentCommand", o, 1>> \notin paymentProcessed
    /\ Begin(c, "InitiatePaymentCommand", o, "charging")
    /\ ReadsAccounts

(* Mutant of LockCustomer. *)
BugRevenueMayGoFirst(c) ==
    /\ stage[c] = "charging"
    /\ \/ LockRow(c, Revenue, balance[Revenue], "charging")
       \/ LockRow(c, Customer[Order(c)], balance[Customer[Order(c)]], "debited")
    /\ ReadsAccounts

(* The customer's account is locked, then its balance is read.             *)
LockCustomer(c) ==
    /\ stage[c] = "charging"
    /\ LET a == Customer[Order(c)]
       IN  \/ a \notin Accounts /\ GoTo(c, "failed")
           \/ /\ a \in Accounts
              /\ LockRow(c, a, balance[a], IF CanPay(Order(c)) THEN "debited" ELSE "failed")
    /\ ReadsAccounts

LockRevenue(c) ==
    /\ stage[c] = "debited"
    /\ LockRow(c, Revenue, balance[Revenue], "credited")
    /\ ReadsAccounts

(* Mutant of WrittenBack. *)
BugCreditOnly(c) == [loaded[c] EXCEPT ![Revenue] = @ + Amount[Order(c)]]

(* What is written back: the customer's row may be the revenue's.          *)
WrittenBack(c) ==
    LET o == Order(c)
        debited == [loaded[c] EXCEPT ![Customer[o]] = @ - Amount[o]]
    IN  [debited EXCEPT ![Revenue] = @ + Amount[o]]

CommitCaptured(c) ==
    /\ stage[c] = "credited"
    /\ balance' = [a \in Accounts |-> IF a \in Locked(c) THEN WrittenBack(c)[a] ELSE balance[a]]
    /\ RecordTransaction(Order(c), "SUCCESS", "PaymentCapturedEvent")
    /\ RecordPaid(Order(c), 1)
    /\ End(c)

CommitFailed(c) ==
    /\ stage[c] = "failed"
    /\ RecordFailedPayment(Order(c))
    /\ RecordPaid(Order(c), 1)
    /\ End(c)

RollBackPayment(c) == End(c) /\ UNCHANGED paymentVars

PaymentWants(c) ==
    CASE stage[c] = "charging" -> {Customer[Order(c)]} \cap Accounts
      [] stage[c] = "debited" -> {Revenue} \ Locked(c)
      [] OTHER -> {}

-----------------------------------------------------------------------------
CommitsPayment(c) == CommitCaptured(c) \/ CommitFailed(c)

LockAccount(c) == LockCustomer(c) \/ LockRevenue(c)

PaymentTxNext ==
    \E c \in Consumers :
        \/ \E o \in Orders : BeginPayment(c, o)
        \/ LockAccount(c) \/ CommitsPayment(c) \/ RollBackPayment(c)

PaymentTxSpec == PaymentTxInit /\ [][PaymentTxNext]_paymentTxVars

PaymentTxFairness ==
    \A c \in Consumers :
        WF_paymentTxVars(CommitsPayment(c)) /\ SF_paymentTxVars(LockAccount(c))

-----------------------------------------------------------------------------
(* What the composed saga rests on: unless two consumers were in the       *)
(* handler for one order at the same time, a commit does what the whole    *)
(* handler does in one step. Other orders of the customer and all captures *)
(* compete for the same two rows.                                          *)
PaymentsAreAtomic ==
    [][\A c \in Consumers : CommitsPayment(c) /\ Order(c) \notin shared =>
         HandleInitiatePaymentCommand(Order(c), 1)]_paymentTxVars

(* One command charges once, redeliveries, failures and retries included,  *)
(* unless two consumers shared it: both find no processed_events row       *)
(* before the first one has the account's lock.                            *)
OneChargeUnlessShared ==
    \A o \in Orders \ shared : ledger[o]["SUCCESS"] + ledger[o]["FAILED"] <= 1

(* No two payments wait for each other: the customer's account is always   *)
(* locked before system_revenue, which may itself be a customer.           *)
NoLockCycle ==
    \A c \in Consumers : ~Deadlocked(c, [d \in Consumers |-> PaymentWants(d)])
=============================================================================
