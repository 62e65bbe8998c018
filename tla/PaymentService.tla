--------------------------- MODULE PaymentService ---------------------------
(***************************************************************************)
(* PaymentProcessingService of services/payment-service: the accounts,     *)
(* ledger_transactions and processed_events tables, and the handler of     *)
(* InitiatePaymentCommand, the service's only command: there is no refund. *)
(* The handler is one @Transactional method that locks the account rows it *)
(* reads (findByCustomerIdWithLock), so it is one atomic step here.        *)
(***************************************************************************)
EXTENDS Integers, Functions, OrderIds

CONSTANTS
    InitialBalance,   \* the balance of every account, by customer id
    Revenue,          \* the customer id "system_revenue"
    Customer,         \* the customer of each order, who may have no account
    Amount            \* totalAmount of each order

Accounts == DOMAIN InitialBalance

(* handleInitiatePaymentCommand creates the revenue account with balance 0 *)
(* when it is missing; an account that does not exist yet is one with      *)
(* balance 0 here. DataInitializer seeds it.                               *)
ASSUME PaymentAssumption ==
    /\ InitialBalance \in [Accounts -> Nat]
    /\ Revenue \in Accounts
    /\ Amount \in [Orders -> Nat]

PaymentEventTypes == {"PaymentCapturedEvent", "PaymentFailedEvent"}

VARIABLES
    balance,            \* accounts.balance
    ledger,             \* number of ledger transactions of an order, by status
    paymentProcessed,   \* processed_events: ids of the commands handled
    paymentOutbox       \* number of event rows written, by order and type

paymentVars == <<balance, ledger, paymentProcessed, paymentOutbox>>

PaymentTypeOK ==
    /\ balance \in [Accounts -> Int]
    /\ ledger \in [Orders -> [{"SUCCESS", "FAILED"} -> Nat]]
    /\ paymentProcessed \in SUBSET ({"InitiatePaymentCommand"} \X Orders \X Nat)
    /\ paymentOutbox \in [Orders -> [PaymentEventTypes -> Nat]]

PaymentInit ==
    /\ balance = InitialBalance
    /\ ledger = [o \in Orders |-> [s \in {"SUCCESS", "FAILED"} |-> 0]]
    /\ paymentProcessed = {}
    /\ paymentOutbox = [o \in Orders |-> [t \in PaymentEventTypes |-> 0]]

-----------------------------------------------------------------------------
(* A ledger transaction and the event that reports it. *)
RecordTransaction(o, s, event) ==
    /\ ledger' = [ledger EXCEPT ![o][s] = @ + 1]
    /\ paymentOutbox' = [paymentOutbox EXCEPT ![o][event] = @ + 1]

(* recordFailedPayment: ACCOUNT_NOT_FOUND or INSUFFICIENT_FUNDS. *)
RecordFailedPayment(o) ==
    /\ RecordTransaction(o, "FAILED", "PaymentFailedEvent")
    /\ UNCHANGED balance

(* Debit the customer, then credit the revenue: one account may be both. *)
Transfer(o) ==
    LET debited == [balance EXCEPT ![Customer[o]] = @ - Amount[o]]
    IN  balance' = [debited EXCEPT ![Revenue] = @ + Amount[o]]

(* Mutant of CanPay. *)
BugCanPayAnything(o) == Customer[o] \in Accounts

CanPay(o) == Customer[o] \in Accounts /\ balance[Customer[o]] >= Amount[o]

(* Mutant of RecordPaid. *)
BugForgetPaid(o, n) == UNCHANGED paymentProcessed

RecordPaid(o, n) ==
    paymentProcessed' = paymentProcessed \cup {<<"InitiatePaymentCommand", o, n>>}

(* handleInitiatePaymentCommand, for the n-th such command of order o. *)
HandleInitiatePaymentCommand(o, n) ==
    /\ <<"InitiatePaymentCommand", o, n>> \notin paymentProcessed
    /\ \/ ~CanPay(o) /\ RecordFailedPayment(o)
       \/ /\ CanPay(o)
          /\ Transfer(o)
          /\ RecordTransaction(o, "SUCCESS", "PaymentCapturedEvent")
    /\ RecordPaid(o, n)

-----------------------------------------------------------------------------
Captured(o) == ledger[o]["SUCCESS"] > 0

Transferred(os) ==
    SumFunctionOnSet([o \in Orders |-> ledger[o]["SUCCESS"] * Amount[o]], os)

(* No account is overdrawn, although a customer's orders are paid in any   *)
(* order and a command may be delivered again.                             *)
NoOverdraft == \A a \in Accounts : balance[a] >= 0

(* Every balance is what the ledger's transactions say it is: no money     *)
(* appears, disappears or moves twice for one transaction.                 *)
LedgerExplainsBalances ==
    \A a \in Accounts :
        balance[a] = InitialBalance[a]
                     - Transferred({o \in Orders : Customer[o] = a})
                     + (IF a = Revenue
                        THEN Transferred({o \in Orders : Customer[o] \in Accounts})
                        ELSE 0)
=============================================================================
