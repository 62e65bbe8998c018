-------------------------- MODULE IngressIdempotency --------------------------
(***************************************************************************)
(* How POST /api/v1/orders keeps a repeated checkout from becoming a       *)
(* second order: IdempotencyMiddleware looks the Idempotency-Key up,       *)
(* createOrder looks again inside its transaction (READ COMMITTED), and    *)
(* the unique index on orders.idempotency_key decides between transactions *)
(* that both found nothing. Requests run concurrently, in one process or   *)
(* several. An order is named by the request that created it.              *)
(***************************************************************************)
EXTENDS FiniteSets

CONSTANTS
    Requests,   \* HTTP requests; a client's retry is a request of its own
    Key         \* the Idempotency-Key of a request

Keys == {Key[q] : q \in Requests}
NoOrder == "no order"

ASSUME IngressAssumption ==
    Requests \cap {NoOrder, "none", "conflict", "error"} = {}

VARIABLES
    pc,         \* where a request is
    orders,     \* orders rows, each with its key, items and outbox row
    recorded,   \* ingress_idempotency_keys: the order a key's response names
    answer      \* what the client was told

ingressVars == <<pc, orders, recorded, answer>>

IngressTypeOK ==
    /\ pc \in [Requests -> {"sent", "next", "notFound", "inserted", "committed", "done"}]
    /\ orders \in SUBSET Requests
    /\ recorded \in [Keys -> Requests \cup {NoOrder}]
    /\ answer \in [Requests -> Requests \cup {"none", "conflict", "error"}]

Init ==
    /\ pc = [q \in Requests |-> "sent"]
    /\ orders = {}
    /\ recorded = [k \in Keys |-> NoOrder]
    /\ answer = [q \in Requests |-> "none"]

Known(q) == recorded[Key[q]] # NoOrder

Goto(q, from, to) == pc[q] = from /\ pc' = [pc EXCEPT ![q] = to]

Answer(q, from, a) ==
    /\ Goto(q, from, "done")
    /\ answer' = [answer EXCEPT ![q] = a]
    /\ UNCHANGED <<orders, recorded>>

(* IdempotencyMiddleware.use: the recorded response, or the controller,    *)
(* also when the lookup itself fails.                                      *)
MiddlewareReplays(q) == Known(q) /\ Answer(q, "sent", recorded[Key[q]])

MiddlewarePasses(q) ==
    /\ Goto(q, "sent", "next")
    /\ UNCHANGED <<orders, recorded, answer>>

(* createOrder: the same lookup in a transaction. *)
CreateOrderReplays(q) == Known(q) /\ Answer(q, "next", recorded[Key[q]])

(* Mutant of FindNothing. *)
BugFindNothing(q) ==
    /\ Goto(q, "next", "notFound")
    /\ UNCHANGED <<orders, recorded, answer>>

FindNothing(q) ==
    /\ ~Known(q)
    /\ Goto(q, "next", "notFound")
    /\ UNCHANGED <<orders, recorded, answer>>

(* Mutant of MustWait. *)
BugMustWait(q) ==
    \E p \in Requests \ {q} : Key[p] = Key[q] /\ pc[p] \in {"notFound", "inserted"}

(* The unique index: an insert waits for a transaction that inserted the   *)
(* same key to end.                                                        *)
MustWait(q) == \E p \in Requests : Key[p] = Key[q] /\ pc[p] = "inserted"

(* Mutant of Taken. *)
BugTaken(q) == FALSE

Taken(q) == \E p \in orders : Key[p] = Key[q]

InsertOrder(q) ==
    /\ ~MustWait(q)
    /\ ~Taken(q)
    /\ Goto(q, "notFound", "inserted")
    /\ UNCHANGED <<orders, recorded, answer>>

(* The index refuses the order; the transaction is rolled back and the     *)
(* error is thrown on: HTTP 500.                                           *)
InsertConflicts(q) == ~MustWait(q) /\ Taken(q) /\ Answer(q, "notFound", "conflict")

(* Order, items, outbox row and idempotency record become visible.         *)
Commit(q) ==
    /\ orders' = orders \cup {q}
    /\ recorded' = [recorded EXCEPT ![Key[q]] = q]

CommitTransaction(q) ==
    /\ Goto(q, "inserted", "committed")
    /\ Commit(q)
    /\ UNCHANGED answer

Respond(q) == Answer(q, "committed", q)

(* The connection breaks while COMMIT is answered: the order exists and    *)
(* the client gets an error.                                               *)
CommitUnacknowledged(q) ==
    /\ Goto(q, "inserted", "done")
    /\ Commit(q)
    /\ answer' = [answer EXCEPT ![q] = "error"]

(* A statement fails: rollback, HTTP 500. *)
TransactionFails(q) == \E at \in {"next", "notFound", "inserted"} : Answer(q, at, "error")

(* The process or the client's connection is gone: an open transaction is  *)
(* rolled back, and the client hears nothing.                              *)
ConnectionLost(q) == pc[q] # "done" /\ Answer(q, pc[q], "none")

-----------------------------------------------------------------------------
Proceed(q) ==
    \/ MiddlewareReplays(q) \/ MiddlewarePasses(q)
    \/ CreateOrderReplays(q) \/ FindNothing(q)
    \/ InsertOrder(q) \/ InsertConflicts(q)
    \/ CommitTransaction(q) \/ Respond(q)

Next == \E q \in Requests :
    \/ Proceed(q)
    \/ CommitUnacknowledged(q) \/ TransactionFails(q) \/ ConnectionLost(q)

Spec == Init /\ [][Next]_ingressVars

(* Every statement is executed and answered in the end. *)
FairSpec == Spec /\ \A q \in Requests : WF_ingressVars(Proceed(q))

-----------------------------------------------------------------------------
(* A key buys at most one order, and the recorded response names it: the   *)
(* three checks leave no gap for concurrent retries.                       *)
OneOrderPerKey ==
    /\ \A p, q \in orders : Key[p] = Key[q] => p = q
    /\ \A k \in Keys : recorded[k] # NoOrder <=> \E q \in orders : Key[q] = k
    /\ \A k \in Keys : recorded[k] # NoOrder => recorded[k] \in orders /\ Key[recorded[k]] = k

(* All clients of a key that are told of an order are told of the same one,*)
(* and it exists, whichever retry created it.                              *)
OneAnswerPerKey ==
    \A q \in Requests : answer[q] \in Requests => answer[q] = recorded[Key[q]]

(* A retry that starts after the order was committed is never refused as a *)
(* duplicate.                                                              *)
LateRetryIsReplayed ==
    \A q \in Requests :
        [](pc[q] \in {"sent", "next"} /\ Known(q) => [](answer[q] # "conflict"))

(* No request waits for ever, in particular not for the index entry of a   *)
(* transaction that is rolled back.                                        *)
EveryRequestEnds == \A q \in Requests : <>(pc[q] = "done")
=============================================================================
