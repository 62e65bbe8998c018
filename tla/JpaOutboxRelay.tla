--------------------------- MODULE JpaOutboxRelay ---------------------------
(***************************************************************************)
(* OutboxRelayService of the inventory and payment services: two copies of *)
(* one class. Unlike the order service's relay, a poll does not wait for   *)
(* the answers of its sends, so a row whose lease ran out may be sent again*)
(* while the first send is unanswered. An answer is handled by a callback  *)
(* that reads the row and saves it in two transactions: @Transactional has *)
(* no effect on a method the object calls on itself.                       *)
(***************************************************************************)
EXTENDS OutboxTable

CONSTANTS
    Relays,     \* the processes that run a relay
    MaxSends    \* bound: unanswered sends of one row by one process

ASSUME JpaRelayAssumption == MaxSends \in Nat \ {0}

VARIABLES
    claimedEvents,  \* rows of the current poll that are still to be sent
    sends,          \* how many sends of a row Kafka has not answered
    callback,       \* what a row's callback is about to do
    readRetries     \* event.getRetryCount() as the callback read it

callbackVars == <<callback, readRetries>>
jpaVars == <<tableVars, claimedEvents, sends, callbackVars>>

Callbacks == {"none", "markProcessed", "handleFailure", "saveProcessed", "saveFailure"}

JpaRelayTypeOK ==
    /\ TableTypeOK
    /\ claimedEvents \in [Relays -> SUBSET Rows]
    /\ sends \in [Relays -> [Rows -> 0 .. MaxSends]]
    /\ callback \in [Relays -> [Rows -> Callbacks]]
    /\ readRetries \in [Relays -> [Rows -> Nat]]

Init ==
    /\ TableInit
    /\ claimedEvents = [w \in Relays |-> {}]
    /\ sends = [w \in Relays |-> [r \in Rows |-> 0]]
    /\ callback = [w \in Relays |-> [r \in Rows |-> "none"]]
    /\ readRetries = [w \in Relays |-> [r \in Rows |-> 0]]

(* The scheduler starts a poll once the one before has returned. *)
PollAndRelayOutbox(w) ==
    /\ claimedEvents[w] = {}
    /\ Claim
    /\ claimedEvents' = [claimedEvents EXCEPT ![w] = Batch]
    /\ UNCHANGED <<published, sends, callbackVars>>

Send(w, r) ==
    /\ r \in claimedEvents[w]
    /\ sends[w][r] < MaxSends
    /\ claimedEvents' = [claimedEvents EXCEPT ![w] = @ \ {r}]
    /\ sends' = [sends EXCEPT ![w][r] = @ + 1]
    /\ UNCHANGED <<tableVars, callbackVars>>

(* kafkaTemplate.send throws: the poll ends, its other rows wait for their *)
(* leases to run out.                                                      *)
SendThrows(w) ==
    /\ claimedEvents[w] # {}
    /\ claimedEvents' = [claimedEvents EXCEPT ![w] = {}]
    /\ UNCHANGED <<tableVars, sends, callbackVars>>

Step(w, r, from, to) ==
    /\ callback[w][r] = from
    /\ callback' = [callback EXCEPT ![w][r] = to]

Answered(w, r, then) ==
    /\ sends[w][r] > 0
    /\ sends' = [sends EXCEPT ![w][r] = @ - 1]
    /\ Step(w, r, "none", then)
    /\ UNCHANGED <<rowStatus, leased, retryCount, claimedEvents, readRetries>>

(* Mutant of Acknowledge. *)
BugSendNothing(w, r) == Answered(w, r, "markProcessed") /\ UNCHANGED published

(* Kafka acknowledges a send, *)
Acknowledge(w, r) ==
    /\ Answered(w, r, "markProcessed")
    /\ published' = published \cup {r}

(* or the producer gives it up, whether or not Kafka has the record.       *)
GiveUp(w, r) ==
    /\ Answered(w, r, "handleFailure")
    /\ published' \in {published, published \cup {r}}

(* findById, in a transaction of its own. *)
FindById(w, r) ==
    /\ \/ Step(w, r, "markProcessed", "saveProcessed")
       \/ Step(w, r, "handleFailure", "saveFailure")
    /\ readRetries' = [readRetries EXCEPT ![w][r] = retryCount[r]]
    /\ UNCHANGED <<tableVars, claimedEvents, sends>>

(* save writes every column, retry_count as it was read. *)
SaveProcessed(w, r) ==
    /\ Step(w, r, "saveProcessed", "none")
    /\ SetOutcome(r, "PROCESSED")
    /\ retryCount' = [retryCount EXCEPT ![r] = readRetries[w][r]]
    /\ UNCHANGED <<published, claimedEvents, sends, readRetries>>

SaveFailure(w, r) ==
    /\ Step(w, r, "saveFailure", "none")
    /\ Fail(r, readRetries[w][r] + 1)
    /\ UNCHANGED <<published, claimedEvents, sends, readRetries>>

(* The database refuses; the future of whenComplete keeps the exception    *)
(* and nobody looks at it.                                                 *)
CallbackFails(w, r) ==
    /\ callback[w][r] # "none"
    /\ callback' = [callback EXCEPT ![w][r] = "none"]
    /\ UNCHANGED <<tableVars, claimedEvents, sends, readRetries>>

(* The process stops and starts again. *)
Restart(w) ==
    /\ claimedEvents' = [claimedEvents EXCEPT ![w] = {}]
    /\ sends' = [sends EXCEPT ![w] = [r \in Rows |-> 0]]
    /\ callback' = [callback EXCEPT ![w] = [r \in Rows |-> "none"]]
    /\ UNCHANGED <<tableVars, readRetries>>

-----------------------------------------------------------------------------
TableStep(A) == A /\ UNCHANGED <<claimedEvents, sends, callbackVars>>

Save(w, r) == SaveProcessed(w, r) \/ SaveFailure(w, r)

Next ==
    \/ \E r \in Rows : TableStep(Write(r)) \/ TableStep(LeaseExpires(r))
    \/ \E w \in Relays :
         \/ PollAndRelayOutbox(w) \/ SendThrows(w) \/ Restart(w)
         \/ \E r \in Rows :
              \/ Send(w, r) \/ Acknowledge(w, r) \/ GiveUp(w, r)
              \/ FindById(w, r) \/ Save(w, r) \/ CallbackFails(w, r)

Spec == Init /\ [][Next]_jpaVars

(***************************************************************************)
(* The poller runs every 400 ms, time passes, and the producer answers     *)
(* within its delivery timeout. A send that throws, a refused save and a   *)
(* stop may each happen again and again but not every time: strong         *)
(* fairness.                                                               *)
(***************************************************************************)
Fairness ==
    /\ \A r \in Rows : WF_jpaVars(TableStep(LeaseExpires(r)))
    /\ \A w \in Relays :
         /\ WF_jpaVars(PollAndRelayOutbox(w))
         /\ \A r \in Rows : /\ SF_jpaVars(Send(w, r))
                            /\ SF_jpaVars(Acknowledge(w, r) \/ GiveUp(w, r))
                            /\ SF_jpaVars(FindById(w, r))
                            /\ SF_jpaVars(Save(w, r))

FairSpec == Spec /\ Fairness

-----------------------------------------------------------------------------
(* This relay, too, implements the channel the saga relies on, although    *)
(* its late callbacks may set a PROCESSED or FAILED row back to PENDING.   *)
Channel == INSTANCE OutboxChannel WITH
    written <- {r \in Rows : rowStatus[r] # "NONE"},
    abandoned <- {r \in Rows : rowStatus[r] = "FAILED"}

ImplementsChannel == Channel!Spec
=============================================================================
