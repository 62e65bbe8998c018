-------------------------- MODULE OrderOutboxRelay --------------------------
(***************************************************************************)
(* OutboxRelayService of services/order-service. A poll claims a batch and *)
(* sends its rows concurrently, outside of any transaction; isProcessing   *)
(* keeps the next poll of the same process away until every row of the     *)
(* batch has been dealt with. The service may run as several processes,    *)
(* and a process may stop at any point.                                    *)
(***************************************************************************)
EXTENDS OutboxTable

CONSTANT Relays     \* the processes that run a relay

VARIABLES
    stage,          \* how far a relay is with a row it claimed
    claimedRetries  \* event.retryCount as the claim returned it

relayVars == <<tableVars, stage, claimedRetries>>

Stages == {"idle", "sending", "acknowledged", "rejected"}

RelayTypeOK ==
    /\ TableTypeOK
    /\ stage \in [Relays -> [Rows -> Stages]]
    /\ claimedRetries \in [Relays -> [Rows -> Nat]]
    /\ \A r \in Rows : retryCount[r] <= MaxRetries

Init ==
    /\ TableInit
    /\ stage = [w \in Relays |-> [r \in Rows |-> "idle"]]
    /\ claimedRetries = [w \in Relays |-> [r \in Rows |-> 0]]

isProcessing(w) == \E r \in Rows : stage[w][r] # "idle"

SetStage(w, r, from, to) ==
    /\ stage[w][r] = from
    /\ stage' = [stage EXCEPT ![w][r] = to]
    /\ UNCHANGED claimedRetries

(* pollAndRelayOutbox, up to the sends. *)
Poll(w) ==
    /\ ~isProcessing(w)
    /\ Claim
    /\ stage' = [stage EXCEPT ![w] =
         [r \in Rows |-> IF r \in Batch THEN "sending" ELSE "idle"]]
    /\ claimedRetries' = [claimedRetries EXCEPT ![w] =
         [r \in Rows |-> IF r \in Batch THEN retryCount[r] ELSE @[r]]]
    /\ UNCHANGED published

(* Mutant of SendSucceeds. *)
BugSendNothing(w, r) ==
    /\ SetStage(w, r, "sending", "acknowledged")
    /\ UNCHANGED tableVars

(* kafkaProducer.emitEvent resolves, *)
SendSucceeds(w, r) ==
    /\ SetStage(w, r, "sending", "acknowledged")
    /\ published' = published \cup {r}
    /\ UNCHANGED <<rowStatus, leased, retryCount>>

(* or rejects, whether or not the broker stored the record. *)
SendFails(w, r) ==
    /\ SetStage(w, r, "sending", "rejected")
    /\ published' \in {published, published \cup {r}}
    /\ UNCHANGED <<rowStatus, leased, retryCount>>

MarkProcessed(w, r) ==
    /\ SetStage(w, r, "acknowledged", "idle")
    /\ SetOutcome(r, "PROCESSED")
    /\ UNCHANGED <<retryCount, published>>

(* The update is inside the try block of the send: its failure counts as   *)
(* one of the send.                                                        *)
MarkProcessedFails(w, r) ==
    /\ SetStage(w, r, "acknowledged", "rejected")
    /\ UNCHANGED tableVars

(* handleRelayFailure counts from what the claim returned. *)
HandleRelayFailure(w, r) ==
    /\ SetStage(w, r, "rejected", "idle")
    /\ Fail(r, claimedRetries[w][r] + 1)
    /\ UNCHANGED published

(* Its own failure is swallowed by Promise.allSettled. *)
HandleRelayFailureFails(w, r) ==
    /\ SetStage(w, r, "rejected", "idle")
    /\ UNCHANGED tableVars

(* The process stops and starts again: isProcessing is false. *)
Restart(w) ==
    /\ isProcessing(w)
    /\ stage' = [stage EXCEPT ![w] = [r \in Rows |-> "idle"]]
    /\ UNCHANGED <<tableVars, claimedRetries>>

(* The hourly job: PROCESSED rows of more than a day ago. No relay has a   *)
(* row in hand for that long.                                              *)
CleanupArchivedOutboxEvents(r) ==
    /\ rowStatus[r] = "PROCESSED"
    /\ \A w \in Relays : stage[w][r] = "idle"
    /\ rowStatus' = [rowStatus EXCEPT ![r] = "DELETED"]
    /\ UNCHANGED <<leased, retryCount, published, stage, claimedRetries>>

-----------------------------------------------------------------------------
TableStep(A) == A /\ UNCHANGED <<stage, claimedRetries>>

Send(w, r) == SendSucceeds(w, r) \/ SendFails(w, r)

Next ==
    \/ \E r \in Rows :
         TableStep(Write(r)) \/ TableStep(LeaseExpires(r)) \/ CleanupArchivedOutboxEvents(r)
    \/ \E w \in Relays :
         \/ Poll(w) \/ Restart(w)
         \/ \E r \in Rows :
              \/ Send(w, r) \/ MarkProcessed(w, r) \/ MarkProcessedFails(w, r)
              \/ HandleRelayFailure(w, r) \/ HandleRelayFailureFails(w, r)

Spec == Init /\ [][Next]_relayVars

(***************************************************************************)
(* The poller runs every 400 ms and time passes. A send ends (kafkajs      *)
(* gives up after five retries), and its outcome is written, unless the    *)
(* process stops or the database refuses; neither happens every time,      *)
(* hence strong fairness.                                                  *)
(***************************************************************************)
RelayFairness(w) ==
    /\ WF_relayVars(Poll(w))
    /\ \A r \in Rows : /\ SF_relayVars(Send(w, r))
                       /\ SF_relayVars(MarkProcessed(w, r))
                       /\ SF_relayVars(HandleRelayFailure(w, r))

Fairness ==
    /\ \A r \in Rows : WF_relayVars(TableStep(LeaseExpires(r)))
    /\ \A w \in Relays : RelayFairness(w)

FairSpec == Spec /\ Fairness

-----------------------------------------------------------------------------
(* The relay implements the channel the saga relies on.                    *)
Channel == INSTANCE OutboxChannel WITH
    written <- {r \in Rows : rowStatus[r] # "NONE"},
    abandoned <- {r \in Rows : rowStatus[r] = "FAILED"}

ImplementsChannel == Channel!Spec
=============================================================================
