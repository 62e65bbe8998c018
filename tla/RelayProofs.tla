----------------------------- MODULE RelayProofs -----------------------------
(* The order service's relay, for any number of processes and rows: what   *)
(* it marks as processed was published, and its steps are steps of the     *)
(* abstract channel.                                                       *)
EXTENDS OrderOutboxRelay, TLAPS

(* A row in a relay's hands was written, and one it is about to mark was   *)
(* acknowledged by Kafka.                                                  *)
RelayInv ==
    /\ rowStatus \in [Rows -> OutboxStatus \cup {"NONE", "DELETED"}]
    /\ stage \in [Relays -> [Rows -> Stages]]
    /\ published \in SUBSET Rows
    /\ \A w \in Relays, r \in Rows :
          /\ stage[w][r] # "idle" => rowStatus[r] # "NONE"
          /\ stage[w][r] = "acknowledged" => r \in published
    /\ \A r \in published : rowStatus[r] # "NONE"
    /\ NoSilentLoss

LEMMA RelayInvInit == Init => RelayInv
BY DEF Init, TableInit, RelayInv, OutboxStatus, Stages, NoSilentLoss

(* What a row's status may become: written rows stay written. *)
LEMMA ClaimFacts ==
    ASSUME RelayInv, Claim
    PROVE  /\ rowStatus' \in [Rows -> OutboxStatus \cup {"NONE", "DELETED"}]
           /\ \A r \in Batch : rowStatus[r] \in {"PENDING", "IN_FLIGHT"}
           /\ \A r \in Rows : rowStatus'[r] = IF r \in Batch THEN "IN_FLIGHT" ELSE rowStatus[r]
BY DEF RelayInv, Claim, Batch, Claimable, OutboxStatus

LEMMA OutcomeFacts ==
    ASSUME NEW r \in Rows, NEW s \in OutboxStatus, RelayInv, SetOutcome(r, s)
    PROVE  /\ rowStatus' \in [Rows -> OutboxStatus \cup {"NONE", "DELETED"}]
           /\ rowStatus'[r] \in {s, rowStatus[r]}
           /\ rowStatus'[r] = "NONE" <=> rowStatus[r] = "NONE"
           /\ \A q \in Rows \ {r} : rowStatus'[q] = rowStatus[q]
<1>1. CASE Exists(r)
    BY <1>1 DEF RelayInv, SetOutcome, Exists, OutboxStatus
<1>2. CASE ~Exists(r)
    BY <1>2 DEF RelayInv, SetOutcome
<1> QED
    BY <1>1, <1>2

LEMMA StageFacts ==
    ASSUME NEW w \in Relays, NEW r \in Rows, NEW from \in Stages, NEW to \in Stages,
           RelayInv, SetStage(w, r, from, to)
    PROVE  /\ stage' \in [Relays -> [Rows -> Stages]]
           /\ stage[w][r] = from /\ stage'[w][r] = to
           /\ \A v \in Relays, q \in Rows :
                 <<v, q>> # <<w, r>> => stage'[v][q] = stage[v][q]
BY DEF RelayInv, SetStage

(* A relay takes a row it has in hand one stage further. *)
LEMMA StageKeepsInv ==
    ASSUME NEW w \in Relays, NEW r \in Rows, NEW from \in Stages, NEW to \in Stages,
           RelayInv, SetStage(w, r, from, to), from # "idle",
           rowStatus' \in [Rows -> OutboxStatus \cup {"NONE", "DELETED"}],
           \A q \in Rows : rowStatus'[q] = "NONE" <=> rowStatus[q] = "NONE",
           published' \in {published, published \cup {r}},
           to = "acknowledged" => r \in published',
           NoSilentLoss'
    PROVE  RelayInv'
<1>1. /\ stage' \in [Relays -> [Rows -> Stages]]
      /\ stage[w][r] = from /\ stage'[w][r] = to
      /\ \A v \in Relays, q \in Rows :
            <<v, q>> # <<w, r>> => stage'[v][q] = stage[v][q]
    BY StageFacts
<1>2. rowStatus[r] # "NONE"
    BY <1>1 DEF RelayInv
<1>3. ASSUME NEW v \in Relays, NEW q \in Rows
      PROVE  /\ stage'[v][q] # "idle" => rowStatus'[q] # "NONE"
             /\ stage'[v][q] = "acknowledged" => q \in published'
    <2>1. CASE v = w /\ q = r
        BY <2>1, <1>1, <1>2
    <2>2. CASE <<v, q>> # <<w, r>>
        BY <2>2, <1>1 DEF RelayInv
    <2> QED
        BY <2>1, <2>2
<1>4. published' \in SUBSET Rows /\ \A q \in published' : rowStatus'[q] # "NONE"
    BY <1>2 DEF RelayInv
<1> QED
    BY <1>1, <1>3, <1>4 DEF RelayInv

LEMMA RelayInvStep == RelayInv /\ [Next]_relayVars => RelayInv'
<1> SUFFICES ASSUME RelayInv, [Next]_relayVars PROVE RelayInv'
    OBVIOUS
<1>1. CASE UNCHANGED relayVars
    BY <1>1 DEF relayVars, tableVars, RelayInv, NoSilentLoss
<1>2. ASSUME NEW r \in Rows, TableStep(Write(r)) PROVE RelayInv'
    BY <1>2 DEF TableStep, Write, RelayInv, NoSilentLoss, OutboxStatus
<1>3. ASSUME NEW r \in Rows, TableStep(LeaseExpires(r)) PROVE RelayInv'
    BY <1>3 DEF TableStep, LeaseExpires, RelayInv, NoSilentLoss
<1>4. ASSUME NEW r \in Rows, CleanupArchivedOutboxEvents(r) PROVE RelayInv'
    BY <1>4 DEF CleanupArchivedOutboxEvents, RelayInv, NoSilentLoss, OutboxStatus
<1>5. ASSUME NEW w \in Relays, Poll(w) PROVE RelayInv'
    <2>1. /\ stage' = [stage EXCEPT ![w] =
                         [r \in Rows |-> IF r \in Batch THEN "sending" ELSE "idle"]]
          /\ UNCHANGED published
        BY <1>5 DEF Poll
    <2>2. /\ stage' \in [Relays -> [Rows -> Stages]]
          /\ \A v \in Relays, r \in Rows :
                stage'[v][r] \in {"idle", "sending"} \/ stage'[v][r] = stage[v][r]
          /\ \A v \in Relays, r \in Rows :
                stage'[v][r] # "idle" => r \in Batch \/ stage'[v][r] = stage[v][r]
        BY <2>1 DEF RelayInv, Stages
    <2> QED
        BY <1>5, <2>1, <2>2, ClaimFacts DEF Poll, RelayInv, NoSilentLoss
<1>6. ASSUME NEW w \in Relays, Restart(w) PROVE RelayInv'
    BY <1>6 DEF Restart, tableVars, RelayInv, NoSilentLoss, Stages
<1>7. ASSUME NEW w \in Relays, NEW r \in Rows, Send(w, r) PROVE RelayInv'
    <2>1. PICK to \in {"acknowledged", "rejected"} :
            /\ SetStage(w, r, "sending", to)
            /\ published' \in {published, published \cup {r}}
            /\ to = "acknowledged" => r \in published'
            /\ UNCHANGED rowStatus
        BY <1>7 DEF Send, SendSucceeds, SendFails
    <2>2. NoSilentLoss'
        BY <2>1 DEF RelayInv, NoSilentLoss
    <2>3. "sending" \in Stages /\ to \in Stages /\ "sending" # "idle"
        BY DEF Stages
    <2>4. rowStatus' \in [Rows -> OutboxStatus \cup {"NONE", "DELETED"}]
        BY <2>1 DEF RelayInv
    <2> QED
        BY <2>1, <2>2, <2>3, <2>4, StageKeepsInv
<1>8. ASSUME NEW w \in Relays, NEW r \in Rows, MarkProcessed(w, r) PROVE RelayInv'
    <2>1. SetStage(w, r, "acknowledged", "idle") /\ SetOutcome(r, "PROCESSED")
          /\ UNCHANGED published
        BY <1>8 DEF MarkProcessed
    <2>2. r \in published
        BY <2>1 DEF SetStage, RelayInv
    <2>3. /\ rowStatus' \in [Rows -> OutboxStatus \cup {"NONE", "DELETED"}]
          /\ \A q \in Rows : rowStatus'[q] = "NONE" <=> rowStatus[q] = "NONE"
          /\ \A q \in Rows \ {r} : rowStatus'[q] = rowStatus[q]
        BY <2>1, OutcomeFacts DEF OutboxStatus
    <2>4. NoSilentLoss'
        BY <2>1, <2>2, <2>3 DEF RelayInv, NoSilentLoss
    <2>5. "acknowledged" \in Stages /\ "idle" \in Stages
        BY DEF Stages
    <2> QED
        BY <2>1, <2>3, <2>4, <2>5, StageKeepsInv
<1>9. ASSUME NEW w \in Relays, NEW r \in Rows,
             MarkProcessedFails(w, r) \/ HandleRelayFailureFails(w, r)
      PROVE  RelayInv'
    <2>1. PICK from \in Stages, to \in {"rejected", "idle"} :
            from # "idle" /\ SetStage(w, r, from, to) /\ UNCHANGED <<rowStatus, published>>
        BY <1>9 DEF MarkProcessedFails, HandleRelayFailureFails, tableVars, Stages
    <2>2. NoSilentLoss'
        BY <2>1 DEF RelayInv, NoSilentLoss
    <2>3. rowStatus' \in [Rows -> OutboxStatus \cup {"NONE", "DELETED"}]
        BY <2>1 DEF RelayInv
    <2>4. to \in Stages /\ to # "acknowledged"
        BY DEF Stages
    <2> QED
        BY <2>1, <2>2, <2>3, <2>4, StageKeepsInv
<1>10. ASSUME NEW w \in Relays, NEW r \in Rows, HandleRelayFailure(w, r) PROVE RelayInv'
    <2>1. PICK s \in {"FAILED", "PENDING"} :
            SetStage(w, r, "rejected", "idle") /\ SetOutcome(r, s) /\ UNCHANGED published
        BY <1>10 DEF HandleRelayFailure, Fail
    <2>2. /\ rowStatus' \in [Rows -> OutboxStatus \cup {"NONE", "DELETED"}]
          /\ rowStatus'[r] \in {s, rowStatus[r]}
          /\ \A q \in Rows : rowStatus'[q] = "NONE" <=> rowStatus[q] = "NONE"
          /\ \A q \in Rows \ {r} : rowStatus'[q] = rowStatus[q]
        BY <2>1, OutcomeFacts DEF OutboxStatus
    <2>3. NoSilentLoss'
        BY <2>1, <2>2 DEF RelayInv, NoSilentLoss
    <2>4. "rejected" \in Stages /\ "idle" \in Stages
        BY DEF Stages
    <2> QED
        BY <2>1, <2>2, <2>3, <2>4, StageKeepsInv
<1> QED
    BY <1>1, <1>2, <1>3, <1>4, <1>5, <1>6, <1>7, <1>8, <1>9, <1>10 DEF Next

(* The dual write loses nothing silently, with any number of relays that   *)
(* may stop at any point and answer after their lease has ended.           *)
THEOREM NothingLostSilently == Spec => []NoSilentLoss
<1>1. Spec => []RelayInv
    BY RelayInvInit, RelayInvStep, PTL DEF Spec
<1>2. RelayInv => NoSilentLoss
    BY DEF RelayInv
<1> QED
    BY <1>1, <1>2, PTL

-----------------------------------------------------------------------------
(* Refinement. Which abstract step a step of the relay is.                 *)
channelNext == [Channel!Next]_(Channel!channelVars)

LEMMA ChannelInit == Init => Channel!Init
BY DEF Init, TableInit, Channel!Init

(* Rows stay written; statuses other than FAILED are not seen. *)
LEMMA OutcomeIsChannelStep ==
    ASSUME NEW r \in Rows, NEW s \in OutboxStatus, RelayInv, rowStatus[r] # "NONE",
           SetOutcome(r, s), UNCHANGED published
    PROVE  channelNext
<1>1. /\ rowStatus' \in [Rows -> OutboxStatus \cup {"NONE", "DELETED"}]
      /\ rowStatus'[r] \in {s, rowStatus[r]}
      /\ rowStatus'[r] = "NONE" <=> rowStatus[r] = "NONE"
      /\ \A q \in Rows \ {r} : rowStatus'[q] = rowStatus[q]
    BY OutcomeFacts
<1> DEFINE written == {q \in Rows : rowStatus[q] # "NONE"}
           abandoned == {q \in Rows : rowStatus[q] = "FAILED"}
<1>2. written' = written
    BY <1>1
<1>3. \/ abandoned' = abandoned
      \/ abandoned' = abandoned \cup {r}
      \/ abandoned' = abandoned \ {r}
    BY <1>1
<1>4. CASE abandoned' = abandoned
    BY <1>2, <1>4 DEF channelNext, Channel!channelVars
<1>5. CASE abandoned' = abandoned \cup {r}
    BY <1>2, <1>5 DEF channelNext, Channel!Next, Channel!Abandon
<1>6. CASE abandoned' = abandoned \ {r}
    BY <1>2, <1>6 DEF channelNext, Channel!Next, Channel!Resume
<1> QED
    BY <1>3, <1>4, <1>5, <1>6

(* Steps that change neither the written nor the abandoned rows.           *)
LEMMA PublishIsChannelStep ==
    ASSUME NEW r \in Rows, RelayInv, rowStatus[r] # "NONE",
           published' \in {published, published \cup {r}}, UNCHANGED rowStatus
    PROVE  channelNext
<1>1. CASE published' = published
    BY <1>1 DEF channelNext, Channel!channelVars
<1>2. CASE published' = published \cup {r}
    BY <1>2 DEF channelNext, Channel!Next, Channel!Publish
<1> QED
    BY <1>1, <1>2

LEMMA ChannelStep == RelayInv /\ [Next]_relayVars => channelNext
<1> SUFFICES ASSUME RelayInv, [Next]_relayVars PROVE channelNext
    OBVIOUS
<1> DEFINE written == {q \in Rows : rowStatus[q] # "NONE"}
           abandoned == {q \in Rows : rowStatus[q] = "FAILED"}
<1>1. CASE UNCHANGED <<rowStatus, published>>
    BY <1>1 DEF channelNext, Channel!channelVars
<1>2. ASSUME NEW r \in Rows, TableStep(Write(r)) PROVE channelNext
    <2>1. /\ rowStatus[r] = "NONE" /\ rowStatus' = [rowStatus EXCEPT ![r] = "PENDING"]
          /\ UNCHANGED published
        BY <1>2 DEF TableStep, Write
    <2>2. written' = written \cup {r} /\ r \notin written /\ abandoned' = abandoned
        BY <2>1 DEF RelayInv
    <2> QED
        BY <2>1, <2>2 DEF channelNext, Channel!Next, Channel!Write
<1>3. ASSUME NEW r \in Rows, TableStep(LeaseExpires(r)) PROVE channelNext
    BY <1>1, <1>3 DEF TableStep, LeaseExpires
<1>4. ASSUME NEW r \in Rows, CleanupArchivedOutboxEvents(r) PROVE channelNext
    <2>1. written' = written /\ abandoned' = abandoned /\ UNCHANGED published
        BY <1>4 DEF CleanupArchivedOutboxEvents, RelayInv
    <2> QED
        BY <2>1 DEF channelNext, Channel!channelVars
<1>5. ASSUME NEW w \in Relays, Poll(w) PROVE channelNext
    <2>1. /\ \A r \in Batch : rowStatus[r] \in {"PENDING", "IN_FLIGHT"}
          /\ \A r \in Rows :
                rowStatus'[r] = IF r \in Batch THEN "IN_FLIGHT" ELSE rowStatus[r]
          /\ UNCHANGED published
        BY <1>5, ClaimFacts DEF Poll
    <2>2. written' = written /\ abandoned' = abandoned
        BY <2>1
    <2> QED
        BY <2>1, <2>2 DEF channelNext, Channel!channelVars
<1>6. ASSUME NEW w \in Relays, Restart(w) PROVE channelNext
    BY <1>1, <1>6 DEF Restart, tableVars
<1>7. ASSUME NEW w \in Relays, NEW r \in Rows, Send(w, r) PROVE channelNext
    <2>1. /\ stage[w][r] = "sending" /\ UNCHANGED rowStatus
          /\ published' \in {published, published \cup {r}}
        BY <1>7 DEF Send, SendSucceeds, SendFails, SetStage
    <2>2. rowStatus[r] # "NONE"
        BY <2>1 DEF RelayInv
    <2> QED
        BY <2>1, <2>2, PublishIsChannelStep
<1>8. ASSUME NEW w \in Relays, NEW r \in Rows,
             MarkProcessed(w, r) \/ HandleRelayFailure(w, r)
      PROVE  channelNext
    <2>1. PICK s \in OutboxStatus : SetOutcome(r, s)
        BY <1>8 DEF MarkProcessed, HandleRelayFailure, Fail, OutboxStatus
    <2>2. stage[w][r] # "idle" /\ UNCHANGED published
        BY <1>8 DEF MarkProcessed, HandleRelayFailure, SetStage
    <2>3. rowStatus[r] # "NONE"
        BY <2>2 DEF RelayInv
    <2> QED
        BY <2>1, <2>2, <2>3, OutcomeIsChannelStep
<1>9. ASSUME NEW w \in Relays, NEW r \in Rows,
             MarkProcessedFails(w, r) \/ HandleRelayFailureFails(w, r)
      PROVE  channelNext
    BY <1>1, <1>9 DEF MarkProcessedFails, HandleRelayFailureFails, tableVars
<1>10. CASE UNCHANGED relayVars
    BY <1>1, <1>10 DEF relayVars, tableVars
<1> QED
    BY <1>2, <1>3, <1>4, <1>5, <1>6, <1>7, <1>8, <1>9, <1>10 DEF Next

(* Every behaviour of the relay, with any number of processes, is one of   *)
(* the abstract channel the saga relies on (but for the channel's          *)
(* liveness): nothing is published that was not written, and written rows  *)
(* stay written.                                                           *)
THEOREM RelayIsChannel ==
    Spec => Channel!Init /\ [][Channel!Next]_(Channel!channelVars)
<1>1. Spec => []RelayInv
    BY RelayInvInit, RelayInvStep, PTL DEF Spec
<1>2. RelayInv /\ [Next]_relayVars => [Channel!Next]_(Channel!channelVars)
    BY ChannelStep DEF channelNext
<1> QED
    BY <1>1, <1>2, ChannelInit, PTL DEF Spec
=============================================================================
