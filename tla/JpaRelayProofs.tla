---------------------------- MODULE JpaRelayProofs ----------------------------
(***************************************************************************)
(* The relay of the inventory and the payment service, for any number of   *)
(* processes, rows and unanswered sends: what its callbacks mark as        *)
(* processed was published, and its steps are steps of the abstract        *)
(* channel, although a callback may come after the lease has run out, after *)
(* another process has sent the row again, or after a restart of others.   *)
(***************************************************************************)
EXTENDS JpaOutboxRelay, TLAPS

(* A process has something to do with a row. *)
Holds(w, r) == r \in claimedEvents[w] \/ sends[w][r] > 0 \/ callback[w][r] # "none"

(* A callback that comes from an acknowledgement. *)
Acked(w, r) == callback[w][r] \in {"markProcessed", "saveProcessed"}

(* Rows that a process holds were written, and those it is about to mark   *)
(* were acknowledged by Kafka.                                             *)
JpaInv ==
    /\ JpaRelayTypeOK
    /\ \A w \in Relays, r \in Rows : Holds(w, r) => rowStatus[r] # "NONE"
    /\ \A w \in Relays, r \in Rows : Acked(w, r) => r \in published
    /\ \A r \in published : rowStatus[r] # "NONE"
    /\ NoSilentLoss

LEMMA JpaInvInit == Init => JpaInv
  BY JpaRelayAssumption
     DEF Init, TableInit, JpaInv, JpaRelayTypeOK, TableTypeOK, OutboxStatus, Callbacks, Holds,
         Acked, NoSilentLoss

(* What a step does to the rows of the table: those written stay written,  *)
(* and only a row that some process holds is published or marked.          *)
KeepsRows ==
    /\ \A r \in Rows : rowStatus'[r] = "NONE" <=> rowStatus[r] = "NONE"
    /\ published \subseteq published'
    /\ \A r \in published' \ published : \E w \in Relays : Holds(w, r)
    /\ \A r \in Rows : rowStatus'[r] \in {"PROCESSED", "DELETED"} =>
         rowStatus'[r] = rowStatus[r] \/ \E w \in Relays : Acked(w, r)

LEMMA KeepsInv ==
  ASSUME JpaInv, JpaRelayTypeOK', KeepsRows,
         \A w \in Relays, r \in Rows : Holds(w, r)' => Holds(w, r),
         \A w \in Relays, r \in Rows : Acked(w, r)' => Acked(w, r) \/ r \in published'
  PROVE  JpaInv'
  <1>1. \A w \in Relays, r \in Rows : Holds(w, r)' => rowStatus'[r] # "NONE"
    BY DEF JpaInv, KeepsRows
  <1>2. \A w \in Relays, r \in Rows : Acked(w, r)' => r \in published'
    BY DEF JpaInv, KeepsRows
  <1>3. \A r \in published' : rowStatus'[r] # "NONE"
    BY DEF JpaInv, KeepsRows, JpaRelayTypeOK, TableTypeOK
  <1>4. NoSilentLoss'
    BY DEF JpaInv, KeepsRows, NoSilentLoss
  <1> QED
    BY <1>1, <1>2, <1>3, <1>4 DEF JpaInv

LEMMA ClaimFacts ==
  ASSUME JpaInv, Claim
  PROVE  /\ rowStatus' \in [Rows -> OutboxStatus \cup {"NONE", "DELETED"}]
         /\ \A r \in Batch : r \in Rows /\ rowStatus[r] \in {"PENDING", "IN_FLIGHT"}
         /\ \A r \in Rows : rowStatus'[r] = IF r \in Batch THEN "IN_FLIGHT" ELSE rowStatus[r]
         /\ leased' \in SUBSET Rows /\ retryCount' = retryCount
  BY DEF JpaInv, JpaRelayTypeOK, TableTypeOK, Claim, Batch, Claimable, OutboxStatus

LEMMA OutcomeFacts ==
  ASSUME JpaInv, NEW r \in Rows, NEW s \in OutboxStatus, SetOutcome(r, s)
  PROVE  /\ rowStatus' \in [Rows -> OutboxStatus \cup {"NONE", "DELETED"}]
         /\ rowStatus'[r] \in {s, rowStatus[r]}
         /\ rowStatus'[r] = "NONE" <=> rowStatus[r] = "NONE"
         /\ \A q \in Rows \ {r} : rowStatus'[q] = rowStatus[q]
         /\ leased' \in SUBSET Rows
  <1>1. CASE Exists(r)
    BY <1>1 DEF JpaInv, JpaRelayTypeOK, TableTypeOK, SetOutcome, Exists, OutboxStatus
  <1>2. CASE ~Exists(r)
    BY <1>2 DEF JpaInv, JpaRelayTypeOK, TableTypeOK, SetOutcome
  <1> QED
    BY <1>1, <1>2

LEMMA StepFacts ==
  ASSUME JpaInv, NEW w \in Relays, NEW r \in Rows, NEW from, NEW to \in Callbacks,
         Step(w, r, from, to)
  PROVE  /\ callback' \in [Relays -> [Rows -> Callbacks]]
         /\ callback[w][r] = from /\ callback'[w][r] = to
         /\ \A v \in Relays, q \in Rows : <<v, q>> # <<w, r>> => callback'[v][q] = callback[v][q]
  BY DEF JpaInv, JpaRelayTypeOK, Step

(* An answer to a send becomes a callback. *)
LEMMA AnsweredInv ==
  ASSUME JpaInv, NEW w \in Relays, NEW r \in Rows, NEW then \in Callbacks \ {"none"},
         Answered(w, r, then), published' \in {published, published \cup {r}},
         then = "markProcessed" => r \in published', then # "saveProcessed"
  PROVE  JpaInv'
  <1>1. /\ callback' \in [Relays -> [Rows -> Callbacks]]
        /\ callback[w][r] = "none" /\ callback'[w][r] = then
        /\ \A v \in Relays, q \in Rows : <<v, q>> # <<w, r>> => callback'[v][q] = callback[v][q]
    BY StepFacts DEF Answered
  <1>2. /\ sends[w][r] > 0 /\ sends' \in [Relays -> [Rows -> 0 .. MaxSends]]
        /\ \A v \in Relays, q \in Rows : sends'[v][q] > 0 => sends[v][q] > 0
        /\ UNCHANGED <<rowStatus, leased, retryCount, claimedEvents, readRetries>>
    BY JpaRelayAssumption DEF Answered, JpaInv, JpaRelayTypeOK
  <1>3. JpaRelayTypeOK'
    BY <1>1, <1>2 DEF JpaInv, JpaRelayTypeOK, TableTypeOK
  <1>4. Holds(w, r)
    BY <1>2 DEF Holds
  <1>5. KeepsRows
    BY <1>2, <1>4 DEF KeepsRows
  <1>6. ASSUME NEW v \in Relays, NEW q \in Rows
        PROVE  /\ Holds(v, q)' => Holds(v, q)
               /\ Acked(v, q)' => Acked(v, q) \/ q \in published'
    <2>1. CASE <<v, q>> = <<w, r>>
      BY <1>1, <1>4, <2>1 DEF Acked
    <2>2. CASE <<v, q>> # <<w, r>>
      BY <1>1, <1>2, <2>2 DEF Holds, Acked
    <2> QED
      BY <2>1, <2>2
  <1> QED
    BY <1>3, <1>5, <1>6, KeepsInv

(* A callback goes on, and its save is the only step that writes the row.  *)
LEMMA CallbackInv ==
  ASSUME JpaInv, NEW w \in Relays, NEW r \in Rows, NEW from \in Callbacks \ {"none"},
         NEW to \in Callbacks, Step(w, r, from, to),
         to = "saveProcessed" => from = "markProcessed", to # "markProcessed",
         JpaRelayTypeOK', KeepsRows,
         UNCHANGED <<published, claimedEvents, sends>>
  PROVE  JpaInv'
  <1>1. /\ callback[w][r] = from /\ callback'[w][r] = to
        /\ \A v \in Relays, q \in Rows : <<v, q>> # <<w, r>> => callback'[v][q] = callback[v][q]
    BY StepFacts
  <1>2. ASSUME NEW v \in Relays, NEW q \in Rows
        PROVE  /\ Holds(v, q)' => Holds(v, q)
               /\ Acked(v, q)' => Acked(v, q)
    <2>1. CASE <<v, q>> = <<w, r>>
      BY <1>1, <2>1 DEF Holds, Acked
    <2>2. CASE <<v, q>> # <<w, r>>
      BY <1>1, <2>2 DEF Holds, Acked
    <2> QED
      BY <2>1, <2>2
  <1> QED
    BY <1>2, KeepsInv

LEMMA PollInv ==
  ASSUME JpaInv, NEW w \in Relays, PollAndRelayOutbox(w)
  PROVE  JpaInv'
  <1>1. /\ rowStatus' \in [Rows -> OutboxStatus \cup {"NONE", "DELETED"}]
        /\ \A r \in Batch : r \in Rows /\ rowStatus[r] \in {"PENDING", "IN_FLIGHT"}
        /\ \A r \in Rows : rowStatus'[r] = IF r \in Batch THEN "IN_FLIGHT" ELSE rowStatus[r]
        /\ leased' \in SUBSET Rows /\ retryCount' = retryCount
    BY ClaimFacts DEF PollAndRelayOutbox
  <1>2. /\ claimedEvents' = [claimedEvents EXCEPT ![w] = Batch]
        /\ UNCHANGED <<published, sends, callback, readRetries>>
    BY DEF PollAndRelayOutbox, callbackVars
  <1>3. JpaRelayTypeOK'
    BY <1>1, <1>2 DEF JpaInv, JpaRelayTypeOK, TableTypeOK
  <1>4. \A r \in Rows : rowStatus'[r] = "NONE" <=> rowStatus[r] = "NONE"
    BY <1>1
  <1>5. \A v \in Relays, r \in Rows : Holds(v, r)' => Holds(v, r) \/ r \in Batch
    BY <1>2 DEF Holds, JpaInv, JpaRelayTypeOK
  <1>6. \A v \in Relays, r \in Rows : Holds(v, r)' => rowStatus'[r] # "NONE"
    BY <1>1, <1>4, <1>5 DEF JpaInv
  <1>7. NoSilentLoss'
    BY <1>1, <1>2 DEF JpaInv, NoSilentLoss
  <1> QED
    BY <1>2, <1>3, <1>4, <1>6, <1>7 DEF JpaInv, Acked, JpaRelayTypeOK, TableTypeOK

LEMMA SendInv ==
  ASSUME JpaInv, NEW w \in Relays, NEW r \in Rows, Send(w, r)
  PROVE  JpaInv'
  <1>1. /\ r \in claimedEvents[w] /\ sends[w][r] < MaxSends
        /\ claimedEvents' = [claimedEvents EXCEPT ![w] = @ \ {r}]
        /\ sends' = [sends EXCEPT ![w][r] = @ + 1]
        /\ UNCHANGED <<rowStatus, leased, retryCount, published, callback, readRetries>>
    BY DEF Send, tableVars, callbackVars
  <1>2. /\ claimedEvents' \in [Relays -> SUBSET Rows]
        /\ sends' \in [Relays -> [Rows -> 0 .. MaxSends]]
        /\ \A v \in Relays : claimedEvents'[v] \subseteq claimedEvents[v]
        /\ \A v \in Relays, q \in Rows : <<v, q>> # <<w, r>> => sends'[v][q] = sends[v][q]
    BY <1>1, JpaRelayAssumption DEF JpaInv, JpaRelayTypeOK
  <1>3. JpaRelayTypeOK'
    BY <1>1, <1>2 DEF JpaInv, JpaRelayTypeOK, TableTypeOK
  <1>4. KeepsRows
    BY <1>1 DEF KeepsRows
  <1>5. ASSUME NEW v \in Relays, NEW q \in Rows PROVE Holds(v, q)' => Holds(v, q)
    <2>1. CASE <<v, q>> = <<w, r>>
      BY <1>1, <2>1 DEF Holds
    <2>2. CASE <<v, q>> # <<w, r>>
      BY <1>1, <1>2, <2>2 DEF Holds
    <2> QED
      BY <2>1, <2>2
  <1> QED
    BY <1>1, <1>3, <1>4, <1>5, KeepsInv DEF Acked

(* The poll ends early, or the process stops: it holds less. *)
LEMMA DropsInv ==
  ASSUME JpaInv, NEW w \in Relays, SendThrows(w) \/ Restart(w)
  PROVE  JpaInv'
  <1>1. /\ UNCHANGED <<rowStatus, leased, retryCount, published, readRetries>>
        /\ claimedEvents' = [claimedEvents EXCEPT ![w] = {}]
    BY DEF SendThrows, Restart, tableVars, callbackVars
  <1>2. /\ sends' \in [Relays -> [Rows -> 0 .. MaxSends]]
        /\ callback' \in [Relays -> [Rows -> Callbacks]]
        /\ \A v \in Relays, q \in Rows :
             /\ sends'[v][q] > 0 => sends[v][q] > 0
             /\ callback'[v][q] # "none" => callback'[v][q] = callback[v][q]
    <2>1. CASE SendThrows(w)
      BY <2>1 DEF SendThrows, callbackVars, JpaInv, JpaRelayTypeOK
    <2>2. CASE Restart(w)
      BY <2>2, JpaRelayAssumption DEF Restart, JpaInv, JpaRelayTypeOK, Callbacks
    <2> QED
      BY <2>1, <2>2
  <1>3. JpaRelayTypeOK'
    BY <1>1, <1>2 DEF JpaInv, JpaRelayTypeOK, TableTypeOK
  <1>4. KeepsRows
    BY <1>1 DEF KeepsRows
  <1>5. \A v \in Relays, q \in Rows : (Holds(v, q)' => Holds(v, q)) /\ (Acked(v, q)' => Acked(v, q))
    BY <1>1, <1>2 DEF Holds, Acked, JpaInv, JpaRelayTypeOK
  <1> QED
    BY <1>3, <1>4, <1>5, KeepsInv

LEMMA FindByIdInv ==
  ASSUME JpaInv, NEW w \in Relays, NEW r \in Rows, FindById(w, r)
  PROVE  JpaInv'
  <1>1. PICK from \in {"markProcessed", "handleFailure"}, to \in {"saveProcessed", "saveFailure"} :
          Step(w, r, from, to) /\ (to = "saveProcessed" => from = "markProcessed")
    BY DEF FindById
  <1>2. /\ readRetries' = [readRetries EXCEPT ![w][r] = retryCount[r]]
        /\ UNCHANGED <<rowStatus, leased, retryCount, published, claimedEvents, sends>>
    BY DEF FindById, tableVars
  <1>3. from \in Callbacks \ {"none"} /\ to \in Callbacks
    BY DEF Callbacks
  <1>4. JpaRelayTypeOK'
    BY <1>1, <1>2, <1>3, StepFacts DEF JpaInv, JpaRelayTypeOK, TableTypeOK
  <1>5. KeepsRows
    BY <1>2 DEF KeepsRows
  <1> QED
    BY <1>1, <1>2, <1>3, <1>4, <1>5, CallbackInv

(* A save and a save that is refused. *)
LEMMA SaveInv ==
  ASSUME JpaInv, NEW w \in Relays, NEW r \in Rows, Save(w, r)
  PROVE  JpaInv'
  <1>1. PICK from \in {"saveProcessed", "saveFailure"}, s \in OutboxStatus, n \in Nat :
          /\ Step(w, r, from, "none") /\ SetOutcome(r, s)
          /\ s = "PROCESSED" => from = "saveProcessed"
          /\ retryCount' = [retryCount EXCEPT ![r] = n]
          /\ UNCHANGED <<published, claimedEvents, sends, readRetries>>
    <2>1. readRetries[w][r] \in Nat /\ readRetries[w][r] + 1 \in Nat
      BY DEF JpaInv, JpaRelayTypeOK
    <2>2. CASE SaveProcessed(w, r)
      BY <2>1, <2>2 DEF SaveProcessed, OutboxStatus
    <2>3. CASE SaveFailure(w, r)
      BY <2>1, <2>3 DEF SaveFailure, Fail, OutboxStatus
    <2> QED
      BY <2>2, <2>3 DEF Save
  <1>2. from \in Callbacks \ {"none"} /\ "none" \in Callbacks
    BY DEF Callbacks
  <1>3. /\ rowStatus' \in [Rows -> OutboxStatus \cup {"NONE", "DELETED"}]
        /\ rowStatus'[r] \in {s, rowStatus[r]}
        /\ rowStatus'[r] = "NONE" <=> rowStatus[r] = "NONE"
        /\ \A q \in Rows \ {r} : rowStatus'[q] = rowStatus[q]
        /\ leased' \in SUBSET Rows
    BY <1>1, OutcomeFacts
  <1>4. callback' \in [Relays -> [Rows -> Callbacks]] /\ callback[w][r] = from
    BY <1>1, <1>2, StepFacts
  <1>5. JpaRelayTypeOK'
    BY <1>1, <1>3, <1>4 DEF JpaInv, JpaRelayTypeOK, TableTypeOK
  <1>6. KeepsRows
    <2>1. s = "PROCESSED" => Acked(w, r)
      BY <1>1, <1>4 DEF Acked
    <2>2. s # "DELETED"
      BY DEF OutboxStatus
    <2> QED
      BY <1>1, <1>3, <2>1, <2>2 DEF KeepsRows
  <1> QED
    BY <1>1, <1>2, <1>5, <1>6, CallbackInv

LEMMA CallbackFailsInv ==
  ASSUME JpaInv, NEW w \in Relays, NEW r \in Rows, CallbackFails(w, r)
  PROVE  JpaInv'
  <1>1. /\ Step(w, r, callback[w][r], "none") /\ callback[w][r] \in Callbacks \ {"none"}
        /\ UNCHANGED <<rowStatus, leased, retryCount, published, claimedEvents, sends, readRetries>>
    BY DEF CallbackFails, Step, tableVars, JpaInv, JpaRelayTypeOK
  <1>2. "none" \in Callbacks
    BY DEF Callbacks
  <1>3. JpaRelayTypeOK'
    BY <1>1, <1>2, StepFacts DEF JpaInv, JpaRelayTypeOK, TableTypeOK
  <1>4. KeepsRows
    BY <1>1 DEF KeepsRows
  <1> QED
    BY <1>1, <1>2, <1>3, <1>4, CallbackInv

LEMMA JpaInvStep == JpaInv /\ [Next]_jpaVars => JpaInv'
  <1> SUFFICES ASSUME JpaInv, [Next]_jpaVars PROVE JpaInv'
    OBVIOUS
  <1>1. CASE UNCHANGED jpaVars
    BY <1>1 DEF jpaVars, tableVars, callbackVars, JpaInv, JpaRelayTypeOK, TableTypeOK, Holds,
                Acked, NoSilentLoss
  <1>2. ASSUME NEW r \in Rows, TableStep(Write(r)) PROVE JpaInv'
    <2>1. /\ rowStatus' = [rowStatus EXCEPT ![r] = "PENDING"]
          /\ UNCHANGED <<leased, retryCount, published, claimedEvents, sends, callback, readRetries>>
      BY <1>2 DEF TableStep, Write, callbackVars
    <2>2. JpaRelayTypeOK'
      BY <2>1 DEF JpaInv, JpaRelayTypeOK, TableTypeOK, OutboxStatus
    <2> QED
      BY <2>1, <2>2 DEF JpaInv, JpaRelayTypeOK, TableTypeOK, Holds, Acked, NoSilentLoss
  <1>3. ASSUME NEW r \in Rows, TableStep(LeaseExpires(r)) PROVE JpaInv'
    BY <1>3 DEF TableStep, LeaseExpires, callbackVars, JpaInv, JpaRelayTypeOK, TableTypeOK, Holds,
                Acked, NoSilentLoss
  <1>4. ASSUME NEW w \in Relays, NEW r \in Rows, Acknowledge(w, r) \/ GiveUp(w, r) PROVE JpaInv'
    <2>1. "markProcessed" \in Callbacks \ {"none"} /\ "handleFailure" \in Callbacks \ {"none"}
      BY DEF Callbacks
    <2>2. CASE Acknowledge(w, r)
      BY <2>1, <2>2, AnsweredInv DEF Acknowledge
    <2>3. CASE GiveUp(w, r)
      BY <2>1, <2>3, AnsweredInv DEF GiveUp
    <2> QED
      BY <1>4, <2>2, <2>3
  <1> QED
    BY <1>1, <1>2, <1>3, <1>4, PollInv, SendInv, DropsInv, FindByIdInv, SaveInv, CallbackFailsInv
       DEF Next

LEMMA JpaInvCorrect == Spec => []JpaInv
  BY JpaInvInit, JpaInvStep, PTL DEF Spec

(* The relay of the Java services loses no event silently, although its    *)
(* callbacks run outside of the poll, of the lease and of a transaction    *)
(* (OutboxRelayService.java:52-101): only one that Kafka acknowledged is    *)
(* ever marked PROCESSED.                                                  *)
THEOREM NothingLostByJpaRelay == Spec => []NoSilentLoss
  <1>1. JpaInv => NoSilentLoss
    BY DEF JpaInv
  <1> QED
    BY <1>1, JpaInvCorrect, PTL

(* The rows and counters have their types, however the callbacks of        *)
(* several processes interleave.                                           *)
THEOREM JpaRelayTypes == Spec => []JpaRelayTypeOK
  <1>1. JpaInv => JpaRelayTypeOK
    BY DEF JpaInv
  <1> QED
    BY <1>1, JpaInvCorrect, PTL

-----------------------------------------------------------------------------
(* Refinement. Which abstract step a step of the relay is.                 *)
channelNext == [Channel!Next]_(Channel!channelVars)

LEMMA ChannelInit == Init => Channel!Init
  BY DEF Init, TableInit, Channel!Init

(* A step that leaves status and Kafka alone, or claims, is not seen. *)
LEMMA Unseen ==
  ASSUME \A r \in Rows : /\ rowStatus'[r] = "NONE" <=> rowStatus[r] = "NONE"
                         /\ rowStatus'[r] = "FAILED" <=> rowStatus[r] = "FAILED",
         UNCHANGED published
  PROVE  channelNext
  BY DEF channelNext, Channel!channelVars

LEMMA AnswerIsChannelStep ==
  ASSUME JpaInv, NEW w \in Relays, NEW r \in Rows, Acknowledge(w, r) \/ GiveUp(w, r)
  PROVE  channelNext
  <1>1. /\ sends[w][r] > 0 /\ UNCHANGED rowStatus
        /\ published' \in {published, published \cup {r}}
    BY DEF Acknowledge, GiveUp, Answered
  <1>2. rowStatus[r] # "NONE"
    BY <1>1 DEF JpaInv, Holds
  <1>3. CASE published' = published
    BY <1>1, <1>3, Unseen
  <1>4. CASE published' = published \cup {r}
    BY <1>1, <1>2, <1>4 DEF channelNext, Channel!Next, Channel!Publish
  <1> QED
    BY <1>1, <1>3, <1>4

(* A save abandons the row, resumes it or is not seen. *)
LEMMA SaveIsChannelStep ==
  ASSUME JpaInv, NEW w \in Relays, NEW r \in Rows, Save(w, r)
  PROVE  channelNext
  <1>1. PICK s \in OutboxStatus : SetOutcome(r, s)
    BY DEF Save, SaveProcessed, SaveFailure, Fail, OutboxStatus
  <1>2. callback[w][r] # "none" /\ UNCHANGED published
    BY DEF Save, SaveProcessed, SaveFailure, Step
  <1>3. rowStatus[r] # "NONE"
    BY <1>2 DEF JpaInv, Holds
  <1>4. /\ rowStatus'[r] = "NONE" <=> rowStatus[r] = "NONE"
        /\ \A q \in Rows \ {r} : rowStatus'[q] = rowStatus[q]
    BY <1>1, OutcomeFacts
  <1> DEFINE written == {q \in Rows : rowStatus[q] # "NONE"}
             abandoned == {q \in Rows : rowStatus[q] = "FAILED"}
  <1>5. written' = written
    BY <1>4
  <1>6. CASE rowStatus'[r] = "FAILED"
    <2>1. abandoned' = abandoned \cup {r}
      BY <1>4, <1>6
    <2> QED
      BY <1>2, <1>3, <1>5, <2>1 DEF channelNext, Channel!Next, Channel!Abandon
  <1>7. CASE rowStatus'[r] # "FAILED"
    <2>1. abandoned' = abandoned \ {r}
      BY <1>4, <1>7
    <2> QED
      BY <1>2, <1>5, <2>1 DEF channelNext, Channel!Next, Channel!Resume
  <1> QED
    BY <1>6, <1>7

LEMMA ChannelStep == JpaInv /\ [Next]_jpaVars => channelNext
  <1> SUFFICES ASSUME JpaInv, [Next]_jpaVars PROVE channelNext
    OBVIOUS
  <1>1. CASE UNCHANGED <<rowStatus, published>>
    BY <1>1, Unseen
  <1>2. ASSUME NEW r \in Rows, TableStep(Write(r)) PROVE channelNext
    <2> DEFINE written == {q \in Rows : rowStatus[q] # "NONE"}
               abandoned == {q \in Rows : rowStatus[q] = "FAILED"}
    <2>1. /\ rowStatus[r] = "NONE" /\ rowStatus' = [rowStatus EXCEPT ![r] = "PENDING"]
          /\ UNCHANGED published
      BY <1>2 DEF TableStep, Write
    <2>2. written' = written \cup {r} /\ r \notin written /\ abandoned' = abandoned
      BY <2>1 DEF JpaInv, JpaRelayTypeOK, TableTypeOK
    <2> QED
      BY <2>1, <2>2 DEF channelNext, Channel!Next, Channel!Write
  <1>3. ASSUME NEW w \in Relays, PollAndRelayOutbox(w) PROVE channelNext
    <2>1. \A r \in Rows : /\ rowStatus'[r] = "NONE" <=> rowStatus[r] = "NONE"
                          /\ rowStatus'[r] = "FAILED" <=> rowStatus[r] = "FAILED"
      BY <1>3, ClaimFacts DEF PollAndRelayOutbox
    <2>2. UNCHANGED published
      BY <1>3 DEF PollAndRelayOutbox
    <2> QED
      BY <2>1, <2>2, Unseen
  <1>4. ASSUME NEW w \in Relays, NEW r \in Rows, Send(w, r) \/ FindById(w, r) \/ CallbackFails(w, r)
        PROVE  channelNext
    BY <1>1, <1>4 DEF Send, FindById, CallbackFails, tableVars
  <1>5. ASSUME NEW w \in Relays, SendThrows(w) \/ Restart(w) PROVE channelNext
    BY <1>1, <1>5 DEF SendThrows, Restart, tableVars
  <1>6. ASSUME NEW r \in Rows, TableStep(LeaseExpires(r)) PROVE channelNext
    BY <1>1, <1>6 DEF TableStep, LeaseExpires
  <1>7. CASE UNCHANGED jpaVars
    BY <1>1, <1>7 DEF jpaVars, tableVars
  <1> QED
    BY <1>2, <1>3, <1>4, <1>5, <1>6, <1>7, AnswerIsChannelStep, SaveIsChannelStep DEF Next

(* Every behaviour of the Java services' relays, with any number of        *)
(* processes, is one of the abstract channel the saga relies on (but for   *)
(* the channel's liveness): nothing is published that was not written, and *)
(* written rows stay written, although a late callback may bring a row     *)
(* back that was FAILED.                                                   *)
THEOREM JpaRelayIsChannel ==
    Spec => Channel!Init /\ [][Channel!Next]_(Channel!channelVars)
  <1>1. JpaInv /\ [Next]_jpaVars => [Channel!Next]_(Channel!channelVars)
    BY ChannelStep DEF channelNext
  <1> QED
    BY <1>1, JpaInvCorrect, ChannelInit, PTL DEF Spec
===============================================================================
