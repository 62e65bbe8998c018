---------------------------- MODULE EventConsumer ----------------------------
(***************************************************************************)
(* The consumers written with kafkajs on one partition: KafkaConsumer of   *)
(* the order service (inventory-events, payment-events) and                *)
(* KafkaProjectionConsumer of the projection. They try to start five times *)
(* and then give up, begin at the log's end, and never fail on a record:   *)
(* the order service quarantines what it cannot process, and when that     *)
(* fails, as for any record in the projection, the failure is only logged. *)
(***************************************************************************)
EXTENDS ConsumerGroup

CONSTANT MaxStarts     \* attempts of startConsumerWithRetry: 5

VARIABLES
    service,     \* whose consumer it is: "order" or "projection"
    failedStarts,
    logged,      \* records of which only an error message is left
    \* What LossIsLogged needs to know of the past:
    firstOffset, \* where the group first began to read, or NoOffset
    firstCommit, \* the first offset it ever committed, or NoOffset
    interrupted  \* a consumer was gone before that commit

historyVars == <<firstOffset, firstCommit, interrupted>>

eventVars == <<groupVars, service, failedStarts, logged, historyVars>>

Init ==
    /\ GroupInit
    /\ service \in {"order", "projection"}
    /\ failedStarts = 0
    /\ logged = {}
    /\ firstOffset = NoOffset /\ firstCommit = NoOffset
    /\ interrupted = FALSE

GaveUp == ~Joined /\ failedStarts = MaxStarts

Begins ==
    /\ firstOffset' = IF firstOffset = NoOffset THEN position' ELSE firstOffset
    /\ UNCHANGED <<firstCommit, interrupted>>

(* A consumer that has read is gone, and the broker knows no offset. *)
Interrupts ==
    /\ interrupted' = IF Joined /\ committed = NoOffset THEN TRUE ELSE interrupted
    /\ UNCHANGED <<firstOffset, firstCommit>>

(* Mutant of JoinGroup. *)
BugJoinAtEnd ==
    /\ ~Joined /\ ~GaveUp
    /\ position' = logEnd
    /\ Begins
    /\ UNCHANGED <<logEnd, committed, handled, quarantined, restarts>>
    /\ UNCHANGED <<service, failedStarts, logged>>

(* fromBeginning: false *)
JoinGroup ==
    /\ ~GaveUp
    /\ Join(logEnd)
    /\ Begins
    /\ UNCHANGED <<service, failedStarts, logged>>

StartFails ==
    /\ ~Joined /\ ~GaveUp
    /\ failedStarts' = failedStarts + 1
    /\ UNCHANGED <<groupVars, service, logged, historyVars>>

(* The handler of a record returns. *)
ProcessMessage ==
    \E n \in Offsets :
        /\ Processing(n)
        /\ Handle(n)
        /\ Advance
        /\ UNCHANGED <<logEnd, committed, quarantined, restarts>>
        /\ UNCHANGED <<service, failedStarts, logged, historyVars>>

(* emitEvent to the dead-letter topic resolves, *)
Quarantine(n) ==
    /\ service = "order"
    /\ quarantined' = quarantined \cup {n}
    /\ UNCHANGED logged

(* or rejects, although the broker may have the record. *)
OnlyLog(n) ==
    /\ logged' = logged \cup {n}
    /\ \/ quarantined' = quarantined
       \/ service = "order" /\ quarantined' = quarantined \cup {n}

(* Mutant of ProcessingFails. *)
BugStayOnError ==
    \E n \in Offsets :
        /\ Processing(n)
        /\ (handled' = handled \/ Handle(n))
        /\ (Quarantine(n) \/ OnlyLog(n))
        /\ UNCHANGED <<logEnd, committed, position, restarts>>
        /\ UNCHANGED <<service, failedStarts, historyVars>>

(* The record is poison, or its handler throws, perhaps after its          *)
(* transaction committed. The next record is taken in any case.            *)
ProcessingFails ==
    \E n \in Offsets :
        /\ Processing(n)
        /\ (handled' = handled \/ Handle(n))
        /\ (Quarantine(n) \/ OnlyLog(n))
        /\ Advance
        /\ UNCHANGED <<logEnd, committed, restarts>>
        /\ UNCHANGED <<service, failedStarts, historyVars>>

(* The process stops and starts again; it may be one that gave up.         *)
Restart ==
    /\ restarts < MaxRestarts
    /\ restarts' = restarts + 1
    /\ position' = NoOffset
    /\ failedStarts' = 0
    /\ Interrupts
    /\ UNCHANGED <<logEnd, committed, handled, quarantined, service, logged>>

-----------------------------------------------------------------------------
GroupStep ==
    /\ \/ Produce /\ UNCHANGED historyVars
       \/ /\ CommitOffset
          /\ firstCommit' = IF committed = NoOffset THEN committed' ELSE firstCommit
          /\ UNCHANGED <<firstOffset, interrupted>>
       \/ Leave /\ Interrupts
    /\ UNCHANGED <<service, failedStarts, logged>>

Next ==
    \/ GroupStep
    \/ JoinGroup \/ StartFails \/ Restart
    \/ ProcessMessage \/ ProcessingFails

Spec == Init /\ [][Next]_eventVars

(* The consumer polls without end; a start succeeds or fails.              *)
Fairness ==
    /\ WF_eventVars(JoinGroup \/ StartFails)
    /\ WF_eventVars(ProcessMessage \/ ProcessingFails)

FairSpec == Spec /\ Fairness

-----------------------------------------------------------------------------
(* Records before this offset were taken, or skipped. *)
Passed(n) == \/ Joined /\ n < position
             \/ committed # NoOffset /\ n < committed

(* A record the consumer has passed was handled or quarantined, or its     *)
(* failure was logged. What else the group never reads is what was in the  *)
(* log before it first began to read and, if a consumer of it stopped or   *)
(* lost the partition before the group's first commit, what was there      *)
(* before that commit (fromBeginning is false again for its successor).    *)
(* From its first commit on no crash, rebalance, failed start or failed    *)
(* record costs it a record without a message.                             *)
LossIsLogged ==
    \A n \in Offsets :
        Passed(n) => \/ n \in handled \cup quarantined \cup logged
                     \/ n < firstOffset
                     \/ interrupted /\ n < firstCommit

(* No record blocks those behind it. Only a consumer that gave up starting *)
(* leaves its partition where it is.                                       *)
EventsMove == \A n \in Offsets : logEnd > n ~> (Joined /\ position > n) \/ GaveUp
=============================================================================
