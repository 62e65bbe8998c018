--------------------------- MODULE CommandConsumer ---------------------------
(***************************************************************************)
(* The listeners of the inventory and payment services on one partition of *)
(* order-events, under the error handler of KafkaConfig: a record whose    *)
(* handler throws is tried four times, then published to the dead-letter   *)
(* topic; while that fails it is tried again from the start.               *)
(***************************************************************************)
EXTENDS ConsumerGroup

CONSTANT MaxAttempts    \* attempts before the recoverer: 1 + 3

ASSUME AttemptsAssumption == MaxAttempts \in Nat \ {0}

VARIABLE attempts       \* failed attempts at the record at position

commandVars == <<groupVars, attempts>>

CommandTypeOK == GroupTypeOK /\ attempts \in 0 .. MaxAttempts

Init == GroupInit /\ attempts = 0

(* auto-offset-reset: earliest *)
JoinGroup == Join(0) /\ UNCHANGED attempts

(* onOrderEvent returns. *)
OnOrderEvent ==
    \E n \in Offsets :
        /\ Processing(n)
        /\ attempts < MaxAttempts
        /\ Handle(n)
        /\ Advance
        /\ attempts' = 0
        /\ UNCHANGED <<logEnd, committed, quarantined, restarts>>

(* Mutant of OnOrderEventThrows. *)
BugSkipOnError ==
    \E n \in Offsets :
        /\ Processing(n)
        /\ attempts < MaxAttempts
        /\ Advance
        /\ attempts' = 0
        /\ UNCHANGED <<logEnd, committed, handled, quarantined, restarts>>

(* It throws, perhaps after its transaction committed. *)
OnOrderEventThrows ==
    \E n \in Offsets :
        /\ Processing(n)
        /\ attempts < MaxAttempts
        /\ attempts' = attempts + 1
        /\ (handled' = handled \/ Handle(n))
        /\ UNCHANGED <<logEnd, committed, position, quarantined, restarts>>

(* Mutant of Recover. *)
BugRecoverKeepsPosition ==
    \E n \in Offsets :
        /\ Processing(n)
        /\ attempts = MaxAttempts
        /\ quarantined' = quarantined \cup {n}
        /\ attempts' = 0
        /\ UNCHANGED <<logEnd, committed, position, handled, restarts>>

(* DeadLetterPublishingRecoverer *)
Recover ==
    \E n \in Offsets :
        /\ Processing(n)
        /\ attempts = MaxAttempts
        /\ quarantined' = quarantined \cup {n}
        /\ Advance
        /\ attempts' = 0
        /\ UNCHANGED <<logEnd, committed, handled, restarts>>

RecoverFails ==
    /\ attempts = MaxAttempts
    /\ attempts' = 0
    /\ UNCHANGED groupVars

(* The attempts are counted in memory. *)
Restart == Leave /\ attempts' = 0

-----------------------------------------------------------------------------
GroupStep(A) == A /\ UNCHANGED attempts

Next ==
    \/ GroupStep(Produce) \/ JoinGroup \/ GroupStep(CommitOffset) \/ Restart
    \/ OnOrderEvent \/ OnOrderEventThrows \/ Recover \/ RecoverFails

Spec == Init /\ [][Next]_commandVars

(* The container polls without end; the dead-letter topic is not           *)
(* unreachable every time.                                                 *)
Fairness ==
    /\ WF_commandVars(JoinGroup)
    /\ WF_commandVars(OnOrderEvent \/ OnOrderEventThrows)
    /\ SF_commandVars(Recover)

FairSpec == Spec /\ Fairness

-----------------------------------------------------------------------------
(* The records of a partition, hence the commands of one order, take       *)
(* effect for the first time in the order they were published, across      *)
(* retries and restarts.                                                   *)
FirstHandledInOrder ==
    [][\A n \in handled' \ handled :
         \A m \in Offsets : m < n => m \in handled \cup quarantined]_commandVars
=============================================================================
