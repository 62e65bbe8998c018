---------------------------- MODULE ConsumerProofs ----------------------------
(* What the Spring listeners and the kafkajs consumers guarantee for any   *)
(* partition, any number of restarts, attempts and starts.                 *)
EXTENDS MCConsumers, TLAPS

(* Everything before the position was handled or quarantined, and the      *)
(* committed offset is not ahead of what was processed.                    *)
Settled(k) == \A n \in Offsets : n < k => n \in handled \cup quarantined

ConsumerInv ==
    /\ CommandTypeOK
    /\ Joined => Settled(position)
    /\ NothingDropped

LEMMA ConstantFacts ==
    /\ MaxOffset \in Nat /\ MaxRestarts \in Nat /\ MaxAttempts \in Nat
    /\ Offsets \subseteq Nat
    /\ NoOffset \in Nat /\ NoOffset \notin 0 .. MaxOffset
BY ConsumerAssumption, AttemptsAssumption DEF Offsets, NoOffset

LEMMA ConsumerInvInit == Init => ConsumerInv
BY ConstantFacts
   DEF Init, GroupInit, ConsumerInv, CommandTypeOK, GroupTypeOK, Joined, NothingDropped

LEMMA ConsumerInvStep == ConsumerInv /\ [Next]_commandVars => ConsumerInv'
<1> SUFFICES ASSUME ConsumerInv, [Next]_commandVars PROVE ConsumerInv'
    OBVIOUS
<1> USE ConstantFacts
<1>1. CASE GroupStep(Produce)
    BY <1>1 DEF GroupStep, Produce, ConsumerInv, CommandTypeOK, GroupTypeOK, Joined,
                NothingDropped, Settled
<1>2. CASE JoinGroup
    BY <1>2 DEF JoinGroup, Join, ConsumerInv, CommandTypeOK, GroupTypeOK, Joined,
                NothingDropped, Settled
<1>3. CASE GroupStep(CommitOffset)
    BY <1>3 DEF GroupStep, CommitOffset, ConsumerInv, CommandTypeOK, GroupTypeOK, Joined,
                NothingDropped, Settled
<1>4. CASE Restart
    BY <1>4 DEF Restart, Leave, ConsumerInv, CommandTypeOK, GroupTypeOK, Joined,
                NothingDropped, Settled
<1>5. CASE OnOrderEvent
    <2>1. PICK n \in Offsets : /\ Processing(n) /\ Handle(n) /\ Advance
                              /\ attempts' = 0
                              /\ UNCHANGED <<logEnd, committed, quarantined, restarts>>
        BY <1>5 DEF OnOrderEvent
    <2>2. CommandTypeOK'
        BY <2>1 DEF Processing, Handle, Advance, ConsumerInv, CommandTypeOK, GroupTypeOK
    <2>3. Settled(n) /\ position' = n + 1 /\ handled' = handled \cup {n}
        BY <2>1 DEF Processing, Handle, Advance, ConsumerInv, Joined, CommandTypeOK,
                    GroupTypeOK, Offsets, NoOffset
    <2>4. Settled(n + 1)'
        BY <2>1, <2>3 DEF Settled
    <2>5. NothingDropped'
        BY <2>1, <2>3 DEF ConsumerInv, NothingDropped
    <2> QED
        BY <2>2, <2>3, <2>4, <2>5 DEF ConsumerInv
<1>6. CASE OnOrderEventThrows
    <2>1. PICK n \in Offsets : /\ attempts < MaxAttempts
                              /\ attempts' = attempts + 1
                              /\ (handled' = handled \/ Handle(n))
                              /\ UNCHANGED <<logEnd, committed, position, quarantined, restarts>>
        BY <1>6 DEF OnOrderEventThrows
    <2>2. handled \subseteq handled' /\ handled' \in SUBSET (Offsets \ Poison)
        BY <2>1 DEF Handle, ConsumerInv, CommandTypeOK, GroupTypeOK
    <2>3. CommandTypeOK'
        BY <2>1, <2>2 DEF ConsumerInv, CommandTypeOK, GroupTypeOK
    <2>4. (Joined => Settled(position))' /\ NothingDropped'
        BY <2>1, <2>2 DEF ConsumerInv, Joined, Settled, NothingDropped
    <2> QED
        BY <2>3, <2>4 DEF ConsumerInv
<1>7. CASE Recover
    BY <1>7 DEF Recover, Processing, Advance, ConsumerInv, CommandTypeOK, GroupTypeOK,
                Joined, NothingDropped, Settled
<1>8. CASE RecoverFails
    BY <1>8 DEF RecoverFails, groupVars, ConsumerInv, CommandTypeOK, GroupTypeOK, Joined,
                NothingDropped, Settled
<1>9. CASE UNCHANGED commandVars
    BY <1>9 DEF commandVars, groupVars, ConsumerInv, CommandTypeOK, GroupTypeOK, Joined,
                NothingDropped, Settled
<1> QED
    BY <1>1, <1>2, <1>3, <1>4, <1>5, <1>6, <1>7, <1>8, <1>9 DEF Next

(* No command the listeners will not read again is without a trace, for    *)
(* any partition.                                                          *)
THEOREM CommandsNeverDropped == Spec => []NothingDropped
<1>1. Spec => []ConsumerInv
    BY ConsumerInvInit, ConsumerInvStep, PTL DEF Spec
<1>2. ConsumerInv => NothingDropped
    BY DEF ConsumerInv
<1> QED
    BY <1>1, <1>2, PTL

LEMMA HandledInOrderStep ==
    ConsumerInv /\ [Next]_commandVars =>
        \A n \in handled' \ handled :
            \A m \in Offsets : m < n => m \in handled \cup quarantined
<1> SUFFICES ASSUME ConsumerInv, [Next]_commandVars,
                    NEW n \in handled' \ handled, NEW m \in Offsets, m < n
             PROVE  m \in handled \cup quarantined
    OBVIOUS
<1>1. Processing(n)
    BY DEF Next, GroupStep, Produce, JoinGroup, Join, CommitOffset, Restart, Leave,
           OnOrderEvent, OnOrderEventThrows, Recover, RecoverFails, Handle, commandVars,
           groupVars
<1>2. n \in Offsets
    BY DEF Next, GroupStep, Produce, JoinGroup, Join, CommitOffset, Restart, Leave,
           OnOrderEvent, OnOrderEventThrows, Recover, RecoverFails, Handle, commandVars,
           groupVars
<1>3. Joined
    BY <1>1, <1>2, ConstantFacts, ConsumerAssumption DEF Processing, Joined, Offsets, NoOffset
<1> QED
    BY <1>1, <1>3 DEF Processing, ConsumerInv, Settled

(* Commands of a partition take effect for the first time in the order     *)
(* they were published, for any partition.                                 *)
THEOREM CommandsInOrder == Spec => FirstHandledInOrder
<1>1. Spec => []ConsumerInv
    BY ConsumerInvInit, ConsumerInvStep, PTL DEF Spec
<1>2. ConsumerInv /\ [Next]_commandVars =>
          [\A n \in handled' \ handled :
              \A m \in Offsets : m < n => m \in handled \cup quarantined]_commandVars
    BY HandledInOrderStep
<1> QED
    BY <1>1, <1>2, PTL DEF Spec, FirstHandledInOrder

-----------------------------------------------------------------------------
(* The consumers written with kafkajs. *)

(* What LossIsLogged says of record n, and of all before offset k.         *)
Explained(n) == \/ n \in eHandled \cup eQuarantined \cup logged
                \/ n < firstOffset
                \/ interrupted /\ n < firstCommit

EventSettled(k) == \A n \in Offsets : n < k => Explained(n)

(* The group's past fits its present: it has begun to read if it is         *)
(* joined or has committed, and if it is neither it was interrupted.        *)
HistoryFits ==
    /\ firstOffset \in 0 .. MaxOffset \cup {NoOffset}
    /\ firstCommit \in 0 .. MaxOffset \cup {NoOffset}
    /\ eCommitted = NoOffset => firstCommit = NoOffset
    /\ Events!Joined \/ eCommitted # NoOffset => firstOffset # NoOffset
    /\ firstOffset # NoOffset /\ ~Events!Joined /\ eCommitted = NoOffset => interrupted

EventInv ==
    /\ Events!GroupTypeOK
    /\ HistoryFits
    /\ Events!Joined => EventSettled(ePosition)
    /\ eCommitted # NoOffset => EventSettled(eCommitted)

LEMMA EventInvInit == Events!Init => EventInv
BY ConsumerAssumption
   DEF Events!Init, Events!GroupInit, Events!GroupTypeOK, Events!Joined, EventInv, HistoryFits,
       NoOffset, Events!NoOffset, Events!Offsets, Offsets

(* Record n is taken, whatever becomes of it: a trace of it remains.       *)
Taken(n) ==
    /\ ePosition = n /\ n < eLogEnd /\ ePosition' = n + 1
    /\ eHandled \subseteq eHandled' /\ eHandled' \in SUBSET (Offsets \ Poison)
    /\ eQuarantined \subseteq eQuarantined' /\ eQuarantined' \in SUBSET Offsets
    /\ logged \subseteq logged'
    /\ n \in eHandled' \cup eQuarantined' \cup logged'
    /\ UNCHANGED <<eLogEnd, eCommitted, eRestarts, firstOffset, firstCommit, interrupted>>

LEMMA EventTaken ==
    ASSUME EventInv, NEW n \in Offsets, Taken(n)
    PROVE  EventInv'
<1> USE DEF Taken
<1> USE ConstantFacts
<1>1. Events!GroupTypeOK'
    BY DEF EventInv, Events!GroupTypeOK, Events!Offsets, Offsets
<1>2. Events!Joined /\ EventSettled(n)
    BY ConsumerAssumption DEF EventInv, Events!Joined, Events!NoOffset, Offsets
<1>3. EventSettled(n + 1)'
    BY <1>2 DEF EventSettled, Explained
<1>4. ASSUME eCommitted # NoOffset PROVE EventSettled(eCommitted)'
    BY <1>4 DEF EventInv, EventSettled, Explained
<1>5. HistoryFits'
    BY <1>2, ConsumerAssumption
       DEF EventInv, HistoryFits, Events!Joined, Events!NoOffset, NoOffset, Offsets
<1> QED
    BY <1>1, <1>3, <1>4, <1>5 DEF EventInv

LEMMA EventInvStep == EventInv /\ [Events!Next]_eVars => EventInv'
<1> SUFFICES ASSUME EventInv, [Events!Next]_eVars PROVE EventInv'
    OBVIOUS
<1> USE ConstantFacts DEF Events!NoOffset, NoOffset, Events!Offsets, Offsets
<1>1. CASE Events!GroupStep
    <2>1. CASE Events!Produce /\ UNCHANGED Events!historyVars
        BY <1>1, <2>1 DEF Events!GroupStep, Events!Produce, Events!historyVars, EventInv,
                          HistoryFits, Events!GroupTypeOK, Events!Joined, EventSettled, Explained
    <2>2. CASE /\ Events!CommitOffset
               /\ firstCommit' = IF eCommitted = NoOffset THEN eCommitted' ELSE firstCommit
               /\ UNCHANGED <<firstOffset, interrupted>>
        <3>1. /\ Events!Joined /\ eCommitted' = ePosition
              /\ UNCHANGED <<eLogEnd, ePosition, eHandled, eQuarantined, eRestarts, logged>>
            BY <1>1, <2>2 DEF Events!GroupStep, Events!CommitOffset
        <3>2. Events!GroupTypeOK' /\ HistoryFits'
            BY <2>2, <3>1 DEF EventInv, HistoryFits, Events!GroupTypeOK, Events!Joined
        <3>3. EventSettled(ePosition)
            BY <3>1 DEF EventInv
        <3>4. EventSettled(ePosition)'
            BY <2>2, <3>1, <3>3 DEF EventInv, Events!GroupTypeOK, EventSettled, Explained
        <3> QED
            BY <3>1, <3>2, <3>4 DEF EventInv, EventSettled
    <2>3. CASE Events!Leave /\ Events!Interrupts
        BY <1>1, <2>3 DEF Events!GroupStep, Events!Leave, Events!Interrupts, EventInv, HistoryFits,
                          Events!GroupTypeOK, Events!Joined, EventSettled, Explained
    <2> QED
        BY <1>1, <2>1, <2>2, <2>3 DEF Events!GroupStep
<1>2. CASE Events!JoinGroup
    <2>1. /\ ~Events!Joined
          /\ ePosition' = IF eCommitted = NoOffset THEN eLogEnd ELSE eCommitted
          /\ firstOffset' = IF firstOffset = NoOffset THEN ePosition' ELSE firstOffset
          /\ UNCHANGED <<eLogEnd, eCommitted, eHandled, eQuarantined, eRestarts, logged,
                         firstCommit, interrupted>>
        BY <1>2 DEF Events!JoinGroup, Events!Join, Events!Begins
    <2>2. Events!GroupTypeOK' /\ HistoryFits'
        BY <2>1 DEF EventInv, HistoryFits, Events!GroupTypeOK, Events!Joined
    <2>3. CASE eCommitted = NoOffset
        <3>1. firstOffset = NoOffset \/ (interrupted /\ firstCommit = NoOffset)
            BY <2>1, <2>3 DEF EventInv, HistoryFits
        <3>2. EventSettled(ePosition)'
            BY <2>1, <2>3, <3>1 DEF EventSettled, Explained
        <3> QED
            BY <2>1, <2>2, <2>3, <3>2 DEF EventInv
    <2>4. CASE eCommitted # NoOffset
        <3>1. firstOffset' = firstOffset
            BY <2>1, <2>4 DEF EventInv, HistoryFits
        <3>2. EventSettled(eCommitted)' /\ EventSettled(ePosition)'
            BY <2>1, <2>4, <3>1 DEF EventInv, EventSettled, Explained
        <3> QED
            BY <2>2, <3>2 DEF EventInv
    <2> QED
        BY <2>3, <2>4
<1>3. CASE Events!StartFails
    BY <1>3 DEF Events!StartFails, Events!groupVars, Events!historyVars, EventInv, HistoryFits,
                Events!GroupTypeOK, Events!Joined, EventSettled, Explained
<1>4. CASE Events!ProcessMessage
    <2>1. PICK n \in Offsets :
             /\ ePosition = n /\ n < eLogEnd /\ ePosition' = n + 1 /\ Events!Handle(n)
             /\ UNCHANGED <<eLogEnd, eCommitted, eRestarts, eQuarantined, logged,
                            firstOffset, firstCommit, interrupted>>
        BY <1>4 DEF Events!ProcessMessage, Events!Processing, Events!Advance, Events!historyVars
    <2>2. /\ eHandled \subseteq eHandled' /\ n \in eHandled'
          /\ eHandled' \in SUBSET (Offsets \ Poison)
        BY <2>1 DEF Events!Handle, EventInv, Events!GroupTypeOK
    <2>3. eQuarantined' \in SUBSET Offsets
        BY <2>1 DEF EventInv, Events!GroupTypeOK
    <2>4. Taken(n)
        BY <2>1, <2>2, <2>3 DEF Taken
    <2> QED
        BY <2>4, EventTaken
<1>5. CASE Events!ProcessingFails
    <2>1. PICK n \in Offsets :
             /\ ePosition = n /\ n < eLogEnd /\ ePosition' = n + 1
             /\ eHandled' = eHandled \/ Events!Handle(n)
             /\ Events!Quarantine(n) \/ Events!OnlyLog(n)
             /\ UNCHANGED <<eLogEnd, eCommitted, eRestarts, firstOffset, firstCommit, interrupted>>
        BY <1>5 DEF Events!ProcessingFails, Events!Processing, Events!Advance, Events!historyVars
    <2>2. eHandled \subseteq eHandled' /\ eHandled' \in SUBSET (Offsets \ Poison)
        BY <2>1 DEF Events!Handle, EventInv, Events!GroupTypeOK
    <2>3. /\ eQuarantined \subseteq eQuarantined' /\ eQuarantined' \in SUBSET Offsets
          /\ logged \subseteq logged' /\ n \in eQuarantined' \cup logged'
        BY <2>1 DEF Events!Quarantine, Events!OnlyLog, EventInv, Events!GroupTypeOK
    <2>4. Taken(n)
        BY <2>1, <2>2, <2>3 DEF Taken
    <2> QED
        BY <2>4, EventTaken
<1>6. CASE Events!Restart
    BY <1>6 DEF Events!Restart, Events!Interrupts, EventInv, HistoryFits, Events!GroupTypeOK,
                Events!Joined, EventSettled, Explained
<1>7. CASE UNCHANGED eVars
    BY <1>7 DEF eVars, EventInv, HistoryFits, Events!GroupTypeOK, Events!Joined, EventSettled,
                Explained
<1> QED
    BY <1>1, <1>2, <1>3, <1>4, <1>5, <1>6, <1>7 DEF Events!Next

(* An event that the order service or the projection has passed was        *)
(* handled or quarantined, or its failure was logged, for any partition,   *)
(* however often the consumer fails to start, crashes or loses the         *)
(* partition. Only what was there before the group first began to read is  *)
(* excepted, and, if the first consumer was gone before any commit, what   *)
(* was there before the first commit.                                      *)
THEOREM EventLossIsLogged == Events!Spec => []LossIsLogged
<1>1. Events!Spec => []EventInv
    <2>1. EventInv /\ [Events!Next]_Events!eventVars => EventInv'
        BY EventInvStep DEF Events!eventVars, Events!groupVars, Events!historyVars, eVars
    <2> QED
        BY <2>1, EventInvInit, PTL DEF Events!Spec
<1>2. EventInv => LossIsLogged
    BY DEF EventInv, EventSettled, Explained, LossIsLogged, Events!LossIsLogged, Events!Passed,
           Events!NoOffset, NoOffset, Events!Offsets, Offsets
<1> QED
    BY <1>1, <1>2, PTL
=============================================================================
