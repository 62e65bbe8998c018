---------------------------- MODULE ConsumerGroup ----------------------------
(***************************************************************************)
(* A consumer group reading one partition, as the services use Kafka: the  *)
(* broker keeps the log and the committed offset, the consumer its         *)
(* position, which it loses when it stops or the partition is reassigned.  *)
(***************************************************************************)
EXTENDS Naturals

CONSTANTS
    MaxOffset,     \* bound: records ever produced
    Poison,        \* offsets of records that cannot be parsed
    MaxRestarts    \* bound: how often the consumer stops or is reassigned

Offsets == 0 .. MaxOffset - 1

ASSUME ConsumerAssumption ==
    /\ MaxOffset \in Nat /\ MaxRestarts \in Nat
    /\ Poison \subseteq Offsets

NoOffset == MaxOffset + 1

VARIABLES
    logEnd,        \* next offset the broker assigns
    committed,     \* the group's committed offset, or NoOffset
    position,      \* next offset to process; NoOffset while not joined
    handled,       \* records whose handler's transaction committed
    quarantined,   \* records that are in the dead-letter topic
    restarts

groupVars == <<logEnd, committed, position, handled, quarantined, restarts>>

GroupTypeOK ==
    /\ logEnd \in 0 .. MaxOffset
    /\ committed \in 0 .. logEnd \cup {NoOffset}
    /\ position \in 0 .. logEnd \cup {NoOffset}
    /\ handled \in SUBSET (Offsets \ Poison)
    /\ quarantined \in SUBSET Offsets
    /\ restarts \in 0 .. MaxRestarts

GroupInit ==
    /\ logEnd = 0
    /\ committed = NoOffset
    /\ position = NoOffset
    /\ handled = {}
    /\ quarantined = {}
    /\ restarts = 0

Joined == position # NoOffset

Produce ==
    /\ logEnd < MaxOffset
    /\ logEnd' = logEnd + 1
    /\ UNCHANGED <<committed, position, handled, quarantined, restarts>>

(* The consumer joins at the committed offset, or where "reset" says.      *)
Join(reset) ==
    /\ ~Joined
    /\ position' = IF committed = NoOffset THEN reset ELSE committed
    /\ UNCHANGED <<logEnd, committed, handled, quarantined, restarts>>

(* Mutant of CommitOffset. *)
BugCommitNext ==
    /\ Joined
    /\ committed' = position + 1
    /\ UNCHANGED <<logEnd, position, handled, quarantined, restarts>>

CommitOffset ==
    /\ Joined
    /\ committed # position
    /\ committed' = position
    /\ UNCHANGED <<logEnd, position, handled, quarantined, restarts>>

Leave ==
    /\ Joined
    /\ restarts < MaxRestarts
    /\ restarts' = restarts + 1
    /\ position' = NoOffset
    /\ UNCHANGED <<logEnd, committed, handled, quarantined>>

Processing(n) == position = n /\ n < logEnd

Advance == position' = position + 1

Handle(n) == n \notin Poison /\ handled' = handled \cup {n}

-----------------------------------------------------------------------------
(* No record is given up without a trace: whatever the group will not read *)
(* again was handled or is in the dead-letter topic.                       *)
NothingDropped ==
    committed # NoOffset =>
        \A n \in Offsets : n < committed => n \in handled \cup quarantined

(* No record blocks those behind it: every record's turn passes.           *)
PartitionMoves == \A n \in Offsets : logEnd > n ~> Joined /\ position > n
=============================================================================
