---------------------------- MODULE OutboxChannel ----------------------------
(***************************************************************************)
(* What the saga takes an outbox and its relay for: a row that was written *)
(* is published at least once or given up, in no particular order, and a   *)
(* row that was not written is never seen. Module Saga is built on this.   *)
(***************************************************************************)
CONSTANT Rows

VARIABLES
    written,      \* rows whose transaction committed
    published,    \* rows of which Kafka holds at least one record
    abandoned     \* rows no relay will try again

channelVars == <<written, published, abandoned>>

Init == written = {} /\ published = {} /\ abandoned = {}

Write(r) ==
    /\ r \notin written
    /\ written' = written \cup {r}
    /\ UNCHANGED <<published, abandoned>>

Publish(r) ==
    /\ r \in written
    /\ published' = published \cup {r}
    /\ UNCHANGED <<written, abandoned>>

Abandon(r) ==
    /\ r \in written
    /\ abandoned' = abandoned \cup {r}
    /\ UNCHANGED <<written, published>>

(* A relay that lost its lease may put the row back. *)
Resume(r) ==
    /\ abandoned' = abandoned \ {r}
    /\ UNCHANGED <<written, published>>

Settled(r) == r \in published \cup abandoned

Settle(r) == ~Settled(r) /\ (Publish(r) \/ Abandon(r))

Next == \E r \in Rows : Write(r) \/ Publish(r) \/ Abandon(r) \/ Resume(r)

Spec == Init /\ [][Next]_channelVars /\ \A r \in Rows : WF_channelVars(Settle(r))
=============================================================================
