----------------------------- MODULE OutboxTable -----------------------------
(***************************************************************************)
(* The outbox_events table of a service, as its relays see it. The order   *)
(* service and the two Java services use the same columns and the same     *)
(* claim statement. Rows are numbered by created_at; as that is the start  *)
(* of the writing transaction, rows may become visible in any order.       *)
(***************************************************************************)
EXTENDS Naturals, FiniteSets

CONSTANTS
    MaxRow,        \* bound: how many rows are ever written
    BatchSize,     \* rows claimed by one poll: 50
    MaxRetries     \* failed sends after which a row is FAILED: 5

ASSUME OutboxAssumption ==
    MaxRow \in Nat /\ BatchSize \in Nat \ {0} /\ MaxRetries \in Nat \ {0}

Rows == 1 .. MaxRow

VARIABLES
    rowStatus,     \* outbox_events.status; NONE before, DELETED after
    leased,        \* rows with lease_expires_at >= NOW()
    retryCount,    \* outbox_events.retry_count
    published      \* rows of which Kafka holds at least one record

tableVars == <<rowStatus, leased, retryCount, published>>

OutboxStatus == {"PENDING", "IN_FLIGHT", "PROCESSED", "FAILED"}

TableTypeOK ==
    /\ rowStatus \in [Rows -> OutboxStatus \cup {"NONE", "DELETED"}]
    /\ leased \in SUBSET Rows
    /\ retryCount \in [Rows -> Nat]
    /\ published \in SUBSET Rows

TableInit ==
    /\ rowStatus = [r \in Rows |-> "NONE"]
    /\ leased = {}
    /\ retryCount = [r \in Rows |-> 0]
    /\ published = {}

(* A handler's transaction commits with the row. *)
Write(r) ==
    /\ rowStatus[r] = "NONE"
    /\ rowStatus' = [rowStatus EXCEPT ![r] = "PENDING"]
    /\ UNCHANGED <<leased, retryCount, published>>

(* Mutant of Claimable. *)
BugNeverReclaims(r) == rowStatus[r] = "PENDING"

Claimable(r) ==
    \/ rowStatus[r] = "PENDING"
    \/ rowStatus[r] = "IN_FLIGHT" /\ r \notin leased

(* ORDER BY created_at ASC LIMIT BatchSize *)
Batch ==
    {r \in Rows : /\ Claimable(r)
                  /\ Cardinality({q \in Rows : Claimable(q) /\ q < r}) < BatchSize}

(* claimLeasedBatch: one statement, whose FOR UPDATE SKIP LOCKED keeps two *)
(* concurrent claims apart, so it is one atomic step.                      *)
Claim ==
    /\ Batch # {}
    /\ rowStatus' = [r \in Rows |-> IF r \in Batch THEN "IN_FLIGHT" ELSE rowStatus[r]]
    /\ leased' = leased \cup Batch
    /\ UNCHANGED retryCount

(* Ten seconds after the claim. *)
LeaseExpires(r) ==
    /\ r \in leased
    /\ leased' = leased \ {r}
    /\ UNCHANGED <<rowStatus, retryCount, published>>

Exists(r) == rowStatus[r] \notin {"NONE", "DELETED"}

(* status PROCESSED or FAILED: no relay claims the row any more. *)
Settled(r) == rowStatus[r] \in {"PROCESSED", "FAILED", "DELETED"}

(* An outcome is written to the row, wherever it is by then. *)
SetOutcome(r, s) ==
    /\ rowStatus' = IF Exists(r) THEN [rowStatus EXCEPT ![r] = s] ELSE rowStatus
    /\ leased' = leased \ {r}

(* Mutant of Fail. *)
BugFailForgetsCount(r, n) ==
    /\ SetOutcome(r, IF n >= MaxRetries THEN "FAILED" ELSE "PENDING")
    /\ UNCHANGED retryCount

(* The n-th failure of a row. *)
Fail(r, n) ==
    /\ SetOutcome(r, IF n >= MaxRetries THEN "FAILED" ELSE "PENDING")
    /\ retryCount' = [retryCount EXCEPT ![r] = n]

-----------------------------------------------------------------------------
(* No row is taken off the outbox as PROCESSED unless Kafka has it: the    *)
(* dual write loses nothing, whichever relay, crash or late answer wrote   *)
(* the status.                                                             *)
NoSilentLoss == \A r \in Rows : rowStatus[r] \in {"PROCESSED", "DELETED"} => r \in published

(* Every row written is published and marked or, after MaxRetries         *)
(* failures, FAILED, whatever stops, expires or answers late on the way.   *)
EveryRowSettles == \A r \in Rows : rowStatus[r] = "PENDING" ~> Settled(r)
=============================================================================
