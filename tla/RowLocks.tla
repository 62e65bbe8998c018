------------------------------ MODULE RowLocks ------------------------------
(***************************************************************************)
(* The transactions of a Java service's consumers in its database, as the  *)
(* handlers use them: READ COMMITTED, rows read by SELECT ... FOR UPDATE   *)
(* stay locked until the transaction ends, writes reach the table when it  *)
(* commits, and the database ends one that waits in a cycle. The two       *)
(* services share neither a database nor a row.                            *)
(***************************************************************************)
EXTENDS OrderIds, Integers

CONSTANTS
    Consumers,     \* members of the service's consumer group
    MaxShared      \* bound: orders that two of them ever handle at once

VARIABLES
    job,        \* the command a consumer handles, <<type, order>>
    stage,      \* how far its transaction is; "idle" outside of one
    loaded,     \* rows it holds a lock on, with the value it read
    shared      \* orders that two consumers handled at the same time

lockVars == <<job, stage, loaded, shared>>

ASSUME MaxSharedAssumption == MaxShared \in Nat

NoJob == <<"none", "none">>
NoRows == [r \in {} |-> 0]

LocksInit ==
    /\ job = [c \in Consumers |-> NoJob]
    /\ stage = [c \in Consumers |-> "idle"]
    /\ loaded = [c \in Consumers |-> NoRows]
    /\ shared = {}

Busy(c) == stage[c] # "idle"
Order(c) == job[c][2]
Locked(c) == DOMAIN loaded[c]

(* A listener calls its handler for a command about order o. A partition   *)
(* has one consumer, but one that lost it in a rebalance may still be in   *)
(* its handler when the next owner gets the same or a later command.       *)
Begin(c, t, o, first) ==
    /\ ~Busy(c)
    /\ job' = [job EXCEPT ![c] = <<t, o>>]
    /\ stage' = [stage EXCEPT ![c] = first]
    /\ shared' = IF \E d \in Consumers : Order(d) = o THEN shared \cup {o} ELSE shared
    /\ Cardinality(shared') <= MaxShared
    /\ UNCHANGED loaded

GoTo(c, s) ==
    /\ stage' = [stage EXCEPT ![c] = s]
    /\ UNCHANGED <<job, loaded, shared>>

(* Mutant of Free. *)
BugNoLock(c, r) == TRUE

Free(c, r) == \A d \in Consumers \ {c} : r \notin Locked(d)

(* findByIdWithLock, findByCustomerIdWithLock: waits for the row's lock,   *)
(* then reads what was committed last.                                     *)
LockRow(c, r, value, next) ==
    /\ Free(c, r)
    /\ loaded' = [loaded EXCEPT ![c] =
         [x \in Locked(c) \cup {r} |-> IF x = r THEN value ELSE @[x]]]
    /\ stage' = [stage EXCEPT ![c] = next]
    /\ UNCHANGED <<job, shared>>

(* Mutant of End. *)
BugEndKeepsLocks(c) ==
    /\ Busy(c)
    /\ job' = [job EXCEPT ![c] = NoJob]
    /\ stage' = [stage EXCEPT ![c] = "idle"]
    /\ UNCHANGED <<loaded, shared>>

(* The transaction commits or is rolled back. *)
End(c) ==
    /\ Busy(c)
    /\ job' = [job EXCEPT ![c] = NoJob]
    /\ stage' = [stage EXCEPT ![c] = "idle"]
    /\ loaded' = [loaded EXCEPT ![c] = NoRows]
    /\ UNCHANGED shared

(* c waits in a cycle, or for one. wants[d] is the row d waits for, if any.*)
Deadlocked(c, wants) ==
    \E S \in SUBSET Consumers :
        /\ c \in S
        /\ \A d \in S : \E e \in S \ {d} : wants[d] \cap Locked(e) # {}

LocksTypeOK(types, stages, rows) ==
    /\ job \in [Consumers -> (types \X Orders) \cup {NoJob}]
    /\ stage \in [Consumers -> stages]
    /\ loaded = [c \in Consumers |-> loaded[c]]
    /\ \A c \in Consumers : Locked(c) \subseteq rows /\ loaded[c] \in [Locked(c) -> Int]
    /\ shared \in SUBSET Orders
=============================================================================
