---------------------------- MODULE MCOrderRelay ----------------------------
(***************************************************************************)
(* Two processes that contend for one row, or one process with two rows in *)
(* a batch. The second process of the other shape has stopped for good, so *)
(* that fairness asks nothing of it.                                       *)
(***************************************************************************)
EXTENDS OrderOutboxRelay

CONSTANTS w1, w2

VARIABLE shape

MCInit == Init /\ shape \in {"oneRow", "batch"}

MCNext ==
    /\ Next
    /\ UNCHANGED shape
    /\ shape = "oneRow" => rowStatus'[2] = "NONE"
    /\ shape = "batch" => ~isProcessing(w2)'

MCSpec ==
    /\ MCInit /\ [][MCNext]_<<relayVars, shape>>
    /\ \A r \in Rows : WF_relayVars(TableStep(LeaseExpires(r)))
    /\ RelayFairness(w1)
    /\ (shape = "oneRow") => RelayFairness(w2)
=============================================================================
