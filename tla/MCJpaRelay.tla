----------------------------- MODULE MCJpaRelay -----------------------------
(***************************************************************************)
(* One process. With one row, leases run out while sends are unanswered    *)
(* and saves fail. With two rows in a batch, a send that throws leaves the *)
(* other row claimed; there a lease only runs out once the row's last send *)
(* was dealt with, and neither the process nor a callback fails, which     *)
(* leaves every fair step possible.                                        *)
(***************************************************************************)
EXTENDS JpaOutboxRelay

CONSTANT w1

VARIABLE shape

InHand(r) == sends[w1][r] > 0 \/ callback[w1][r] # "none"

MCInit == Init /\ shape \in {"oneRow", "batch"}

MCNext ==
    /\ Next
    /\ UNCHANGED shape
    /\ shape = "oneRow" => rowStatus'[2] = "NONE"
    /\ shape = "batch" =>
         /\ Restart(w1) => SendThrows(w1)
         /\ \A r \in Rows : ~CallbackFails(w1, r) /\ ~(LeaseExpires(r) /\ InHand(r))

MCSpec == MCInit /\ [][MCNext]_<<jpaVars, shape>> /\ Fairness
=============================================================================
