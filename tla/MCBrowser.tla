------------------------------ MODULE MCBrowser ------------------------------
(***************************************************************************)
(* What a browser does over HTTP: it posts orders and loads lists of them. *)
(* Neither these nor the two pages have state in common that they change,  *)
(* so that the run checks one at a time: running says which.               *)
(***************************************************************************)
EXTENDS IngressIdempotency, LiveView

VARIABLE running

mcVars == <<ingressVars, viewVars, running>>

(* Three requests with one key, a checkout and two retries of it, and one  *)
(* request with another key.                                               *)
MCRequests == {"q1", "q2", "q3", "q4"}
MCKey == [q \in MCRequests |-> IF q = "q4" THEN "k2" ELSE "k1"]

MCInit == Init /\ ViewInit /\ running \in {"post", "sync", "stream"}

MCNext ==
    /\ UNCHANGED running
    /\ \/ running = "post" /\ Next /\ UNCHANGED viewVars
       \/ running = "sync" /\ SyncNext /\ UNCHANGED ingressVars
       \/ running = "stream" /\ StreamNext /\ UNCHANGED ingressVars

MCSpec ==
    /\ MCInit /\ [][MCNext]_mcVars
    /\ (running = "post") => \A q \in Requests : WF_ingressVars(Proceed(q))
    /\ (running = "sync") => SyncFairness
    /\ (running = "stream") => StreamFairness

-----------------------------------------------------------------------------
(* The liveness properties, each of its part of the run.                   *)
PostsEnd == (running = "post") => EveryRequestEnds

ListsCatchUp ==
    /\ (running = "sync") => SyncCatchesUp
    /\ (running = "stream") => StreamCatchesUp
=============================================================================
