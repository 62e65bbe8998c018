----------------------------- MODULE MCConsumers -----------------------------
(***************************************************************************)
(* A partition of order-events with a Java listener, and one of another    *)
(* topic with a kafkajs consumer. They share nothing, so that the run      *)
(* checks them one at a time: running says which.                          *)
(***************************************************************************)
EXTENDS CommandConsumer

CONSTANT MaxStarts

VARIABLES
    eLogEnd, eCommitted, ePosition, eHandled, eQuarantined, eRestarts,
    service, failedStarts, logged, firstOffset, firstCommit, interrupted,
    running

Events == INSTANCE EventConsumer WITH
    logEnd <- eLogEnd, committed <- eCommitted, position <- ePosition,
    handled <- eHandled, quarantined <- eQuarantined, restarts <- eRestarts

eVars == <<eLogEnd, eCommitted, ePosition, eHandled, eQuarantined, eRestarts,
           service, failedStarts, logged, firstOffset, firstCommit, interrupted>>

mcVars == <<commandVars, eVars, running>>

MCInit == Init /\ Events!Init /\ running \in {"commands", "events"}

MCNext ==
    /\ UNCHANGED running
    /\ \/ running = "commands" /\ Next /\ UNCHANGED eVars
       \/ running = "events" /\ Events!Next /\ UNCHANGED commandVars

MCSpec ==
    /\ MCInit /\ [][MCNext]_mcVars
    /\ (running = "commands") => Fairness
    /\ (running = "events") => Events!Fairness

LossIsLogged == Events!LossIsLogged
EventsMove == Events!EventsMove
=============================================================================
