------------------------------ MODULE LiveView ------------------------------
(***************************************************************************)
(* The list of orders in the two pages of the visualizer-dashboard, as     *)
(* they load it from the read-projection-service. The page of page.tsx     *)
(* asks for it every four seconds; the one of public/app.js, whose timer   *)
(* reloads other tables only, when the event stream tells of a change.     *)
(* Requests overlap, and an answer may arrive after a younger one.         *)
(***************************************************************************)
EXTENDS Naturals, FiniteSets, FiniteSetsExt

CONSTANTS
    MaxUpdates,     \* bound: updates of the read model
    MaxRequests     \* bound: requests of a page that are under way

ASSUME ViewAssumption == MaxUpdates \in Nat /\ MaxRequests \in Nat \ {0}

Versions == 0 .. MaxUpdates

(* By its number of updates: the list of orders is empty in version 0. *)
VARIABLES
    projected,   \* the version of the read model
    unsent,      \* events that processEvent has yet to broadcast
    connected,   \* app.js is connected to the stream
    received,    \* events of the stream that app.js has yet to handle
    asked,       \* requests of each page the service has not served yet
    answers,     \* answers on the way to each page, by version
    listed,      \* the version each page shows
    missed       \* since app.js last asked it lost an event or a request, or
                 \* showed an old answer

viewVars == <<projected, unsent, connected, received, asked, answers, listed, missed>>

Pages == {"page.tsx", "app.js"}

UnderWay(v) == asked[v] + MapThenSumSet(LAMBDA n : answers[v][n], Versions)

(* Either page asks for the list when it has been loaded. *)
ViewInit ==
    /\ projected = 0
    /\ unsent = 0
    /\ connected = FALSE
    /\ received = 0
    /\ asked = [v \in Pages |-> 1]
    /\ answers = [v \in Pages |-> [n \in Versions |-> 0]]
    /\ listed = [v \in Pages |-> 0]
    /\ missed = FALSE

-----------------------------------------------------------------------------
(* processEvent updates a document. It broadcasts the update, and the      *)
(* Kafka consumer the message too; the ingest endpoint does not.           *)
Project ==
    /\ projected < MaxUpdates
    /\ projected' = projected + 1
    /\ \E n \in {1, 2} : unsent' = unsent + n
    /\ UNCHANGED <<connected, received, asked, answers, listed, missed>>

(* broadcastLiveEvent: a Subject keeps nothing for those who come later.   *)
BroadcastLiveEvent ==
    /\ unsent > 0
    /\ unsent' = unsent - 1
    /\ received' = IF connected THEN received + 1 ELSE received
    /\ missed' = (missed \/ ~connected)
    /\ UNCHANGED <<projected, connected, asked, answers, listed>>

(* EventSource connects, again and again. *)
Reconnect ==
    /\ connected' = ~connected
    /\ UNCHANGED <<projected, unsent, received, asked, answers, listed, missed>>

Ask(v) ==
    /\ UnderWay(v) < MaxRequests
    /\ asked' = [asked EXCEPT ![v] = @ + 1]
    /\ missed' = (missed /\ v # "app.js")
    /\ UNCHANGED <<projected, unsent, connected, answers, listed>>

(* attemptBackendSync, every four seconds. One whose requests all time out *)
(* lasts 4.8 s, so that two are under way.                                 *)
AttemptBackendSync == Ask("page.tsx") /\ UNCHANGED received

(* Mutant of HandleLiveEvent. *)
BugIgnoresEvent ==
    /\ received > 0
    /\ received' = received - 1
    /\ UNCHANGED <<projected, unsent, connected, asked, answers, listed, missed>>

(* handleLiveEvent of app.js *)
HandleLiveEvent ==
    /\ received > 0
    /\ received' = received - 1
    /\ Ask("app.js")

(* handleOrderSubmit and the chaos scenarios of app.js reload the list.    *)
ReloadAfterSubmit == Ask("app.js") /\ UNCHANGED received

(* getAllOrders *)
GetAllOrders(v) ==
    /\ asked[v] > 0
    /\ asked' = [asked EXCEPT ![v] = @ - 1]
    /\ answers' = [answers EXCEPT ![v][projected] = @ + 1]
    /\ UNCHANGED <<projected, unsent, connected, received, listed, missed>>

(* The answer n arrives. page.tsx keeps what it has when the list is empty.*)
ShowOrders(v, n) ==
    /\ answers[v][n] > 0
    /\ answers' = [answers EXCEPT ![v][n] = @ - 1]
    /\ listed' = IF v = "page.tsx" /\ n = 0 THEN listed ELSE [listed EXCEPT ![v] = n]
    /\ missed' = (missed \/ (v = "app.js" /\ n < listed[v]))
    /\ UNCHANGED <<projected, unsent, connected, received, asked>>

(* A request or its answer is lost or too late; either page says nothing.  *)
RequestFails(v) ==
    /\ \/ asked[v] > 0 /\ asked' = [asked EXCEPT ![v] = @ - 1] /\ UNCHANGED answers
       \/ \E n \in Versions :
            /\ answers[v][n] > 0 /\ answers' = [answers EXCEPT ![v][n] = @ - 1]
            /\ UNCHANGED asked
    /\ missed' = (missed \/ v = "app.js")
    /\ UNCHANGED <<projected, unsent, connected, received, listed>>

-----------------------------------------------------------------------------
Requested(v) == GetAllOrders(v) \/ RequestFails(v) \/ \E n \in Versions : ShowOrders(v, n)

StreamStep == BroadcastLiveEvent \/ Reconnect \/ HandleLiveEvent \/ ReloadAfterSubmit

SyncNext == Project \/ AttemptBackendSync \/ Requested("page.tsx")
StreamNext == Project \/ StreamStep \/ Requested("app.js")

(* Timers and callbacks run, and the service answers; requests do not fail *)
(* every time.                                                             *)
RequestFairness(v) ==
    SF_viewVars(GetAllOrders(v)) /\ SF_viewVars(\E n \in Versions : ShowOrders(v, n))

SyncFairness == WF_viewVars(AttemptBackendSync) /\ RequestFairness("page.tsx")

StreamFairness ==
    /\ WF_viewVars(BroadcastLiveEvent)
    /\ WF_viewVars(HandleLiveEvent)
    /\ RequestFairness("app.js")

-----------------------------------------------------------------------------
(* When orders stop changing, page.tsx comes to show their last state and  *)
(* keeps it, although requests fail and old answers overtake young ones.   *)
SyncCatchesUp == <>[](listed["page.tsx"] = projected)

(* app.js does unless, since it last asked, an event came while it was not *)
(* connected, a request of its failed, or an old answer came last: its     *)
(* "polling fallback" (app.js:21) repairs none of these.                   *)
StreamCatchesUp == <>[](listed["app.js"] = projected \/ missed)
=============================================================================
