---------------------------- MODULE IngressProofs ----------------------------
(* At most one order per Idempotency-Key, for any requests and keys.       *)
EXTENDS IngressIdempotency, TLAPS

(* At most one open transaction holds a key's index entry, and none while  *)
(* an order has it; a committed request's order is the recorded one.       *)
IngressInv ==
    /\ IngressTypeOK
    /\ \A p, q \in Requests :
          pc[p] = "inserted" /\ pc[q] = "inserted" /\ Key[p] = Key[q] => p = q
    /\ \A q \in Requests : pc[q] = "inserted" => ~Taken(q)
    /\ \A q \in Requests : pc[q] = "committed" => recorded[Key[q]] = q
    /\ OneOrderPerKey
    /\ OneAnswerPerKey

LEMMA KeyFacts ==
    /\ NoOrder \notin Requests /\ "none" \notin Requests
    /\ "conflict" \notin Requests /\ "error" \notin Requests
    /\ \A q \in Requests : Key[q] \in Keys
BY IngressAssumption DEF Keys

LEMMA IngressInvInit == Init => IngressInv
BY KeyFacts
   DEF Init, IngressInv, IngressTypeOK, OneOrderPerKey, OneAnswerPerKey, Taken, Keys

(* Steps that end a request with the recorded order or with an error.      *)
LEMMA AnswerKeepsInv ==
    ASSUME NEW q \in Requests, NEW from, NEW a, IngressInv, Answer(q, from, a),
           \/ a \in {"none", "conflict", "error"}
           \/ Known(q) /\ a = recorded[Key[q]]
    PROVE  IngressInv'
<1>1. /\ pc' = [pc EXCEPT ![q] = "done"]
      /\ answer' = [answer EXCEPT ![q] = a]
      /\ UNCHANGED <<orders, recorded>>
    BY DEF Answer, Goto
<1>2. \/ a \in {"none", "conflict", "error"}
      \/ a \in Requests /\ a = recorded[Key[q]]
    BY KeyFacts DEF Known, IngressInv, IngressTypeOK
<1>3. IngressTypeOK'
    BY <1>1, <1>2 DEF IngressInv, IngressTypeOK
<1>4. \A p \in Requests :
        /\ pc'[p] = "inserted" => pc[p] = "inserted"
        /\ pc'[p] = "committed" => pc[p] = "committed"
    BY <1>1 DEF IngressInv, IngressTypeOK
<1>5. OneAnswerPerKey'
    BY <1>1, <1>2, KeyFacts DEF IngressInv, IngressTypeOK, OneAnswerPerKey
<1>6. OneOrderPerKey'
    BY <1>1 DEF IngressInv, OneOrderPerKey
<1> QED
    BY <1>1, <1>3, <1>4, <1>5, <1>6 DEF IngressInv, Taken

(* Steps before the insert. *)
LEMMA GotoKeepsInv ==
    ASSUME NEW q \in Requests, NEW from, NEW to \in {"next", "notFound"}, IngressInv,
           Goto(q, from, to), UNCHANGED <<orders, recorded, answer>>
    PROVE  IngressInv'
<1>1. pc' = [pc EXCEPT ![q] = to]
    BY DEF Goto
<1>2. IngressTypeOK'
    BY <1>1 DEF IngressInv, IngressTypeOK
<1>3. \A p \in Requests :
        /\ pc'[p] = "inserted" => pc[p] = "inserted"
        /\ pc'[p] = "committed" => pc[p] = "committed"
    BY <1>1 DEF IngressInv, IngressTypeOK
<1> QED
    BY <1>2, <1>3 DEF IngressInv, Taken, OneOrderPerKey, OneAnswerPerKey

(* The index lets one transaction of a key in at a time. *)
LEMMA InsertKeepsInv ==
    ASSUME NEW q \in Requests, IngressInv, InsertOrder(q)
    PROVE  IngressInv'
<1>1. /\ pc' = [pc EXCEPT ![q] = "inserted"]
      /\ UNCHANGED <<orders, recorded, answer>>
      /\ ~Taken(q) /\ ~MustWait(q)
    BY DEF InsertOrder, Goto
<1>2. IngressTypeOK'
    BY <1>1 DEF IngressInv, IngressTypeOK
<1>3. \A p \in Requests :
        /\ pc'[p] = "inserted" => p = q \/ pc[p] = "inserted"
        /\ pc'[p] = "committed" => pc[p] = "committed"
    BY <1>1 DEF IngressInv, IngressTypeOK
<1>4. \A p \in Requests : pc[p] = "inserted" => Key[p] # Key[q]
    BY <1>1 DEF MustWait
<1>5. /\ \A p, r \in Requests :
            pc'[p] = "inserted" /\ pc'[r] = "inserted" /\ Key[p] = Key[r] => p = r
      /\ \A p \in Requests : pc'[p] = "inserted" => ~Taken(p)
    BY <1>1, <1>3, <1>4 DEF IngressInv
<1> QED
    BY <1>1, <1>2, <1>3, <1>5 DEF IngressInv, Taken, OneOrderPerKey, OneAnswerPerKey

(* A commit: the order is the first and only one of its key.               *)
LEMMA CommitKeepsInv ==
    ASSUME NEW q \in Requests, NEW to \in {"committed", "done"}, IngressInv,
           Goto(q, "inserted", to), Commit(q),
           answer' = answer \/ answer' = [answer EXCEPT ![q] = "error"]
    PROVE  IngressInv'
<1>1. /\ pc[q] = "inserted" /\ pc' = [pc EXCEPT ![q] = to]
      /\ orders' = orders \cup {q}
      /\ recorded' = [recorded EXCEPT ![Key[q]] = q]
    BY DEF Goto, Commit
<1>2. Key[q] \in Keys /\ ~Taken(q) /\ recorded[Key[q]] = NoOrder
    BY <1>1, KeyFacts DEF IngressInv, OneOrderPerKey, Taken
<1>3. IngressTypeOK'
    BY <1>1, KeyFacts DEF IngressInv, IngressTypeOK
<1>4. \A p \in Requests : pc'[p] = "inserted" => pc[p] = "inserted" /\ p # q
    BY <1>1 DEF IngressInv, IngressTypeOK
<1>5. \A p, r \in Requests :
        pc'[p] = "inserted" /\ pc'[r] = "inserted" /\ Key[p] = Key[r] => p = r
    BY <1>4 DEF IngressInv
<1>6. \A p \in Requests : pc'[p] = "inserted" => ~Taken(p)'
    BY <1>1, <1>4 DEF IngressInv, Taken
<1>7. \A p \in Requests : pc'[p] = "committed" => recorded'[Key[p]] = p
    <2> SUFFICES ASSUME NEW p \in Requests, pc'[p] = "committed"
                 PROVE  recorded'[Key[p]] = p
        OBVIOUS
    <2>1. CASE p = q
        BY <1>1, <1>2, <2>1 DEF IngressInv, IngressTypeOK
    <2>2. CASE p # q
        <3>1. pc[p] = "committed" /\ recorded[Key[p]] = p
            BY <1>1, <2>2 DEF IngressInv, IngressTypeOK
        <3>2. Key[p] # Key[q]
            BY <3>1, <1>2, KeyFacts
        <3> QED
            BY <3>1, <3>2, <1>1, KeyFacts DEF IngressInv, IngressTypeOK
    <2> QED
        BY <2>1, <2>2
<1>8. \A p, r \in orders' : Key[p] = Key[r] => p = r
    BY <1>1, <1>2 DEF IngressInv, OneOrderPerKey, Taken
<1>9. \A k \in Keys :
        /\ recorded'[k] # NoOrder <=> \E r \in orders' : Key[r] = k
        /\ recorded'[k] # NoOrder => recorded'[k] \in orders' /\ Key[recorded'[k]] = k
    BY <1>1, <1>2, KeyFacts DEF IngressInv, IngressTypeOK, OneOrderPerKey
<1>10. OneOrderPerKey'
    BY <1>8, <1>9 DEF OneOrderPerKey
<1>11. OneAnswerPerKey'
    <2> SUFFICES ASSUME NEW p \in Requests, answer'[p] \in Requests
                 PROVE  answer'[p] = recorded'[Key[p]]
        BY DEF OneAnswerPerKey
    <2>1. answer[p] \in Requests /\ answer'[p] = answer[p]
        BY KeyFacts DEF IngressInv, IngressTypeOK
    <2>2. recorded[Key[p]] \in Requests /\ recorded[Key[p]] = answer[p]
        BY <2>1 DEF IngressInv, OneAnswerPerKey
    <2>3. Key[p] # Key[q]
        BY <2>2, <1>2, KeyFacts
    <2> QED
        BY <2>1, <2>2, <2>3, <1>1, KeyFacts DEF IngressInv, IngressTypeOK
<1> QED
    BY <1>3, <1>5, <1>6, <1>7, <1>10, <1>11 DEF IngressInv

LEMMA IngressInvStep == IngressInv /\ [Next]_ingressVars => IngressInv'
<1> SUFFICES ASSUME IngressInv, [Next]_ingressVars PROVE IngressInv'
    OBVIOUS
<1>1. CASE UNCHANGED ingressVars
    BY <1>1 DEF ingressVars, IngressInv, IngressTypeOK, Taken, OneOrderPerKey, OneAnswerPerKey
<1>2. CASE Next
    <2>1. PICK q \in Requests :
            Proceed(q) \/ CommitUnacknowledged(q) \/ TransactionFails(q) \/ ConnectionLost(q)
        BY <1>2 DEF Next
    <2>2. CASE MiddlewareReplays(q) \/ CreateOrderReplays(q)
        BY <2>2, AnswerKeepsInv DEF MiddlewareReplays, CreateOrderReplays
    <2>3. CASE MiddlewarePasses(q) \/ FindNothing(q)
        BY <2>3, GotoKeepsInv DEF MiddlewarePasses, FindNothing
    <2>4. CASE InsertOrder(q)
        BY <2>4, InsertKeepsInv
    <2>5. CASE InsertConflicts(q) \/ TransactionFails(q) \/ ConnectionLost(q)
        BY <2>5, AnswerKeepsInv DEF InsertConflicts, TransactionFails, ConnectionLost
    <2>6. CASE CommitTransaction(q)
        BY <2>6, CommitKeepsInv DEF CommitTransaction
    <2>7. CASE CommitUnacknowledged(q)
        BY <2>7, CommitKeepsInv DEF CommitUnacknowledged
    <2>8. CASE Respond(q)
        <3>1. recorded[Key[q]] = q /\ Known(q)
            BY <2>8, KeyFacts DEF Respond, Answer, Goto, IngressInv, Known
        <3> QED
            BY <2>8, <3>1, AnswerKeepsInv DEF Respond
    <2> QED
        BY <2>1, <2>2, <2>3, <2>4, <2>5, <2>6, <2>7, <2>8 DEF Proceed
<1> QED
    BY <1>1, <1>2

(* A key buys at most one order, for any number of concurrent requests     *)
(* and keys.                                                               *)
THEOREM OneOrder == Spec => []OneOrderPerKey
<1>1. Spec => []IngressInv
    BY IngressInvInit, IngressInvStep, PTL DEF Spec
<1>2. IngressInv => OneOrderPerKey
    BY DEF IngressInv
<1> QED
    BY <1>1, <1>2, PTL

(* Every answer that names an order names the key's one.                   *)
THEOREM OneAnswer == Spec => []OneAnswerPerKey
<1>1. Spec => []IngressInv
    BY IngressInvInit, IngressInvStep, PTL DEF Spec
<1>2. IngressInv => OneAnswerPerKey
    BY DEF IngressInv
<1> QED
    BY <1>1, <1>2, PTL

(* A retry that will find the record when it looks, or has found it.       *)
Replaying(q) ==
    Known(q) /\ pc[q] \in {"sent", "next", "done"} /\ answer[q] # "conflict"

(* Who has not looked in its transaction yet has not been answered.        *)
Unanswered == \A q \in Requests : pc[q] \in {"sent", "next"} => answer[q] = "none"

(* What each step does to the request that takes it, and to the record.    *)
LEMMA RequestSteps ==
    ASSUME IngressInv, NEW p \in Requests,
           Proceed(p) \/ CommitUnacknowledged(p) \/ TransactionFails(p) \/ ConnectionLost(p)
    PROVE  /\ \A q \in Requests \ {p} : pc'[q] = pc[q] /\ answer'[q] = answer[q]
           /\ \A q \in Requests : Known(q) => Known(q)'
           /\ pc'[p] \in {"sent", "next"} => pc[p] = "sent" /\ answer'[p] = answer[p]
           /\ Replaying(p) => Replaying(p)'
<1> USE KeyFacts DEF IngressInv, IngressTypeOK
<1>1. CASE MiddlewareReplays(p) \/ CreateOrderReplays(p)
    BY <1>1 DEF MiddlewareReplays, CreateOrderReplays, Answer, Goto, Known, Replaying
<1>2. CASE MiddlewarePasses(p) \/ FindNothing(p) \/ InsertOrder(p)
    BY <1>2 DEF MiddlewarePasses, FindNothing, InsertOrder, Goto, Known, Replaying
<1>3. CASE InsertConflicts(p) \/ Respond(p)
    BY <1>3 DEF InsertConflicts, Respond, Answer, Goto, Known, Replaying
<1>4. CASE CommitTransaction(p) \/ CommitUnacknowledged(p)
    BY <1>4 DEF CommitTransaction, CommitUnacknowledged, Commit, Goto, Known, Replaying
<1>5. CASE TransactionFails(p) \/ ConnectionLost(p)
    BY <1>5 DEF TransactionFails, ConnectionLost, Answer, Goto, Known, Replaying
<1> QED
    BY <1>1, <1>2, <1>3, <1>4, <1>5 DEF Proceed

LEMMA ReplayingStep ==
    ASSUME IngressInv, Unanswered, [Next]_ingressVars
    PROVE  Unanswered' /\ \A q \in Requests : Replaying(q) => Replaying(q)'
<1>1. CASE UNCHANGED ingressVars
    BY <1>1 DEF ingressVars, Unanswered, Replaying, Known
<1>2. ASSUME NEW p \in Requests,
             Proceed(p) \/ CommitUnacknowledged(p) \/ TransactionFails(p) \/ ConnectionLost(p)
      PROVE  Unanswered' /\ \A q \in Requests : Replaying(q) => Replaying(q)'
    <2>1. /\ \A q \in Requests \ {p} : pc'[q] = pc[q] /\ answer'[q] = answer[q]
          /\ \A q \in Requests : Known(q) => Known(q)'
          /\ pc'[p] \in {"sent", "next"} => pc[p] = "sent" /\ answer'[p] = answer[p]
          /\ Replaying(p) => Replaying(p)'
        BY <1>2, RequestSteps
    <2>2. Unanswered'
        BY <2>1 DEF Unanswered
    <2>3. \A q \in Requests : Replaying(q) => Replaying(q)'
        BY <2>1 DEF Replaying
    <2> QED
        BY <2>2, <2>3
<1> QED
    BY <1>1, <1>2 DEF Next

(* A client that repeats a checkout after its order was committed gets the *)
(* recorded answer, for any number of requests and keys: no retry that     *)
(* starts that late reaches the unique index (order.service.ts:24-33).     *)
THEOREM LateRetries == Spec => LateRetryIsReplayed
<1>1. Spec => [](IngressInv /\ Unanswered)
    <2>1. Init => Unanswered
        BY DEF Init, Unanswered
    <2> QED
        BY <2>1, IngressInvInit, IngressInvStep, ReplayingStep, PTL DEF Spec
<1>2. ASSUME NEW q \in Requests
      PROVE  Spec => [](pc[q] \in {"sent", "next"} /\ Known(q) => [](answer[q] # "conflict"))
    <2>1. IngressInv /\ Unanswered /\ [Next]_ingressVars => (Replaying(q) => Replaying(q)')
        BY ReplayingStep
    <2>2. Unanswered /\ pc[q] \in {"sent", "next"} /\ Known(q) => Replaying(q)
        BY DEF Unanswered, Replaying
    <2>3. Replaying(q) => answer[q] # "conflict"
        BY DEF Replaying
    <2> QED
        BY <1>1, <2>1, <2>2, <2>3, PTL DEF Spec
<1> QED
    BY <1>2 DEF LateRetryIsReplayed
=============================================================================
