---------------------------- MODULE ServiceProofs ----------------------------
(***************************************************************************)
(* Facts the proofs about the inventory and the payment service share, for *)
(* every catalogue, set of orders, quantity and account: what the sums in  *)
(* their definitions are, and what the atomic handlers keep.               *)
(***************************************************************************)
EXTENDS InventoryService, PaymentService, FiniteSetTheorems, TLAPS

-----------------------------------------------------------------------------
(* Sums over a finite set. *)

(* The element a fold takes out of a set first. *)
Pick(s) == CHOOSE x \in s : TRUE

(* g[s] is the sum of f over s, for every subset s of S. *)
IsSum(f, g, S) ==
    g = [s \in SUBSET S |-> IF s = {} THEN 0 ELSE f[Pick(s)] + g[s \ {Pick(s)}]]

LEMMA PickIn == ASSUME NEW s, s # {} PROVE Pick(s) \in s
BY DEF Pick

(* What stands for induction below: among sets that break a rule, one breaks *)
(* it whose proper subsets keep it.                                        *)
LEMMA MinimalSubset ==
    ASSUME NEW S, IsFiniteSet(S), NEW T \in SUBSET SUBSET S, T # {}
    PROVE  \E s \in T : \A u \in T : ~ (u \subseteq s /\ u # s)
<1>1. IsWellFoundedOn(StrictSubsetOrdering(S), FiniteSubsetsOf(S))
    BY FS_StrictSubsetOrderingWellFounded
<1>2. T \subseteq FiniteSubsetsOf(S)
    BY FS_Subset DEF FiniteSubsetsOf
<1>3. PICK s \in T : \A u \in T : <<u, s>> \notin StrictSubsetOrdering(S)
    BY <1>1, <1>2, WFMin
<1> QED
    BY <1>3 DEF StrictSubsetOrdering

LEMMA SumUnique ==
    ASSUME NEW f, NEW A, NEW B, IsFiniteSet(A), NEW g, NEW h,
           IsSum(f, g, A), IsSum(f, h, B), NEW s \in SUBSET (A \cap B)
    PROVE  g[s] = h[s]
<1> DEFINE T == {u \in SUBSET (A \cap B) : g[u] # h[u]}
<1>1. SUFFICES ASSUME T # {} PROVE FALSE
    OBVIOUS
<1>2. PICK u \in T : \A v \in T : ~ (v \subseteq u /\ v # u)
    <2>1. T \in SUBSET SUBSET A
        OBVIOUS
    <2> HIDE DEF T
    <2> QED
        BY <1>1, <2>1, MinimalSubset
<1>3. u \in SUBSET A /\ u \in SUBSET B /\ g[u] # h[u]
    OBVIOUS
<1>4. g[u] = IF u = {} THEN 0 ELSE f[Pick(u)] + g[u \ {Pick(u)}]
    BY <1>3 DEF IsSum
<1>5. h[u] = IF u = {} THEN 0 ELSE f[Pick(u)] + h[u \ {Pick(u)}]
    BY <1>3 DEF IsSum
<1>6. u # {}
    BY <1>3, <1>4, <1>5
<1>7. g[u \ {Pick(u)}] = h[u \ {Pick(u)}]
    BY <1>2, <1>6, PickIn
<1> QED
    BY <1>3, <1>4, <1>5, <1>7

LEMMA SumExists ==
    ASSUME NEW f, NEW S, IsFiniteSet(S)
    PROVE  \E g : IsSum(f, g, S)
<1> DEFINE T == {s \in SUBSET S : ~ \E g : IsSum(f, g, s)}
<1>1. SUFFICES ASSUME T # {} PROVE FALSE
    OBVIOUS
<1>2. PICK s \in T : \A u \in T : ~ (u \subseteq s /\ u # s)
    <2>1. T \in SUBSET SUBSET S
        OBVIOUS
    <2> HIDE DEF T
    <2> QED
        BY <1>1, <2>1, MinimalSubset
<1> DEFINE G(u) == CHOOSE g : IsSum(f, g, u)
           Rest(u) == u \ {Pick(u)}
           h == [u \in SUBSET s |-> IF u = {} THEN 0 ELSE f[Pick(u)] + G(Rest(u))[Rest(u)]]
<1>3. ASSUME NEW u \in SUBSET s, u # s PROVE IsSum(f, G(u), u) /\ IsFiniteSet(u)
    <2>1. \E g : IsSum(f, g, u)
        BY <1>2, <1>3
    <2>2. IsFiniteSet(u)
        BY FS_Subset
    <2> QED
        BY <2>1, <2>2
<1>4. ASSUME NEW u \in SUBSET s, u # {}
      PROVE  Rest(u) \in SUBSET s /\ Rest(u) # s /\ Rest(u) \subseteq u
    BY <1>4, PickIn
<1>5. ASSUME NEW v \in SUBSET s, v # s PROVE h[v] = G(v)[v]
    <2>1. IsSum(f, G(v), v)
        BY <1>3, <1>5
    <2> HIDE DEF G
    <2>2. G(v)[v] = IF v = {} THEN 0 ELSE f[Pick(v)] + G(v)[Rest(v)]
        BY <2>1 DEF IsSum
    <2>3. CASE v = {}
        BY <2>2, <2>3
    <2>4. CASE v # {}
        <3>1. /\ Rest(v) \in SUBSET s /\ Rest(v) # s /\ Rest(v) \subseteq v
            BY <1>4, <2>4
        <3>2. IsSum(f, G(Rest(v)), Rest(v)) /\ IsFiniteSet(Rest(v))
            BY <1>3, <3>1
        <3>3. G(Rest(v))[Rest(v)] = G(v)[Rest(v)]
            BY <2>1, <3>1, <3>2, SumUnique
        <3> QED
            BY <2>2, <2>4, <3>3
    <2> QED
        BY <2>3, <2>4
<1>6. IsSum(f, h, s)
    <2> HIDE DEF G
    <2> SUFFICES ASSUME NEW u \in SUBSET s, u # {} PROVE G(Rest(u))[Rest(u)] = h[Rest(u)]
        BY DEF IsSum
    <2> QED
        BY <1>4, <1>5
<1> QED
    BY <1>2, <1>6

(* SumFunctionOnSet is defined by CHOOSE; this is what is chosen.          *)
LEMMA SumIs ==
    ASSUME NEW f, NEW S, IsFiniteSet(S)
    PROVE  \E g : IsSum(f, g, S) /\ SumFunctionOnSet(f, S) = g[S]
<1>1. PICK g : IsSum(f, g, S)
    BY SumExists
<1>2. \E h : IsSum(f, h, S) /\ SumFunctionOnSet(f, S) = h[S]
    <2> DEFINE h == CHOOSE k : IsSum(f, k, S)
    <2>1. IsSum(f, h, S)
        BY <1>1
    <2>2. SumFunctionOnSet(f, S) = h[S]
        BY DEF SumFunctionOnSet, FoldFunctionOnSet, MapThenFoldSet, IsSum, Pick
    <2> QED
        BY <2>1, <2>2
<1> QED
    BY <1>2

(* What the definition of a sum says: choose an element, add the rest. *)
LEMMA SumRule ==
    ASSUME NEW f, NEW S, IsFiniteSet(S)
    PROVE  SumFunctionOnSet(f, S) = IF S = {} THEN 0 ELSE f[Pick(S)] + SumFunctionOnSet(f, S \ {Pick(S)})
<1>1. PICK g : IsSum(f, g, S) /\ SumFunctionOnSet(f, S) = g[S]
    BY SumIs
<1>2. g[S] = IF S = {} THEN 0 ELSE f[Pick(S)] + g[S \ {Pick(S)}]
    BY <1>1 DEF IsSum
<1> DEFINE R == S \ {Pick(S)}
<1>3. IsFiniteSet(R)
    BY FS_RemoveElement
<1>4. PICK h : IsSum(f, h, R) /\ SumFunctionOnSet(f, R) = h[R]
    BY <1>3, SumIs
<1>5. h[R] = g[R]
    <2>1. R \in SUBSET (R \cap S)
        OBVIOUS
    <2> HIDE DEF R
    <2> QED
        BY <1>1, <1>3, <1>4, <2>1, SumUnique
<1> QED
    BY <1>1, <1>2, <1>4, <1>5

(* Sums of naturals are naturals, sums of integers integers. *)
LEMMA SumType ==
    ASSUME NEW S, IsFiniteSet(S), NEW V, V = Nat \/ V = Int, NEW f,
           \A x \in S : f[x] \in V
    PROVE  SumFunctionOnSet(f, S) \in V
<1> DEFINE T == {s \in SUBSET S : SumFunctionOnSet(f, s) \notin V}
<1>1. SUFFICES ASSUME T # {} PROVE FALSE
    OBVIOUS
<1>2. PICK s \in T : \A u \in T : ~ (u \subseteq s /\ u # s)
    <2>1. T \in SUBSET SUBSET S
        OBVIOUS
    <2> HIDE DEF T
    <2> QED
        BY <1>1, <2>1, MinimalSubset
<1>3. IsFiniteSet(s)
    BY FS_Subset
<1>4. SumFunctionOnSet(f, s) = IF s = {} THEN 0 ELSE f[Pick(s)] + SumFunctionOnSet(f, s \ {Pick(s)})
    BY <1>3, SumRule
<1>5. CASE s = {}
    BY <1>4, <1>5
<1>6. CASE s # {}
    <2>1. Pick(s) \in s
        BY <1>6, PickIn
    <2>2. SumFunctionOnSet(f, s \ {Pick(s)}) \in V
        BY <1>2, <2>1
    <2>3. f[Pick(s)] \in V
        BY <2>1
    <2> QED
        BY <1>4, <1>6, <2>2, <2>3
<1> QED
    BY <1>5, <1>6

LEMMA SumInt ==
    ASSUME NEW S, IsFiniteSet(S), NEW f, \A x \in S : f[x] \in Int
    PROVE  SumFunctionOnSet(f, S) \in Int
BY SumType

(* Any element may be taken out first. *)
LEMMA SumRemove ==
    ASSUME NEW S, IsFiniteSet(S), NEW f, \A x \in S : f[x] \in Int, NEW a \in S
    PROVE  SumFunctionOnSet(f, S) = f[a] + SumFunctionOnSet(f, S \ {a})
<1> DEFINE T == {s \in SUBSET S : \E x \in s : SumFunctionOnSet(f, s) # f[x] + SumFunctionOnSet(f, s \ {x})}
<1>1. SUFFICES ASSUME T # {} PROVE FALSE
    OBVIOUS
<1>2. PICK s \in T : \A u \in T : ~ (u \subseteq s /\ u # s)
    <2>1. T \in SUBSET SUBSET S
        OBVIOUS
    <2> HIDE DEF T
    <2> QED
        BY <1>1, <2>1, MinimalSubset
<1>3. PICK x \in s : SumFunctionOnSet(f, s) # f[x] + SumFunctionOnSet(f, s \ {x})
    BY <1>2
<1> DEFINE c == Pick(s)
<1>4. c \in s /\ IsFiniteSet(s) /\ s \in SUBSET S
    BY <1>3, PickIn, FS_Subset
<1>5. SumFunctionOnSet(f, s) = f[c] + SumFunctionOnSet(f, s \ {c})
    BY <1>4, SumRule
<1>6. c # x
    BY <1>3, <1>5
<1> HIDE DEF c
<1>7. SumFunctionOnSet(f, s \ {c}) = f[x] + SumFunctionOnSet(f, (s \ {c}) \ {x})
    <2>1. s \ {c} \notin T
        BY <1>2, <1>4
    <2>2. s \ {c} \in SUBSET S /\ x \in s \ {c}
        BY <1>3, <1>4, <1>6
    <2> QED
        BY <2>1, <2>2
<1>8. SumFunctionOnSet(f, s \ {x}) = f[c] + SumFunctionOnSet(f, (s \ {x}) \ {c})
    <2>1. s \ {x} \notin T
        BY <1>2, <1>3
    <2>2. s \ {x} \in SUBSET S /\ c \in s \ {x}
        BY <1>3, <1>4, <1>6
    <2> QED
        BY <2>1, <2>2
<1> DEFINE R == (s \ {c}) \ {x}
<1>9. (s \ {x}) \ {c} = R
    OBVIOUS
<1>10. SumFunctionOnSet(f, R) \in Int
    <2>1. R \in SUBSET S
        BY <1>4
    <2> QED
        BY <2>1, FS_Subset, SumType
<1>11. f[c] \in Int /\ f[x] \in Int
    BY <1>3, <1>4
<1> HIDE DEF R
<1>12. SumFunctionOnSet(f, s) = f[c] + (f[x] + SumFunctionOnSet(f, R))
    BY <1>5, <1>7 DEF R
<1>13. f[x] + SumFunctionOnSet(f, s \ {x}) = f[x] + (f[c] + SumFunctionOnSet(f, R))
    BY <1>8, <1>9
<1> QED
    BY <1>3, <1>10, <1>11, <1>12, <1>13

(* A sum depends on the values at its elements only. *)
LEMMA SumSame ==
    ASSUME NEW S, IsFiniteSet(S), NEW f, NEW g, \A x \in S : f[x] = g[x]
    PROVE  SumFunctionOnSet(f, S) = SumFunctionOnSet(g, S)
<1> DEFINE T == {s \in SUBSET S : SumFunctionOnSet(f, s) # SumFunctionOnSet(g, s)}
<1>1. SUFFICES ASSUME T # {} PROVE FALSE
    OBVIOUS
<1>2. PICK s \in T : \A u \in T : ~ (u \subseteq s /\ u # s)
    <2>1. T \in SUBSET SUBSET S
        OBVIOUS
    <2> HIDE DEF T
    <2> QED
        BY <1>1, <2>1, MinimalSubset
<1>3. IsFiniteSet(s)
    BY FS_Subset
<1>4. /\ SumFunctionOnSet(f, s) = IF s = {} THEN 0 ELSE f[Pick(s)] + SumFunctionOnSet(f, s \ {Pick(s)})
      /\ SumFunctionOnSet(g, s) = IF s = {} THEN 0 ELSE g[Pick(s)] + SumFunctionOnSet(g, s \ {Pick(s)})
    BY <1>3, SumRule
<1>5. s # {}
    BY <1>2, <1>4
<1>6. Pick(s) \in s
    BY <1>5, PickIn
<1>7. SumFunctionOnSet(f, s \ {Pick(s)}) = SumFunctionOnSet(g, s \ {Pick(s)})
    BY <1>2, <1>6
<1>8. f[Pick(s)] = g[Pick(s)]
    BY <1>6
<1> QED
    BY <1>2, <1>4, <1>7, <1>8

(* A sum of zeros is zero. *)
LEMMA SumZero ==
    ASSUME NEW S, IsFiniteSet(S), NEW f, \A x \in S : f[x] = 0
    PROVE  SumFunctionOnSet(f, S) = 0
<1> DEFINE T == {s \in SUBSET S : SumFunctionOnSet(f, s) # 0}
<1>1. SUFFICES ASSUME T # {} PROVE FALSE
    OBVIOUS
<1>2. PICK s \in T : \A u \in T : ~ (u \subseteq s /\ u # s)
    <2>1. T \in SUBSET SUBSET S
        OBVIOUS
    <2> HIDE DEF T
    <2> QED
        BY <1>1, <2>1, MinimalSubset
<1>3. SumFunctionOnSet(f, s) = IF s = {} THEN 0 ELSE f[Pick(s)] + SumFunctionOnSet(f, s \ {Pick(s)})
    BY FS_Subset, SumRule
<1>4. s # {} /\ Pick(s) \in s
    BY <1>2, <1>3, PickIn
<1>5. SumFunctionOnSet(f, s \ {Pick(s)}) = 0 /\ f[Pick(s)] = 0
    BY <1>2, <1>4
<1> QED
    BY <1>2, <1>3, <1>5

(* One value changes. *)
LEMMA SumChange ==
    ASSUME NEW S, IsFiniteSet(S), NEW a \in S, NEW f, NEW g,
           \A x \in S : f[x] \in Int, g[a] \in Int,
           \A x \in S \ {a} : g[x] = f[x]
    PROVE  SumFunctionOnSet(g, S) = SumFunctionOnSet(f, S) + (g[a] - f[a])
<1>1. SumFunctionOnSet(f, S) = f[a] + SumFunctionOnSet(f, S \ {a})
    BY SumRemove
<1>2. \A x \in S : g[x] \in Int
    OBVIOUS
<1>3. SumFunctionOnSet(g, S) = g[a] + SumFunctionOnSet(g, S \ {a})
    BY <1>2, SumRemove
<1>4. IsFiniteSet(S \ {a})
    BY FS_RemoveElement
<1>5. SumFunctionOnSet(g, S \ {a}) = SumFunctionOnSet(f, S \ {a})
    BY <1>4, SumSame
<1>6. SumFunctionOnSet(f, S \ {a}) \in Int
    BY <1>4, SumType
<1> QED
    BY <1>1, <1>3, <1>5, <1>6

-----------------------------------------------------------------------------
(* What an order asks of a product. *)

LinesFor(o, p) == {i \in DOMAIN Items[o] : Items[o][i].product = p}
Quantities(o) == [i \in DOMAIN Items[o] |-> Items[o][i].quantity]

LEMMA DemandFacts ==
  ASSUME NEW o \in Orders, NEW p
  PROVE  /\ Demand(o, p) = SumFunctionOnSet(Quantities(o), LinesFor(o, p))
         /\ IsFiniteSet(LinesFor(o, p))
         /\ \A i \in LinesFor(o, p) :
               Quantities(o)[i] \in Nat \ {0} /\ Quantities(o)[i] = Items[o][i].quantity
  <1>1. LinesFor(o, p) \in SUBSET DOMAIN Items[o]
    BY DEF LinesFor
  <1>2. IsFiniteSet(LinesFor(o, p))
    BY <1>1, ItemsAssumption, FS_Subset
  <1>3. Demand(o, p) = SumFunctionOnSet(Quantities(o), LinesFor(o, p))
    BY DEF Demand, Quantities, LinesFor
  <1> QED
    BY <1>1, <1>2, <1>3, ItemsAssumption DEF Quantities

LEMMA DemandType ==
  \A o \in Orders, p \in Products : Demand(o, p) \in Nat
  <1> SUFFICES ASSUME NEW o \in Orders, NEW p \in Products PROVE Demand(o, p) \in Nat
    OBVIOUS
  <1> DEFINE f == Quantities(o)
             S == LinesFor(o, p)
  <1>1. Demand(o, p) = SumFunctionOnSet(f, S) /\ IsFiniteSet(S) /\ \A i \in S : f[i] \in Nat
    BY DemandFacts
  <1> HIDE DEF f, S
  <1>2. \A V : V = Nat => SumFunctionOnSet(f, S) \in V
    BY <1>1, SumType
  <1> QED
    BY <1>1, <1>2

(* Nothing of a product that no line names. *)
LEMMA DemandUnnamed ==
  ASSUME NEW o \in Orders, NEW p, \A i \in DOMAIN Items[o] : Items[o][i].product # p
  PROVE  Demand(o, p) = 0
  <1>1. LinesFor(o, p) = {}
    BY DEF LinesFor
  <1> QED
    BY <1>1, DemandFacts, SumRule

(* All of it on one line, if no two lines name the same product.           *)
LEMMA DemandOneLine ==
  ASSUME OneLinePerProduct, NEW o \in Orders, NEW p, Demand(o, p) # 0
  PROVE  \E i \in DOMAIN Items[o] :
            Items[o][i].product = p /\ Items[o][i].quantity = Demand(o, p)
  <1>1. PICK i \in DOMAIN Items[o] : Items[o][i].product = p
    BY DemandUnnamed
  <1>2. LinesFor(o, p) = {i}
    BY <1>1 DEF LinesFor, OneLinePerProduct
  <1> DEFINE R == {i} \ {i}
  <1>3. Demand(o, p) = Quantities(o)[i] + SumFunctionOnSet(Quantities(o), R)
    <2>1. i \in LinesFor(o, p)
      BY <1>2
    <2>2. \A x \in LinesFor(o, p) : Quantities(o)[x] \in Int
      BY DemandFacts
    <2> QED
      BY <1>2, <2>1, <2>2, DemandFacts, SumRemove
  <1>4. SumFunctionOnSet(Quantities(o), R) = 0
    <2>1. R = {}
      OBVIOUS
    <2> HIDE DEF R
    <2> QED
      BY <2>1, FS_EmptySet, SumRule
  <1>5. Quantities(o)[i] \in Nat /\ Quantities(o)[i] = Items[o][i].quantity
    BY <1>2, DemandFacts
  <1> HIDE DEF R
  <1> QED
    BY <1>1, <1>3, <1>4, <1>5

-----------------------------------------------------------------------------
(* The inventory's handlers. *)

(* A released quantity never makes the counter grow. *)
LEMMA MinusBound ==
  ASSUME NEW stock \in Nat, NEW quantity \in Nat
  PROVE  Minus(stock, quantity) \in Nat /\ Minus(stock, quantity) <= stock
  BY DEF Minus

(* If no order names a product twice, checking the lines one by one checks *)
(* the whole order: a reservation fits in the stock.                       *)
LEMMA ReserveFits ==
  ASSUME InventoryTypeOK, OneLinePerProduct, NoOversell,
         NEW o \in Orders, AllAvailable(o), Reserve(o)
  PROVE  NoOversell'
  <1> SUFFICES ASSUME NEW p \in Products PROVE reservedStock'[p] <= TotalStock[p]
    BY DEF NoOversell
  <1>1. /\ reservedStock[p] \in Nat /\ TotalStock[p] \in Nat /\ Demand(o, p) \in Nat
        /\ reservedStock[p] <= TotalStock[p]
    BY TotalStockAssumption, DemandType DEF InventoryTypeOK, NoOversell
  <1>2. reservedStock'[p] = reservedStock[p] + Demand(o, p)
    BY DEF Reserve
  <1>3. CASE Demand(o, p) = 0
    BY <1>1, <1>2, <1>3
  <1>4. CASE Demand(o, p) # 0
    <2>1. PICK i \in DOMAIN Items[o] :
             Items[o][i].product = p /\ Items[o][i].quantity = Demand(o, p)
      BY <1>4, DemandOneLine
    <2>2. TotalStock[p] - reservedStock[p] >= Demand(o, p)
      BY <2>1 DEF AllAvailable, LineAvailable
    <2> QED
      BY <1>1, <1>2, <2>2
  <1> QED
    BY <1>3, <1>4

LEMMA ReturnFits ==
  ASSUME InventoryTypeOK, NoOversell, NEW o \in Orders, ReturnStock(o)
  PROVE  NoOversell'
  <1> SUFFICES ASSUME NEW p \in Products PROVE reservedStock'[p] <= TotalStock[p]
    BY DEF NoOversell
  <1> DEFINE q == reservations[o]["RESERVED"] * Demand(o, p)
  <1>1. reservedStock[p] \in Nat /\ reservedStock[p] <= TotalStock[p] /\ TotalStock[p] \in Nat
    BY TotalStockAssumption DEF InventoryTypeOK, NoOversell
  <1>2. q \in Nat
    BY DemandType DEF InventoryTypeOK
  <1>3. reservedStock'[p] = Minus(reservedStock[p], q)
    BY DEF ReturnStock
  <1> HIDE DEF q
  <1>4. Minus(reservedStock[p], q) \in Nat /\ Minus(reservedStock[p], q) <= reservedStock[p]
    BY <1>1, <1>2, MinusBound
  <1> QED
    BY <1>1, <1>3, <1>4

(* Neither handler promises a product beyond its stock. *)
LEMMA InventoryNoOversell ==
  ASSUME InventoryTypeOK, OneLinePerProduct, NoOversell, NEW o \in Orders, NEW n,
         HandleReserveInventoryCommand(o, n) \/ HandleReleaseInventoryCommand(o, n)
  PROVE  NoOversell'
  <1>1. CASE HandleReserveInventoryCommand(o, n)
    <2>1. CASE AllAvailable(o) /\ Reserve(o)
      BY <2>1, ReserveFits
    <2>2. CASE AbortPreCancelled(o) \/ RejectOutOfStock(o)
      BY <2>2 DEF NoOversell, AbortPreCancelled, RejectOutOfStock
    <2> QED
      BY <1>1, <2>1, <2>2 DEF HandleReserveInventoryCommand
  <1>2. CASE HandleReleaseInventoryCommand(o, n)
    <2>1. CASE ReturnStock(o)
      BY <2>1, ReturnFits
    <2>2. CASE RecordTombstone(o)
      BY <2>2 DEF NoOversell, RecordTombstone
    <2> QED
      BY <1>2, <2>1, <2>2 DEF HandleReleaseInventoryCommand
  <1> QED
    BY <1>1, <1>2

-----------------------------------------------------------------------------
(* The payment handler. *)

(* The balance is checked under the row lock that the debit uses. *)
LEMMA TransferNoOverdraft ==
  ASSUME PaymentTypeOK, NoOverdraft, NEW o \in Orders, CanPay(o), Transfer(o)
  PROVE  NoOverdraft'
  <1> DEFINE debited == [balance EXCEPT ![Customer[o]] = @ - Amount[o]]
  <1>1. Amount[o] \in Nat /\ Revenue \in Accounts
    BY PaymentAssumption
  <1>2. debited \in [Accounts -> Int] /\ \A a \in Accounts : debited[a] >= 0
    BY <1>1 DEF CanPay, PaymentTypeOK, NoOverdraft
  <1>3. balance' = [debited EXCEPT ![Revenue] = @ + Amount[o]]
    BY DEF Transfer
  <1> HIDE DEF debited
  <1> QED
    BY <1>1, <1>2, <1>3 DEF NoOverdraft

LEMMA PaymentNoOverdraft ==
  ASSUME PaymentTypeOK, NoOverdraft, NEW o \in Orders, NEW n,
         HandleInitiatePaymentCommand(o, n)
  PROVE  NoOverdraft'
  <1>1. CASE RecordFailedPayment(o)
    BY <1>1 DEF NoOverdraft, RecordFailedPayment
  <1>2. CASE CanPay(o) /\ Transfer(o)
    BY <1>2, TransferNoOverdraft
  <1> QED
    BY <1>1, <1>2 DEF HandleInitiatePaymentCommand

(* The ledger's sums. *)

SuccessRows == [o \in Orders |-> ledger[o]["SUCCESS"] * Amount[o]]

LEMMA SuccessRowsType ==
  ASSUME PaymentTypeOK
  PROVE  \A o \in Orders : SuccessRows[o] \in Nat
  BY PaymentAssumption DEF SuccessRows, PaymentTypeOK

LEMMA TransferredType ==
  ASSUME PaymentTypeOK, NEW os \in SUBSET Orders
  PROVE  Transferred(os) \in Int
  <1>1. Transferred(os) = SumFunctionOnSet(SuccessRows, os) /\ IsFiniteSet(os)
    BY OrdersAssumption, FS_Subset DEF Transferred, SuccessRows
  <1>2. \A o \in os : SuccessRows[o] \in Int
    BY SuccessRowsType
  <1> QED
    BY <1>1, <1>2, SumType

(* One more successful transaction of an order is one more amount of it.   *)
LEMMA TransferredGrows ==
  ASSUME PaymentTypeOK, NEW o \in Orders,
         ledger' = [ledger EXCEPT ![o]["SUCCESS"] = @ + 1],
         NEW os \in SUBSET Orders
  PROVE  Transferred(os)' = Transferred(os) + (IF o \in os THEN Amount[o] ELSE 0)
  <1>1. /\ Transferred(os) = SumFunctionOnSet(SuccessRows, os)
        /\ Transferred(os)' = SumFunctionOnSet(SuccessRows', os)
        /\ IsFiniteSet(os)
    BY OrdersAssumption, FS_Subset DEF Transferred, SuccessRows
  <1>2. \A q \in Orders \ {o} : SuccessRows'[q] = SuccessRows[q]
    BY DEF SuccessRows, PaymentTypeOK
  <1>3. SuccessRows'[o] = SuccessRows[o] + Amount[o] /\ Amount[o] \in Nat
    <2>1. ledger[o]["SUCCESS"] \in Nat /\ ledger'[o]["SUCCESS"] = ledger[o]["SUCCESS"] + 1
      BY DEF PaymentTypeOK
    <2>2. Amount[o] \in Nat
      BY PaymentAssumption
    <2>3. (ledger[o]["SUCCESS"] + 1) * Amount[o] = ledger[o]["SUCCESS"] * Amount[o] + Amount[o]
      BY <2>1, <2>2
    <2> QED
      BY <2>1, <2>2, <2>3 DEF SuccessRows
  <1>4. \A q \in Orders : SuccessRows[q] \in Int
    BY SuccessRowsType
  <1>5. CASE o \in os
    <2>1. SumFunctionOnSet(SuccessRows', os)
            = SumFunctionOnSet(SuccessRows, os) + (SuccessRows'[o] - SuccessRows[o])
      BY <1>1, <1>2, <1>3, <1>4, <1>5, SumChange
    <2> QED
      BY <1>1, <1>3, <1>4, <1>5, <2>1
  <1>6. CASE o \notin os
    <2>1. SumFunctionOnSet(SuccessRows', os) = SumFunctionOnSet(SuccessRows, os)
      BY <1>1, <1>2, <1>6, SumSame
    <2> QED
      BY <1>1, <1>6, <2>1, TransferredType
  <1> QED
    BY <1>5, <1>6

LEMMA TransferredKept ==
  ASSUME PaymentTypeOK, NEW os \in SUBSET Orders,
         \A o \in Orders : ledger'[o]["SUCCESS"] = ledger[o]["SUCCESS"]
  PROVE  Transferred(os)' = Transferred(os)
  <1>1. SuccessRows' = SuccessRows
    BY DEF SuccessRows
  <1> QED
    BY <1>1 DEF Transferred, SuccessRows

(* A capture moves what the ledger says it moves.                          *)
LEMMA CaptureExplained ==
  ASSUME PaymentTypeOK, LedgerExplainsBalances, NEW o \in Orders,
         Customer[o] \in Accounts, Transfer(o),
         RecordTransaction(o, "SUCCESS", "PaymentCapturedEvent")
  PROVE  LedgerExplainsBalances'
  <1> DEFINE Of(a) == {q \in Orders : Customer[q] = a}
             Payable == {q \in Orders : Customer[q] \in Accounts}
  <1> SUFFICES ASSUME NEW a \in Accounts
               PROVE  balance'[a] = InitialBalance[a] - Transferred(Of(a))'
                                    + (IF a = Revenue THEN Transferred(Payable)' ELSE 0)
    BY DEF LedgerExplainsBalances
  <1>1. /\ Transferred(Of(a))' = Transferred(Of(a)) + (IF o \in Of(a) THEN Amount[o] ELSE 0)
        /\ Transferred(Payable)' = Transferred(Payable) + (IF o \in Payable THEN Amount[o] ELSE 0)
    BY TransferredGrows DEF RecordTransaction
  <1>2. Transferred(Of(a)) \in Int /\ Transferred(Payable) \in Int
    BY TransferredType
  <1>3. balance[a] = InitialBalance[a] - Transferred(Of(a))
                     + (IF a = Revenue THEN Transferred(Payable) ELSE 0)
    BY DEF LedgerExplainsBalances
  <1>4. o \in Payable /\ (o \in Of(a) <=> Customer[o] = a)
    OBVIOUS
  <1>5. balance'[a] = balance[a] - (IF Customer[o] = a THEN Amount[o] ELSE 0)
                      + (IF a = Revenue THEN Amount[o] ELSE 0)
    BY PaymentAssumption DEF Transfer, PaymentTypeOK
  <1>6. Amount[o] \in Int /\ InitialBalance[a] \in Int
    BY PaymentAssumption
  <1> HIDE DEF Of, Payable
  <1> QED
    BY <1>1, <1>2, <1>3, <1>4, <1>5, <1>6

(* A transaction that moves no money changes no sum.                       *)
LEMMA FailureExplained ==
  ASSUME PaymentTypeOK, LedgerExplainsBalances,
         (\E o \in Orders : RecordFailedPayment(o)) \/ UNCHANGED <<balance, ledger>>
  PROVE  LedgerExplainsBalances'
  <1>1. /\ balance' = balance
        /\ \A q \in Orders : ledger'[q]["SUCCESS"] = ledger[q]["SUCCESS"]
    BY DEF RecordFailedPayment, RecordTransaction, PaymentTypeOK
  <1>2. \A os \in SUBSET Orders : Transferred(os)' = Transferred(os)
    BY <1>1, TransferredKept
  <1> QED
    BY <1>1, <1>2 DEF LedgerExplainsBalances

LEMMA InitExplained == PaymentInit => LedgerExplainsBalances
  <1> SUFFICES ASSUME PaymentInit PROVE LedgerExplainsBalances
    OBVIOUS
  <1>1. \A o \in Orders : SuccessRows[o] = 0
    BY PaymentAssumption DEF PaymentInit, SuccessRows
  <1>2. ASSUME NEW os \in SUBSET Orders PROVE Transferred(os) = 0
    <2>1. Transferred(os) = SumFunctionOnSet(SuccessRows, os) /\ IsFiniteSet(os)
      BY OrdersAssumption, FS_Subset DEF Transferred, SuccessRows
    <2> QED
      BY <1>1, <2>1, SumZero
  <1> QED
    BY <1>2, PaymentAssumption DEF PaymentInit, LedgerExplainsBalances

LEMMA PaymentExplained ==
  ASSUME PaymentTypeOK, LedgerExplainsBalances, NEW o \in Orders, NEW n,
         HandleInitiatePaymentCommand(o, n)
  PROVE  LedgerExplainsBalances'
  <1>1. CASE RecordFailedPayment(o)
    BY <1>1, FailureExplained
  <1>2. CASE CanPay(o) /\ Transfer(o) /\ RecordTransaction(o, "SUCCESS", "PaymentCapturedEvent")
    BY <1>2, CaptureExplained DEF CanPay
  <1> QED
    BY <1>1, <1>2 DEF HandleInitiatePaymentCommand
=============================================================================
