------------------------- MODULE PlansAndFaresProofs -------------------------
(***************************************************************************)
(* Proofs about the two models of money that nothing else depends on:      *)
(* PlanPurchases and Pricing.  They share no state; they share a module    *)
(* because they share lemmas (sums and orders over finite sets).           *)
(*                                                                         *)
(* PlanPurchases: for any plans, buyers, keys and requests in flight, and  *)
(* any bounds.  The inductive invariant is IInv with PayingOK and          *)
(* WalletPaysForPlans.  The core of IInv is KeysOK: what a key has bought  *)
(* and the requests with it that may still buy are together no more than   *)
(* there were requests at one time.  A request that comes in raises the    *)
(* sum, but then nothing has been bought yet (UntouchedOK: the look-up     *)
(* sees every purchase of the key); one that pays leaves it as it is.      *)
(*                                                                         *)
(* Pricing: for any policies, places, trips, administrators and edits.     *)
(* The inductive invariant is PricingInv: besides the types, an edit whose *)
(* write is still to come is of a row that exists and fits it (EditsOK),   *)
(* and what a trip was quoted and charged is the fare of what is stored    *)
(* with it (FaresOK).                                                      *)
(***************************************************************************)
EXTENDS PlanPurchases, Pricing, FiniteSetTheorems, TLAPS

-----------------------------------------------------------------------------
(* The inductive invariant of PlanPurchases *)

BoughtWith(k) == {i \in Bought : tx[i].key = k}

\* A transaction that is not there yet is blank.
BlankOK == \A i \in Tx : tx[i].state = "none" => tx[i] = NoTx

\* What a request in flight asks for.
RequestOK(r) ==
  IF r.at = "idle" THEN r.key \notin Key
  ELSE r.method \in {"cash", "wallet"} /\ r.plan \in Plan /\ r.buyer \in Buyer

RequestsOK == \A w \in Worker : RequestOK(req[w])

\* A key nobody has interfered with is only on purchases, and they are all found.
UntouchedOK ==
  \A i \in Tx : tx[i].key \in Key \ touched => tx[i].state = "live" /\ i \in Bought

KeyOK(k) == Cardinality(BoughtWith(k)) + Cardinality(InFlight(k)) <= peak[k]

KeysOK == \A k \in Key \ touched : KeyOK(k)

IInv == TypeOK /\ BlankOK /\ RequestsOK /\ UntouchedOK /\ KeysOK

\* A request that may pay has a price to pay.
PayingOK == \A w \in Worker : req[w].at = "pay" => req[w].price > 0

-----------------------------------------------------------------------------
(* The inductive invariant of Pricing *)

\* What an administrator who has read a row will write, where ps are the policies.
EditOK(e, ps) ==
  /\ e.kind = "policy" =>
       /\ e.id \in Policy /\ Live(ps, e.id)
       /\ Fits(e.columns, PolicyColumns)
       /\ "city" \in DOMAIN e.columns /\ "zone" \in DOMAIN e.columns
  /\ e.kind = "type" => e.id \in VehicleType /\ e.row \in TypeRow
  /\ e.kind = "class" => e.id \in ServiceClass /\ e.row \in ClassRow

EditsOK == edit = [a \in Admin |-> edit[a]] /\ \A a \in Admin : EditOK(edit[a], policies)

\* The estimate and the total are the fares of what is kept with them.
FareOK(t, n) ==
  /\ n.phase \in {"open", "done"} =>
       n.est = ComputeFare(n.quote.rates, n.quote.mult, n.card, Route[t].km, Route[t].min, 0)
  /\ n.phase = "done" =>
       /\ n.bill.min = Route[t].min
       /\ n.total = ComputeFare(n.bill.rates, n.bill.mult, n.card, n.bill.km, n.bill.min,
                                n.bill.extras)

FaresOK == \A t \in Trip : FareOK(t, trip[t])

PricingInv == PricesTyped /\ EditsOK /\ FaresOK

-----------------------------------------------------------------------------
(* Finite sets and sums over them *)

\* A family of finite sets has a smallest one.
LEMMA SmallestOfFamily ==
  ASSUME NEW S, NEW F \in SUBSET FiniteSubsetsOf(S), F # {}
  PROVE  \E U \in F : \A V \in F : V \subseteq U => V = U
<1>1. PICK U \in F : \A V \in F : <<V, U>> \notin StrictSubsetOrdering(S)
  BY FS_StrictSubsetOrderingWellFounded, WFMin
<1>2. \A V \in F : V \in SUBSET S
  BY DEF FiniteSubsetsOf
<1> QED
  BY <1>1, <1>2 DEF StrictSubsetOrdering

\* A set of natural numbers has a least one.
LEMMA LeastNumber ==
  ASSUME NEW T \in SUBSET Nat, T # {}
  PROVE  \E n \in T : \A m \in T : n <= m
<1> DEFINE F == {1 .. n : n \in T}
<1>1. F \in SUBSET FiniteSubsetsOf(Nat) /\ F # {}
  <2>1. \A n \in T : IsFiniteSet(1 .. n) /\ 1 .. n \in SUBSET Nat
    BY FS_Interval
  <2> QED
    BY <2>1 DEF FiniteSubsetsOf
<1>2. PICK U \in F : \A V \in F : V \subseteq U => V = U
  <2> HIDE DEF F
  <2> QED
    BY <1>1, SmallestOfFamily
<1>3. PICK n \in T : U = 1 .. n
  OBVIOUS
<1>4. ASSUME NEW m \in T, ~(n <= m)
      PROVE  FALSE
  <2>1. 1 .. m \in F /\ 1 .. m \subseteq 1 .. n
    BY <1>4
  <2>2. 1 .. m = 1 .. n
    BY <1>2, <1>3, <2>1
  <2>3. n \in 1 .. n
    BY <1>4
  <2> QED
    BY <1>4, <2>2, <2>3
<1> QED
  BY <1>4

\* A function whose values do not change from one index to the next is constant.
LEMMA ConstantFunction ==
  ASSUME NEW N \in Nat, NEW s \in [0 .. N -> Int],
         \A n \in 1 .. N : s[n] = s[n-1]
  PROVE  s[N] = s[0]
<1> DEFINE T == {n \in 0 .. N : s[n] # s[0]}
<1> SUFFICES ASSUME s[N] # s[0] PROVE FALSE
  OBVIOUS
<1>1. T \in SUBSET Nat /\ N \in T
  OBVIOUS
<1>2. PICK n \in T : \A m \in T : n <= m
  BY <1>1, LeastNumber
<1>3. n # 0 /\ n - 1 \in 0 .. N
  BY <1>2
<1>4. n - 1 \notin T
  BY <1>2, <1>3
<1> QED
  BY <1>2, <1>3, <1>4

\* s holds the sums of c up to each index.
Sums(s, c, N) ==
  s \in [0 .. N -> Int] /\ s[0] = 0 /\ \A n \in 1 .. N : s[n] = s[n - 1] + c[n]

\* The sums exist ...
LEMMA SumsExist ==
  ASSUME NEW c \in [Tx -> Int]
  PROVE  \E s : Sums(s, c, MaxTx)
<1> DEFINE T == {N \in 0 .. MaxTx : ~ \E s : Sums(s, c, N)}
<1> SUFFICES ASSUME T # {} PROVE FALSE
  BY PurchasesAssumption
<1>1. T \in SUBSET Nat
  OBVIOUS
<1>2. PICK N \in T : \A m \in T : N <= m
  <2> HIDE DEF T
  <2> QED
    BY <1>1, LeastNumber
<1>3. CASE N = 0
  <2>1. Sums([n \in 0 .. 0 |-> 0], c, 0)
    BY DEF Sums
  <2> QED
    BY <1>2, <1>3, <2>1
<1>4. CASE N # 0
  <2>1. N - 1 \in 0 .. MaxTx /\ N \in Tx
    BY <1>2, <1>4, PurchasesAssumption DEF Tx
  <2>2. PICK s : Sums(s, c, N - 1)
    BY <1>2, <2>1
  <2> DEFINE r == [n \in 0 .. N |-> IF n = N THEN s[N - 1] + c[N] ELSE s[n]]
  <2>3. Sums(r, c, N)
    <3>1. r \in [0 .. N -> Int]
      BY <2>1, <2>2 DEF Sums
    <3>2. r[0] = 0
      BY <1>4, <2>1, <2>2 DEF Sums
    <3>3. ASSUME NEW n \in 1 .. N PROVE r[n] = r[n - 1] + c[n]
      BY <2>1, <2>2, <3>3 DEF Sums
    <3> QED
      BY <3>1, <3>2, <3>3 DEF Sums
  <2> QED
    BY <1>2, <2>3
<1> QED
  BY <1>3, <1>4

\* ... and Total is the last of them.
LEMMA SumIsLast ==
  ASSUME NEW c \in [Tx -> Int]
  PROVE  \E s : Sums(s, c, MaxTx) /\ Total(c) = s[MaxTx]
<1> DEFINE Step(s) == [n \in 0 .. MaxTx |-> IF n = 0 THEN 0 ELSE s[n - 1] + c[n]]
           s == CHOOSE s : s = Step(s)
<1>1. PICK r : Sums(r, c, MaxTx)
  BY SumsExist
<1>2. r = Step(r)
  <2>1. \A n \in 0 .. MaxTx : r[n] = Step(r)[n]
    BY <1>1 DEF Sums
  <2> QED
    BY <1>1, <2>1 DEF Sums
<1>3. s = Step(s)
  <2> HIDE DEF Step
  <2> QED
    BY <1>2, Zenon
<1>4. Total(c) = s[MaxTx]
  BY Zenon DEF Total
<1> HIDE DEF s
<1>5. /\ s[0] = 0
      /\ \A n \in Tx : n - 1 \in 0 .. MaxTx /\ n \in Int /\ s[n] = s[n - 1] + c[n]
      /\ s = [n \in 0 .. MaxTx |-> s[n]]
  <2>1. s[0] = 0
    BY <1>3, PurchasesAssumption
  <2>2. ASSUME NEW n \in Tx
        PROVE  n - 1 \in 0 .. MaxTx /\ n \in Int /\ s[n] = s[n - 1] + c[n]
    <3>1. n \in 0 .. MaxTx /\ n # 0 /\ n - 1 \in 0 .. MaxTx
      BY PurchasesAssumption DEF Tx
    <3>2. s[n] = Step(s)[n]
      BY <1>3
    <3> QED
      BY <3>1, <3>2
  <2>3. s = [n \in 0 .. MaxTx |-> s[n]]
    BY <1>3
  <2> QED
    BY <2>1, <2>2, <2>3
<1>6. \A n \in 0 .. MaxTx : s[n] \in Int
  <2> DEFINE T == {n \in 0 .. MaxTx : s[n] \notin Int}
  <2> SUFFICES ASSUME T # {} PROVE FALSE
    OBVIOUS
  <2>1. T \in SUBSET Nat
    OBVIOUS
  <2>2. PICK n \in T : \A m \in T : n <= m
    <3> HIDE DEF T
    <3> QED
      BY <2>1, LeastNumber
  <2>3. n # 0 /\ n \in Tx
    BY <2>2, <1>5 DEF Tx
  <2>4. n - 1 \in 0 .. MaxTx /\ n \in Int /\ s[n] = s[n - 1] + c[n]
    BY <1>5, <2>3, Zenon
  <2>5. s[n - 1] \in Int
    BY <2>2, <2>4
  <2>6. c[n] \in Int
    BY <2>3
  <2>7. s[n] \in Int
    BY <2>4, <2>5, <2>6
  <2> QED
    BY <2>2, <2>7
<1>7. Sums(s, c, MaxTx)
  BY <1>5, <1>6 DEF Sums, Tx
<1> QED
  BY <1>4, <1>7

\* A sum in which only one term changes moves by the change of that term.
LEMMA SumMoves ==
  ASSUME NEW c \in [Tx -> Int], NEW d \in [Tx -> Int], NEW i \in Tx,
         \A n \in Tx \ {i} : d[n] = c[n]
  PROVE  Total(d) = Total(c) + d[i] - c[i] /\ Total(c) \in Int
<1>1. PICK s : Sums(s, c, MaxTx) /\ Total(c) = s[MaxTx]
  BY SumIsLast
<1>2. PICK r : Sums(r, d, MaxTx) /\ Total(d) = r[MaxTx]
  BY SumIsLast
<1> DEFINE f == [n \in 0 .. MaxTx |-> r[n] - s[n] - (IF n >= i THEN d[i] - c[i] ELSE 0)]
<1>3. f \in [0 .. MaxTx -> Int]
  BY <1>1, <1>2 DEF Sums
<1>4. \A n \in 1 .. MaxTx : f[n] = f[n - 1]
  <2> SUFFICES ASSUME NEW n \in 1 .. MaxTx PROVE f[n] = f[n - 1]
    OBVIOUS
  <2>1. n \in Tx /\ n - 1 \in 0 .. MaxTx /\ n \in 0 .. MaxTx /\ i \in Int /\ n \in Int
    BY PurchasesAssumption DEF Tx
  <2>2. /\ r[n] = r[n - 1] + d[n] /\ s[n] = s[n - 1] + c[n]
        /\ r[n - 1] \in Int /\ s[n - 1] \in Int
        /\ c[n] \in Int /\ d[n] \in Int /\ c[i] \in Int /\ d[i] \in Int
    BY <1>1, <1>2, <2>1 DEF Sums
  <2>3. CASE n = i
    BY <2>1, <2>2, <2>3
  <2>4. CASE n # i
    <3>1. d[n] = c[n] /\ (n >= i <=> n - 1 >= i)
      BY <2>1, <2>4 DEF Tx
    <3> QED
      BY <2>1, <2>2, <3>1
  <2> QED
    BY <2>3, <2>4
<1>5. f[MaxTx] = f[0]
  <2> HIDE DEF f
  <2> QED
    BY <1>3, <1>4, PurchasesAssumption, ConstantFunction
<1>6. f[0] = 0 /\ f[MaxTx] = r[MaxTx] - s[MaxTx] - (d[i] - c[i])
  BY <1>1, <1>2, PurchasesAssumption DEF Sums, Tx
<1>7. r[MaxTx] \in Int /\ s[MaxTx] \in Int /\ c[i] \in Int /\ d[i] \in Int
  BY <1>1, <1>2, PurchasesAssumption DEF Sums
<1> QED
  BY <1>1, <1>2, <1>5, <1>6, <1>7

\* Nothing but zeros adds up to zero.
LEMMA SumOfNothing ==
  ASSUME NEW c \in [Tx -> Int], \A n \in Tx : c[n] = 0
  PROVE  Total(c) = 0
<1>1. PICK s : Sums(s, c, MaxTx) /\ Total(c) = s[MaxTx]
  BY SumIsLast
<1>2. \A n \in 1 .. MaxTx : s[n] = s[n - 1]
  <2> SUFFICES ASSUME NEW n \in 1 .. MaxTx PROVE s[n] = s[n - 1]
    OBVIOUS
  <2>1. n - 1 \in 0 .. MaxTx /\ c[n] = 0
    BY PurchasesAssumption DEF Tx
  <2> QED
    BY <1>1, <2>1 DEF Sums
<1> QED
  BY <1>1, <1>2, PurchasesAssumption, ConstantFunction DEF Sums

-----------------------------------------------------------------------------
(* Counting requests and purchases *)

LEMMA Counts ==
  ASSUME NEW k \in Key
  PROVE  /\ IsFiniteSet(BoughtWith(k)) /\ Cardinality(BoughtWith(k)) \in Nat
         /\ IsFiniteSet(InFlight(k)) /\ Cardinality(InFlight(k)) \in Nat
         /\ Cardinality(InFlight(k)) <= Cardinality(Worker)
         /\ Cardinality(Worker) \in Nat
<1>1. IsFiniteSet(Tx)
  BY PurchasesAssumption, FS_Interval DEF Tx
<1>2. BoughtWith(k) \in SUBSET Tx /\ InFlight(k) \in SUBSET Worker
  BY DEF BoughtWith, Bought, InFlight
<1>3. IsFiniteSet(BoughtWith(k))
  BY <1>1, <1>2, FS_Subset
<1>4. IsFiniteSet(InFlight(k)) /\ Cardinality(InFlight(k)) <= Cardinality(Worker)
  BY <1>2, PurchasesAssumption, FS_Subset
<1> QED
  BY <1>3, <1>4, PurchasesAssumption, FS_CardinalityType

LEMMA MaxOfTwo ==
  ASSUME NEW a \in Nat, NEW b \in Nat
  PROVE  Max({a, b}) \in {a, b} /\ Max({a, b}) >= a /\ Max({a, b}) >= b
<1>1. \E x \in {a, b} : \A y \in {a, b} : x >= y
  <2>1. CASE a >= b
    BY <2>1
  <2>2. CASE ~(a >= b)
    BY <2>2
  <2> QED
    BY <2>1, <2>2
<1> QED
  BY <1>1 DEF Max

\* A key that nothing new was bought with, and that nothing new asks for.
LEMMA KeyKept ==
  ASSUME NEW k \in Key, KeyOK(k), peak'[k] = peak[k], peak[k] \in Nat,
         BoughtWith(k)' \subseteq BoughtWith(k), InFlight(k)' \subseteq InFlight(k)
  PROVE  KeyOK(k)'
<1>1. /\ IsFiniteSet(BoughtWith(k)) /\ Cardinality(BoughtWith(k)) \in Nat
      /\ IsFiniteSet(InFlight(k)) /\ Cardinality(InFlight(k)) \in Nat
  BY Counts
<1>2. /\ IsFiniteSet(BoughtWith(k)') /\ Cardinality(BoughtWith(k)') <= Cardinality(BoughtWith(k))
  BY <1>1, FS_Subset
<1>3. /\ IsFiniteSet(InFlight(k)') /\ Cardinality(InFlight(k)') <= Cardinality(InFlight(k))
  BY <1>1, FS_Subset
<1>4. Cardinality(BoughtWith(k)') \in Nat /\ Cardinality(InFlight(k)') \in Nat
  BY <1>2, <1>3, FS_CardinalityType
<1> QED
  BY <1>1, <1>2, <1>3, <1>4 DEF KeyOK

\* The look-up of a key nobody has interfered with misses no purchase.
LEMMA MissedMeansNone ==
  ASSUME IInv, NEW k \in Key \ touched, Missed(k)
  PROVE  BoughtWith(k) = {}
BY PurchasesAssumption
   DEF IInv, UntouchedOK, Missed, Found, FindPlanPurchaseByIdemKey, BoughtWith, Bought

----------------------------------------------------------------------------
(* Requests *)

LEMMA IdleFacts == Idle \in Request /\ Idle.key \notin Key /\ RequestOK(Idle)
BY PurchasesAssumption DEF Idle, Request, RequestOK

\* A request goes on with the same key, or is over.
LEMMA RequestMoves ==
  ASSUME IInv, NEW w \in Worker, NEW n \in Request, req' = [req EXCEPT ![w] = n],
         n.key = req[w].key \/ n.key \notin Key,
         RequestOK(n),
         UNCHANGED <<catalogue, tx, wallets, changes, peak, touched>>
  PROVE  IInv'
<1>1. TypeOK /\ BlankOK /\ RequestsOK /\ UntouchedOK /\ KeysOK
  BY DEF IInv
<1>2. req'[w] = n /\ \A v \in Worker \ {w} : req'[v] = req[v]
  BY <1>1 DEF TypeOK
<1>3. TypeOK'
  BY <1>1 DEF TypeOK, catalogue, wallets, Bought
<1>4. BlankOK' /\ UntouchedOK'
  BY <1>1 DEF BlankOK, UntouchedOK, Bought
<1>5. RequestsOK'
  BY <1>1, <1>2 DEF RequestsOK
<1>6. KeysOK'
  <2> SUFFICES ASSUME NEW k \in Key \ touched
               PROVE  KeyOK(k)'
    BY DEF KeysOK
  <2>1. KeyOK(k) /\ peak[k] \in Nat /\ peak'[k] = peak[k]
    BY <1>1, Counts DEF KeysOK, TypeOK
  <2>2. BoughtWith(k)' \subseteq BoughtWith(k)
    BY DEF BoughtWith, Bought
  <2>3. InFlight(k)' \subseteq InFlight(k)
    BY <1>2 DEF InFlight
  <2> QED
    BY <2>1, <2>2, <2>3, KeyKept
<1> QED
  BY <1>3, <1>4, <1>5, <1>6 DEF IInv

LEMMA StartPurchaseKeeps ==
  ASSUME IInv, NEW w \in Worker, StartPurchase(w)
  PROVE  IInv'
<1>1. TypeOK /\ BlankOK /\ RequestsOK /\ UntouchedOK /\ KeysOK
  BY DEF IInv
<1>2. PICK m \in {"cash", "wallet"}, k \in Key \cup {NoKey}, b \in Buyer, p \in Plan :
        /\ Missed(k)
        /\ req' = [req EXCEPT ![w] = [at |-> "check", method |-> m, key |-> k, buyer |-> b,
                                      plan |-> p, price |-> 0]]
        /\ peak' = IF k = NoKey THEN peak
                   ELSE [peak EXCEPT ![k] = Max({@, Cardinality(InFlight(k)) + 1})]
  BY DEF StartPurchase
<1> DEFINE n == [at |-> "check", method |-> m, key |-> k, buyer |-> b,
                 plan |-> p, price |-> 0]
<1>3. /\ req[w].at = "idle"
      /\ UNCHANGED <<catalogue, tx, wallets, changes, touched>>
  BY DEF StartPurchase
<1>4. n \in Request /\ n.key = k /\ RequestOK(n)
  BY DEF Request, RequestOK
<1> HIDE DEF n
<1>5. req' = [req EXCEPT ![w] = n]
  BY <1>2 DEF n
<1>6. req'[w] = n /\ \A v \in Worker \ {w} : req'[v] = req[v]
  BY <1>1, <1>5 DEF TypeOK
<1>7. \A j \in Key : j # k =>
        /\ peak'[j] = peak[j]
        /\ BoughtWith(j)' \subseteq BoughtWith(j) /\ InFlight(j)' \subseteq InFlight(j)
  BY <1>1, <1>2, <1>3, <1>4, <1>6 DEF TypeOK, BoughtWith, Bought, InFlight
<1>8. \A j \in Key : peak[j] \in 0 .. Cardinality(Worker)
  BY <1>1 DEF TypeOK
<1>9. ASSUME k \in Key
      PROVE  /\ peak'[k] \in 0 .. Cardinality(Worker)
             /\ k \notin touched => KeyOK(k)'
  <2>1. /\ IsFiniteSet(InFlight(k)) /\ Cardinality(InFlight(k)) \in Nat
        /\ Cardinality(Worker) \in Nat
    BY <1>9, Counts
  <2>2. peak[k] \in Nat /\ peak[k] <= Cardinality(Worker)
    BY <1>8, <1>9, <2>1
  <2>3. peak'[k] = Max({peak[k], Cardinality(InFlight(k)) + 1})
    BY <1>1, <1>2, <1>9, PurchasesAssumption DEF TypeOK
  <2>4. InFlight(k)' = InFlight(k) \cup {w}
    BY <1>4, <1>6 DEF InFlight
  <2>5. CASE w \in InFlight(k)
    BY <1>1, <1>3, <1>9, <2>5 DEF RequestsOK, RequestOK, InFlight
  <2>6. CASE w \notin InFlight(k)
    <3>1. /\ IsFiniteSet(InFlight(k)')
          /\ Cardinality(InFlight(k)') = Cardinality(InFlight(k)) + 1
      BY <2>1, <2>4, <2>6, FS_AddElement
    <3>2. InFlight(k)' \in SUBSET Worker
      BY <2>4 DEF InFlight
    <3>3. Cardinality(InFlight(k)) + 1 <= Cardinality(Worker)
      BY <3>1, <3>2, PurchasesAssumption, FS_Subset
    <3>4. /\ peak'[k] \in {peak[k], Cardinality(InFlight(k)) + 1}
          /\ peak'[k] >= Cardinality(InFlight(k)) + 1
      BY <2>1, <2>2, <2>3, MaxOfTwo
    <3>5. peak'[k] \in 0 .. Cardinality(Worker)
      BY <2>1, <2>2, <3>3, <3>4
    <3>6. k \notin touched => Cardinality(BoughtWith(k)') = 0
      <4>1. ASSUME k \notin touched
            PROVE  BoughtWith(k) = {}
        BY <1>2, <1>9, <4>1, MissedMeansNone
      <4>2. BoughtWith(k)' = BoughtWith(k)
        BY <1>3 DEF BoughtWith, Bought
      <4> QED
        BY <4>1, <4>2, FS_EmptySet
    <3> QED
      BY <2>1, <3>1, <3>4, <3>5, <3>6 DEF KeyOK
  <2> QED
    BY <2>5, <2>6
<1>10. TypeOK'
  <2>1. req' \in [Worker -> Request]
    BY <1>1, <1>4, <1>5 DEF TypeOK
  <2>2. peak' \in [Key -> 0 .. Cardinality(Worker)]
    <3>1. peak' = [j \in Key |-> peak'[j]]
      BY <1>1, <1>2 DEF TypeOK
    <3>2. \A j \in Key : peak'[j] \in 0 .. Cardinality(Worker)
      BY <1>7, <1>8, <1>9
    <3> QED
      BY <3>1, <3>2
  <2> QED
    BY <1>1, <1>3, <2>1, <2>2 DEF TypeOK, catalogue, wallets, Bought
<1>11. BlankOK' /\ UntouchedOK'
  BY <1>1, <1>3 DEF BlankOK, UntouchedOK, Bought
<1>12. RequestsOK'
  BY <1>1, <1>4, <1>6 DEF RequestsOK
<1>13. KeysOK'
  <2> SUFFICES ASSUME NEW j \in Key \ touched
               PROVE  KeyOK(j)'
    BY <1>3 DEF KeysOK
  <2>1. CASE j = k
    BY <1>9, <2>1
  <2>2. CASE j # k
    <3>1. KeyOK(j) /\ peak[j] \in Nat
      BY <1>1, <1>8, Counts DEF KeysOK
    <3> QED
      BY <1>7, <2>2, <3>1, KeyKept
  <2> QED
    BY <2>1, <2>2
<1> QED
  BY <1>10, <1>11, <1>12, <1>13 DEF IInv

LEMMA CheckPurchaseKeeps ==
  ASSUME IInv, NEW w \in Worker, CheckPurchase(w) \/ PurchaseFails(w)
  PROVE  IInv'
<1>1. TypeOK /\ RequestsOK
  BY DEF IInv
<1>2. req[w] \in Request
  BY <1>1 DEF TypeOK
<1>3. UNCHANGED <<catalogue, tx, wallets, changes, peak, touched>>
  BY DEF CheckPurchase, PurchaseFails
<1>4. CASE Done(w)
  BY <1>3, <1>4, IdleFacts, RequestMoves DEF Done
<1>5. CASE ~Done(w)
  <2> DEFINE n == [at |-> "pay", method |-> req[w].method, key |-> req[w].key,
                   buyer |-> req[w].buyer, plan |-> req[w].plan,
                   price |-> plan[req[w].plan].price]
  <2>1. req[w].at = "check" /\ req' = [req EXCEPT ![w] = n]
    BY <1>5 DEF CheckPurchase, PurchaseFails
  <2>2. req[w].method \in {"cash", "wallet"} /\ req[w].plan \in Plan /\ req[w].buyer \in Buyer
    BY <1>1, <2>1 DEF RequestsOK, RequestOK
  <2>3. plan[req[w].plan].price \in Prices \cup {0}
    BY <1>1, <2>2 DEF TypeOK, PlanRow
  <2>4. n \in Request /\ n.key = req[w].key /\ RequestOK(n)
    BY <1>2, <2>2, <2>3 DEF Request, RequestOK
  <2> HIDE DEF n
  <2> QED
    BY <1>3, <2>1, <2>4, RequestMoves
<1> QED
  BY <1>4, <1>5

----------------------------------------------------------------------------
(* Purchases *)

LEMMA RecordPurchaseKeeps ==
  ASSUME IInv, NEW w \in Worker, NEW new \in Int, req[w].at = "pay",
         RecordPurchase(w, new), balance' \in [Buyer -> Int], blocked' \subseteq Buyer,
         UNCHANGED <<catalogue, other, changes, peak, touched>>
  PROVE  IInv'
<1>1. TypeOK /\ BlankOK /\ RequestsOK /\ UntouchedOK /\ KeysOK
  BY DEF IInv
<1> DEFINE n == [state |-> "live", method |-> req[w].method, key |-> req[w].key,
                 buyer |-> req[w].buyer, plan |-> req[w].plan, price |-> req[w].price,
                 new |-> new]
<1>2. PICK i \in Tx : NextTx(i) /\ tx' = [tx EXCEPT ![i] = n]
  BY DEF RecordPurchase
<1>3. req[w] \in Request /\ req[w].method \in {"cash", "wallet"} /\ req[w].plan \in Plan
        /\ plan[req[w].plan].at # "absent"
  BY <1>1 DEF TypeOK, RequestsOK, RequestOK, RecordPurchase
<1>4. /\ n \in TxRow
      /\ n.state = "live" /\ n.method # "none" /\ n.key = req[w].key /\ n.plan = req[w].plan
  BY <1>3 DEF TxRow, Request
<1> HIDE DEF n
<1>5. req' = [req EXCEPT ![w] = Idle]
  BY DEF RecordPurchase, Done
<1>6. req'[w] = Idle /\ \A v \in Worker \ {w} : req'[v] = req[v]
  BY <1>1, <1>5 DEF TypeOK
<1>7. tx'[i] = n /\ \A j \in Tx \ {i} : tx'[j] = tx[j]
  BY <1>1, <1>2 DEF TypeOK
<1>8. tx[i] = NoTx /\ i \notin Bought
  BY <1>1, <1>2 DEF NextTx, BlankOK, Bought, NoTx
<1>9. Bought' = Bought \cup {i}
  BY <1>4, <1>7 DEF Bought
<1>10. TypeOK'
  <2>1. tx' \in [Tx -> TxRow] /\ req' \in [Worker -> Request]
    BY <1>1, <1>2, <1>4, <1>5, IdleFacts DEF TypeOK
  <2>2. \A j \in Bought' : tx'[j].plan \in Plan /\ plan[tx'[j].plan].at # "absent"
    BY <1>1, <1>3, <1>4, <1>7, <1>9 DEF TypeOK, Bought
  <2> QED
    BY <1>1, <2>1, <2>2 DEF TypeOK, catalogue
<1>11. BlankOK'
  BY <1>1, <1>4, <1>7 DEF BlankOK
<1>12. RequestsOK'
  BY <1>1, <1>6, IdleFacts DEF RequestsOK
<1>13. UntouchedOK'
  BY <1>1, <1>4, <1>7, <1>9 DEF UntouchedOK
<1>14. KeysOK'
  <2> SUFFICES ASSUME NEW k \in Key \ touched
               PROVE  KeyOK(k)'
    BY DEF KeysOK
  <2>1. KeyOK(k) /\ peak[k] \in Nat /\ peak'[k] = peak[k]
    BY <1>1, Counts DEF KeysOK, TypeOK
  <2>2. CASE req[w].key # k
    <3>1. BoughtWith(k)' \subseteq BoughtWith(k)
      BY <1>4, <1>7, <1>9, <2>2 DEF BoughtWith, Bought
    <3>2. InFlight(k)' \subseteq InFlight(k)
      BY <1>6, IdleFacts DEF InFlight
    <3> QED
      BY <2>1, <3>1, <3>2, KeyKept
  <2>3. CASE req[w].key = k
    <3>1. BoughtWith(k)' = BoughtWith(k) \cup {i} /\ i \notin BoughtWith(k)
      BY <1>4, <1>7, <1>8, <1>9, <2>3 DEF BoughtWith, Bought
    <3>2. InFlight(k)' = InFlight(k) \ {w} /\ w \in InFlight(k)
      BY <1>6, <2>3, IdleFacts DEF InFlight
    <3>3. /\ IsFiniteSet(BoughtWith(k)) /\ Cardinality(BoughtWith(k)) \in Nat
          /\ IsFiniteSet(InFlight(k)) /\ Cardinality(InFlight(k)) \in Nat
      BY Counts
    <3>4. Cardinality(BoughtWith(k)') = Cardinality(BoughtWith(k)) + 1
      BY <3>1, <3>3, FS_AddElement
    <3>5. Cardinality(InFlight(k)') = Cardinality(InFlight(k)) - 1
      BY <3>2, <3>3, FS_RemoveElement
    <3> QED
      BY <2>1, <3>3, <3>4, <3>5 DEF KeyOK
  <2> QED
    BY <2>2, <2>3
<1> QED
  BY <1>10, <1>11, <1>12, <1>13, <1>14 DEF IInv

LEMMA PayKeeps ==
  ASSUME IInv, NEW w \in Worker, PayCash(w) \/ PayFromWallet(w)
  PROVE  IInv'
<1>1. TypeOK
  BY DEF IInv
<1>2. CASE PayCash(w)
  <2>1. balance' \in [Buyer -> Int] /\ blocked' \subseteq Buyer
    BY <1>1, <1>2 DEF PayCash, wallets, TypeOK
  <2>2. /\ RecordPurchase(w, 0) /\ req[w].at = "pay"
        /\ UNCHANGED <<catalogue, other, changes, peak, touched>>
    BY <1>2 DEF PayCash, wallets
  <2> QED
    BY <2>1, <2>2, RecordPurchaseKeeps
<1>3. CASE PayFromWallet(w)
  <2> DEFINE b == req[w].buyer
             new == balance[b] - req[w].price
  <2>1. /\ RecordPurchase(w, new) /\ req[w].at = "pay"
        /\ balance' = [balance EXCEPT ![b] = new]
        /\ blocked' = IF new < 0 /\ balance[b] >= 0 THEN blocked \cup {b} ELSE blocked
        /\ UNCHANGED <<catalogue, other, changes, peak, touched>>
    BY <1>3 DEF PayFromWallet
  <2>2. req[w] \in Request /\ b \in Buyer
    BY <1>1, <2>1 DEF IInv, TypeOK, RequestsOK, RequestOK
  <2>3. new \in Int
    <3>1. req[w].price \in Prices \cup {0}
      BY <2>2 DEF Request
    <3>2. balance[b] \in Int
      BY <1>1, <2>2 DEF TypeOK
    <3>3. req[w].price \in Int
      <4>1. \A price \in Prices \cup {0} : price \in Int
        BY PurchasesAssumption
      <4> QED
        BY <3>1, <4>1, Zenon
    <3> QED
      BY <3>2, <3>3
  <2>4. balance' \in [Buyer -> Int] /\ blocked' \subseteq Buyer
    BY <1>1, <2>1, <2>2, <2>3 DEF TypeOK
  <2> HIDE DEF new
  <2> QED
    BY <2>1, <2>3, <2>4, RecordPurchaseKeeps
<1> QED
  BY <1>2, <1>3
----------------------------------------------------------------------------
(* Others *)

\* The catalogue changes, and no plan that was bought goes.
LEMMA CatalogueKeeps ==
  ASSUME IInv, NEW p \in Plan, CreatePlan(p) \/ UpdatePlan(p) \/ RemovePlan(p)
  PROVE  IInv'
<1>1. TypeOK /\ BlankOK /\ RequestsOK /\ UntouchedOK /\ KeysOK
  BY DEF IInv
<1>2. UNCHANGED <<tx, wallets, req, peak, touched>>
  BY DEF CreatePlan, UpdatePlan, RemovePlan
<1>3. changes' \in 0 .. MaxChanges
  BY <1>1, PurchasesAssumption DEF CreatePlan, UpdatePlan, RemovePlan, Changing, TypeOK
<1>4. PICK r \in PlanRow :
        /\ plan' = [plan EXCEPT ![p] = r]
        /\ r.at = "absent" => \A i \in Bought : tx[i].plan # p
  <2>1. NoneOnSale \in PlanRow
    BY DEF NoneOnSale, PlanRow
  <2>2. \A price \in Prices, at \in {"active", "inactive"} :
          /\ [at |-> at, price |-> price] \in PlanRow
          /\ [at |-> at, price |-> price].at # "absent"
    BY DEF PlanRow
  <2> QED
    BY <2>1, <2>2 DEF CreatePlan, UpdatePlan, RemovePlan, Removable
<1>5. TypeOK'
  <2>1. plan' \in [Plan -> PlanRow] /\ plan'[p] = r
          /\ \A q \in Plan \ {p} : plan'[q] = plan[q]
    BY <1>1, <1>4 DEF TypeOK
  <2>2. \A i \in Bought : tx[i].plan \in Plan /\ plan'[tx[i].plan].at # "absent"
    BY <1>1, <1>4, <2>1 DEF TypeOK
  <2> QED
    BY <1>1, <1>2, <1>3, <2>1, <2>2 DEF TypeOK, wallets, Bought
<1>6. BlankOK' /\ RequestsOK' /\ UntouchedOK'
  BY <1>1, <1>2 DEF BlankOK, RequestsOK, UntouchedOK, Bought
<1>7. KeysOK'
  BY <1>1, <1>2 DEF KeysOK, KeyOK, BoughtWith, Bought, InFlight
<1> QED
  BY <1>5, <1>6, <1>7 DEF IInv

\* A transaction is made or changed by hand: its keys are touched, and what it
\* has bought stays.
LEMMA HandMadeKeeps ==
  ASSUME IInv, NEW i \in Tx, NEW n \in TxRow, tx' = [tx EXCEPT ![i] = n],
         n.state # "none", n.method = tx[i].method, n.plan = tx[i].plan,
         touched' \subseteq Key, touched \subseteq touched',
         tx[i].key \in Key => tx[i].key \in touched',
         n.key \in Key => n.key \in touched',
         changes' \in 0 .. MaxChanges, UNCHANGED <<catalogue, wallets, req, peak>>
  PROVE  IInv'
<1>1. TypeOK /\ BlankOK /\ RequestsOK /\ UntouchedOK /\ KeysOK
  BY DEF IInv
<1>2. tx'[i] = n /\ \A j \in Tx \ {i} : tx'[j] = tx[j]
  BY <1>1 DEF TypeOK
<1>3. Bought' = Bought
  BY <1>2 DEF Bought
<1>4. TypeOK'
  <2>1. tx' \in [Tx -> TxRow]
    BY <1>1 DEF TypeOK
  <2>2. \A j \in Bought : tx'[j].plan \in Plan /\ plan[tx'[j].plan].at # "absent"
    BY <1>1, <1>2 DEF TypeOK, Bought
  <2> QED
    BY <1>1, <1>3, <2>1, <2>2 DEF TypeOK, catalogue, wallets
<1>5. BlankOK' /\ RequestsOK'
  BY <1>1, <1>2 DEF BlankOK, RequestsOK
<1>6. UntouchedOK'
  BY <1>1, <1>2, <1>3 DEF UntouchedOK
<1>7. KeysOK'
  <2> SUFFICES ASSUME NEW k \in Key \ touched'
               PROVE  KeyOK(k)'
    BY DEF KeysOK
  <2>1. KeyOK(k) /\ peak[k] \in Nat /\ peak'[k] = peak[k]
    BY <1>1, Counts DEF KeysOK, TypeOK
  <2>2. BoughtWith(k)' \subseteq BoughtWith(k) /\ InFlight(k)' \subseteq InFlight(k)
    BY <1>2, <1>3 DEF BoughtWith, Bought, InFlight
  <2> QED
    BY <2>1, <2>2, KeyKept
<1> QED
  BY <1>4, <1>5, <1>6, <1>7 DEF IInv

LEMMA CreateTransactionKeeps ==
  ASSUME IInv, CreateTransaction
  PROVE  IInv'
<1>1. TypeOK /\ BlankOK
  BY DEF IInv
<1>2. PICK i \in Tx, k \in Key :
        /\ NextTx(i)
        /\ tx' = [tx EXCEPT ![i] = [state |-> "live", method |-> "none", key |-> k,
                  buyer |-> NoBuyer, plan |-> NoPlan, price |-> 0, new |-> 0]]
        /\ touched' = touched \cup {k}
  BY DEF CreateTransaction
<1> DEFINE n == [state |-> "live", method |-> "none", key |-> k,
                 buyer |-> NoBuyer, plan |-> NoPlan, price |-> 0, new |-> 0]
<1>3. n \in TxRow /\ n.state = "live" /\ n.method = "none" /\ n.plan = NoPlan /\ n.key = k
  BY DEF TxRow
<1>4. tx' = [tx EXCEPT ![i] = n]
  BY <1>2
<1> HIDE DEF n
<1>5. tx[i].method = "none" /\ tx[i].plan = NoPlan /\ tx[i].key \notin Key
  BY <1>1, <1>2, PurchasesAssumption DEF NextTx, BlankOK, NoTx
<1>6. changes' \in 0 .. MaxChanges /\ UNCHANGED <<catalogue, wallets, req, peak>>
  BY <1>1, PurchasesAssumption DEF CreateTransaction, Changing, TypeOK
<1>7. touched' \subseteq Key /\ touched \subseteq touched' /\ k \in touched'
  BY <1>1, <1>2 DEF TypeOK
<1> QED
  BY <1>3, <1>4, <1>5, <1>6, <1>7, HandMadeKeeps

LEMMA TouchKeeps ==
  ASSUME IInv, NEW i \in Tx, NEW state \in {"live", "deleted"},
         NEW key \in Key \cup {NoKey}, Touch(i, state, key),
         Changing, UNCHANGED <<catalogue, wallets, req, peak>>
  PROVE  IInv'
<1>1. TypeOK
  BY DEF IInv
<1> DEFINE n == [state |-> state, method |-> tx[i].method, key |-> key,
                 buyer |-> tx[i].buyer, plan |-> tx[i].plan, price |-> tx[i].price,
                 new |-> tx[i].new]
<1>2. tx[i] \in TxRow
  BY <1>1 DEF TypeOK
<1>3. /\ n \in TxRow /\ n.state # "none" /\ n.method = tx[i].method
      /\ n.plan = tx[i].plan /\ n.key = key
  BY <1>2 DEF TxRow
<1>4. tx' = [tx EXCEPT ![i] = n] /\ touched' = touched \cup ({tx[i].key, key} \ {NoKey})
  BY DEF Touch
<1> HIDE DEF n
<1>5. changes' \in 0 .. MaxChanges
  BY <1>1, PurchasesAssumption DEF Changing, TypeOK
<1>6. tx[i].key \in Key \cup {NoKey}
  BY <1>2 DEF TxRow
<1>7. /\ touched' \subseteq Key /\ touched \subseteq touched'
      /\ tx[i].key \in Key => tx[i].key \in touched'
      /\ key \in Key => key \in touched'
  BY <1>1, <1>4, <1>6, PurchasesAssumption DEF TypeOK
<1> QED
  BY <1>3, <1>4, <1>5, <1>7, HandMadeKeeps

LEMMA TransactionEditsKeep ==
  ASSUME IInv, NEW i \in Tx, UpdateTransaction(i) \/ SoftDeleteTransaction(i)
  PROVE  IInv'
<1>1. CASE UpdateTransaction(i)
  <2>1. PICK k \in Key \cup {NoKey} : Touch(i, "live", k)
    BY <1>1 DEF UpdateTransaction
  <2> QED
    BY <1>1, <2>1, TouchKeeps DEF UpdateTransaction
<1>2. CASE SoftDeleteTransaction(i)
  <2>1. tx[i].key \in Key \cup {NoKey}
    BY DEF IInv, TypeOK, TxRow
  <2> QED
    BY <1>2, <2>1, TouchKeeps DEF SoftDeleteTransaction
<1> QED
  BY <1>1, <1>2

\* A wallet moves, or is blocked or unblocked, for other reasons.
LEMMA WalletKeeps ==
  ASSUME IInv, NEW b \in Buyer, WalletMoves(b) \/ BlockOrUnblock(b)
  PROVE  IInv'
<1>1. TypeOK /\ BlankOK /\ RequestsOK /\ UntouchedOK /\ KeysOK
  BY DEF IInv
<1>2. UNCHANGED <<catalogue, tx, req, peak, touched>>
  BY DEF WalletMoves, BlockOrUnblock
<1>3. changes' \in 0 .. MaxChanges
  BY <1>1, PurchasesAssumption DEF WalletMoves, BlockOrUnblock, Changing, TypeOK
<1>4. balance' \in [Buyer -> Int] /\ other' \in [Buyer -> Int] /\ blocked' \subseteq Buyer
  <2>1. CASE WalletMoves(b)
    BY <1>1, <2>1 DEF WalletMoves, TypeOK
  <2>2. CASE BlockOrUnblock(b)
    BY <1>1, <2>2 DEF BlockOrUnblock, TypeOK
  <2> QED
    BY <2>1, <2>2
<1>5. TypeOK'
  BY <1>1, <1>2, <1>3, <1>4 DEF TypeOK, catalogue, Bought
<1>6. BlankOK' /\ RequestsOK' /\ UntouchedOK'
  BY <1>1, <1>2 DEF BlankOK, RequestsOK, UntouchedOK, Bought
<1>7. KeysOK'
  BY <1>1, <1>2 DEF KeysOK, KeyOK, BoughtWith, Bought, InFlight
<1> QED
  BY <1>5, <1>6, <1>7 DEF IInv

-----------------------------------------------------------------------------
(* What is paid from a wallet *)

LEMMA PricesAreInt == \A price \in Prices \cup {0} : price \in Int
BY PurchasesAssumption

\* What a buyer has spent, by transaction.
LEMMA SpendingTyped ==
  ASSUME TypeOK, NEW b
  PROVE  Spending(b) \in [Tx -> Int]
<1> SUFFICES ASSUME NEW i \in Tx
             PROVE  (IF i \in FromWallet(b) THEN tx[i].price ELSE 0) \in Int
  BY DEF Spending
<1>1. tx[i].price \in Prices \cup {0}
  BY DEF TypeOK, TxRow
<1>2. tx[i].price \in Int
  BY <1>1, PricesAreInt, Zenon
<1> QED
  BY <1>2

\* Steps that leave purchases and wallets alone.
LEMMA NothingPaid ==
  ASSUME WalletPaysForPlans, UNCHANGED <<tx, balance, other>>
  PROVE  WalletPaysForPlans'
<1>1. Bought' = Bought
  BY DEF Bought
<1>2. \A b \in Buyer : FromWallet(b)' = FromWallet(b)
  BY <1>1 DEF FromWallet
<1>3. \A b \in Buyer : Spending(b)' = Spending(b)
  BY <1>2 DEF Spending
<1>4. \A b \in Buyer : Total(Spending(b))' = Total(Spending(b))
  BY <1>3 DEF Total
<1> QED
  BY <1>2, <1>4 DEF WalletPaysForPlans

\* One transaction is written; paid is what it adds to what b has paid.
LEMMA OneTermMoves ==
  ASSUME IInv, TypeOK', NEW i \in Tx, \A j \in Tx \ {i} : tx'[j] = tx[j],
         NEW b \in Buyer
  PROVE  /\ Total(Spending(b))' =
              Total(Spending(b)) + Spending(b)'[i] - Spending(b)[i]
         /\ Total(Spending(b)) \in Int /\ Spending(b)'[i] \in Int /\ Spending(b)[i] \in Int
<1>1. Spending(b) \in [Tx -> Int]
  BY SpendingTyped DEF IInv
<1>2. Spending(b)' \in [Tx -> Int]
  <2> SUFFICES ASSUME NEW j \in Tx
               PROVE  (IF j \in FromWallet(b)' THEN tx'[j].price ELSE 0) \in Int
    BY DEF Spending
  <2>1. tx'[j].price \in Prices \cup {0}
    BY DEF TypeOK, TxRow
  <2>2. tx'[j].price \in Int
    BY <2>1, PricesAreInt, Zenon
  <2> QED
    BY <2>2
<1>3. \A j \in Tx \ {i} : Spending(b)'[j] = Spending(b)[j]
  BY DEF Spending, FromWallet, Bought
<1>4. Total(Spending(b)') = Total(Spending(b)) + Spending(b)'[i] - Spending(b)[i]
  /\ Total(Spending(b)) \in Int
  BY <1>1, <1>2, <1>3, SumMoves
<1>5. Total(Spending(b))' = Total(Spending(b)')
  BY DEF Total
<1> QED
  BY <1>1, <1>2, <1>4, <1>5

\* A transaction is written that takes nothing from a wallet it did not take before.
LEMMA NothingNewPaid ==
  ASSUME IInv, TypeOK', WalletPaysForPlans, NEW i \in Tx,
         \A j \in Tx \ {i} : tx'[j] = tx[j],
         \/ tx[i].method # "wallet" /\ tx'[i].method # "wallet"
         \/ /\ tx'[i].method = tx[i].method /\ tx'[i].buyer = tx[i].buyer
            /\ tx'[i].price = tx[i].price /\ tx'[i].new = tx[i].new,
         UNCHANGED <<balance, other>>
  PROVE  WalletPaysForPlans'
<1> SUFFICES ASSUME NEW b \in Buyer
             PROVE  /\ balance'[b] = other'[b] - Total(Spending(b))'
                    /\ \A j \in FromWallet(b)' : tx'[j].price > 0 /\ tx'[j].new >= Limit
  BY DEF WalletPaysForPlans
<1>1. FromWallet(b)' = FromWallet(b)
  BY DEF FromWallet, Bought
<1>2. Spending(b)'[i] = Spending(b)[i]
  BY <1>1 DEF Spending, FromWallet
<1>3. Total(Spending(b))' = Total(Spending(b))
  BY <1>2, OneTermMoves
<1>4. \A j \in FromWallet(b) : tx'[j].price > 0 /\ tx'[j].new >= Limit
  <2> SUFFICES ASSUME NEW j \in FromWallet(b)
               PROVE  tx'[j].price > 0 /\ tx'[j].new >= Limit
    OBVIOUS
  <2>1. j \in Tx /\ tx[j].price > 0 /\ tx[j].new >= Limit
    BY DEF WalletPaysForPlans, FromWallet, Bought
  <2>2. tx'[j].price = tx[j].price /\ tx'[j].new = tx[j].new
    BY <2>1 DEF FromWallet
  <2> QED
    BY <2>1, <2>2
<1> QED
  BY <1>1, <1>3, <1>4 DEF WalletPaysForPlans

\* A purchase takes its price from the wallet in the step that records it.
LEMMA WalletPurchasePaid ==
  ASSUME IInv, TypeOK', PayingOK, WalletPaysForPlans, NEW w \in Worker, PayFromWallet(w)
  PROVE  WalletPaysForPlans'
<1> DEFINE c == req[w].buyer
           price == req[w].price
           new == balance[c] - price
<1>1. PICK i \in Tx :
        /\ NextTx(i)
        /\ tx' = [tx EXCEPT ![i] =
             [state |-> "live", method |-> req[w].method, key |-> req[w].key,
              buyer |-> c, plan |-> req[w].plan, price |-> price, new |-> new]]
  BY DEF PayFromWallet, RecordPurchase
<1>2. /\ req[w].at = "pay" /\ req[w].method = "wallet"
      /\ balance' = [balance EXCEPT ![c] = new] /\ other' = other
      /\ new >= Limit
  BY DEF PayFromWallet, MayPay
<1>3. c \in Buyer /\ req[w] \in Request
  BY <1>2 DEF IInv, TypeOK, RequestsOK, RequestOK
<1>4. price > 0 /\ price \in Int
  <2>1. price \in Prices \cup {0}
    BY <1>3 DEF Request
  <2>2. price \in Int
    BY <2>1, PricesAreInt, Zenon
  <2> QED
    BY <1>2, <2>2 DEF PayingOK
<1>5. /\ tx'[i].method = "wallet" /\ tx'[i].buyer = c /\ tx'[i].price = price
      /\ tx'[i].new = new
      /\ \A j \in Tx \ {i} : tx'[j] = tx[j]
  BY <1>1, <1>2 DEF IInv, TypeOK
<1>6. tx[i].method = "none"
  BY <1>1 DEF IInv, BlankOK, NextTx, NoTx
<1>7. \A b \in Buyer : balance[b] \in Int /\ other[b] \in Int
  BY DEF IInv, TypeOK
<1> HIDE DEF c, price, new
<1> SUFFICES ASSUME NEW b \in Buyer
             PROVE  /\ balance'[b] = other'[b] - Total(Spending(b))'
                    /\ \A j \in FromWallet(b)' : tx'[j].price > 0 /\ tx'[j].new >= Limit
  BY DEF WalletPaysForPlans
<1>8. balance[b] = other[b] - Total(Spending(b))
        /\ \A j \in FromWallet(b) : tx[j].price > 0 /\ tx[j].new >= Limit
  BY DEF WalletPaysForPlans
<1>9. FromWallet(b)' = IF b = c THEN FromWallet(b) \cup {i} ELSE FromWallet(b)
  BY <1>5, <1>6 DEF FromWallet, Bought
<1>10. i \notin FromWallet(b)
  BY <1>6 DEF FromWallet
<1>11. \A j \in FromWallet(b)' : tx'[j].price > 0 /\ tx'[j].new >= Limit
  <2> SUFFICES ASSUME NEW j \in FromWallet(b)'
               PROVE  tx'[j].price > 0 /\ tx'[j].new >= Limit
    OBVIOUS
  <2>1. CASE j = i
    BY <1>2, <1>4, <1>5, <2>1
  <2>2. CASE j # i
    <3>1. j \in FromWallet(b) /\ j \in Tx
      BY <1>9, <2>2 DEF FromWallet, Bought
    <3>2. tx'[j] = tx[j]
      BY <1>5, <2>2, <3>1
    <3> QED
      BY <1>8, <3>1, <3>2
  <2> QED
    BY <2>1, <2>2
<1>12. Spending(b)[i] = 0 /\ Spending(b)'[i] = IF b = c THEN price ELSE 0
  BY <1>5, <1>9, <1>10 DEF Spending
<1>13. /\ Total(Spending(b))' = Total(Spending(b)) + (IF b = c THEN price ELSE 0)
       /\ Total(Spending(b)) \in Int
  BY <1>4, <1>5, <1>12, OneTermMoves
<1>14. balance'[b] = IF b = c THEN balance[b] - price ELSE balance[b]
  BY <1>2, <1>3 DEF new, IInv, TypeOK
<1>15. balance'[b] = other'[b] - Total(Spending(b))'
  BY <1>2, <1>4, <1>7, <1>8, <1>13, <1>14
<1> QED
  BY <1>11, <1>15

\* Other movements are accounted apart.
LEMMA WalletMovesAccounted ==
  ASSUME IInv, WalletPaysForPlans, NEW c \in Buyer, WalletMoves(c)
  PROVE  WalletPaysForPlans'
<1>1. PICK delta \in {-1, 2} :
        /\ balance' = [balance EXCEPT ![c] = @ + delta]
        /\ other' = [other EXCEPT ![c] = @ + delta]
  BY DEF WalletMoves
<1>2. tx' = tx
  BY DEF WalletMoves
<1> SUFFICES ASSUME NEW b \in Buyer
             PROVE  /\ balance'[b] = other'[b] - Total(Spending(b))'
                    /\ \A j \in FromWallet(b)' : tx'[j].price > 0 /\ tx'[j].new >= Limit
  BY DEF WalletPaysForPlans
<1>3. FromWallet(b)' = FromWallet(b) /\ Total(Spending(b))' = Total(Spending(b))
  BY <1>2 DEF FromWallet, Spending, Total, Bought
<1>4. balance[b] \in Int /\ other[b] \in Int /\ delta \in Int
  BY DEF IInv, TypeOK
<1>5. /\ balance'[b] = IF b = c THEN balance[b] + delta ELSE balance[b]
      /\ other'[b] = IF b = c THEN other[b] + delta ELSE other[b]
  BY <1>1 DEF IInv, TypeOK
<1>6. Spending(b) \in [Tx -> Int]
  BY SpendingTyped DEF IInv
<1>7. Total(Spending(b)) \in Int
  BY <1>6, SumIsLast, PurchasesAssumption DEF Sums
<1>8. balance[b] = other[b] - Total(Spending(b))
        /\ \A j \in FromWallet(b) : tx[j].price > 0 /\ tx[j].new >= Limit
  BY DEF WalletPaysForPlans
<1> QED
  BY <1>2, <1>3, <1>4, <1>5, <1>7, <1>8

LEMMA PayingKept ==
  ASSUME IInv, PayingOK, [Next]_vars
  PROVE  PayingOK'
<1> SUFFICES ASSUME NEW v \in Worker, req'[v].at = "pay"
             PROVE  req'[v].price > 0
  BY DEF PayingOK
<1>1. req \in [Worker -> Request] /\ plan \in [Plan -> PlanRow]
  BY DEF IInv, TypeOK
<1>2. CASE req' = req
  BY <1>2 DEF PayingOK
<1>3. ASSUME NEW w \in Worker, Done(w)
      PROVE  req'[v].price > 0
  BY <1>1, <1>3 DEF Done, Idle, PayingOK
<1>4. ASSUME NEW w \in Worker, StartPurchase(w)
      PROVE  req'[v].price > 0
  BY <1>1, <1>4 DEF StartPurchase, PayingOK
<1>5. ASSUME NEW w \in Worker, CheckPurchase(w)
      PROVE  req'[v].price > 0
  <2>1. CASE Done(w)
    BY <1>3, <2>1
  <2>2. CASE ~Done(w)
    BY <1>1, <1>5, <2>2 DEF CheckPurchase, PayingOK
  <2> QED
    BY <2>1, <2>2
<1>6. ASSUME NEW w \in Worker, PayCash(w) \/ PayFromWallet(w) \/ PurchaseFails(w)
      PROVE  req'[v].price > 0
  BY <1>3, <1>6 DEF PayCash, PayFromWallet, RecordPurchase, PurchaseFails
<1> QED
  BY <1>2, <1>4, <1>5, <1>6
     DEF Next, vars, CreatePlan, UpdatePlan, RemovePlan, CreateTransaction,
         UpdateTransaction, SoftDeleteTransaction, WalletMoves, BlockOrUnblock

LEMMA WalletKept ==
  ASSUME IInv, TypeOK', PayingOK, WalletPaysForPlans, [Next]_vars
  PROVE  WalletPaysForPlans'
<1>1. CASE UNCHANGED <<tx, balance, other>>
  BY <1>1, NothingPaid
<1>2. ASSUME NEW w \in Worker, PayFromWallet(w)
      PROVE  WalletPaysForPlans'
  BY <1>2, WalletPurchasePaid
<1>3. ASSUME NEW b \in Buyer, WalletMoves(b)
      PROVE  WalletPaysForPlans'
  BY <1>3, WalletMovesAccounted
<1>4. ASSUME NEW w \in Worker, PayCash(w)
      PROVE  WalletPaysForPlans'
  <2>1. PICK i \in Tx :
          /\ NextTx(i)
          /\ tx' = [tx EXCEPT ![i] =
               [state |-> "live", method |-> req[w].method, key |-> req[w].key,
                buyer |-> req[w].buyer, plan |-> req[w].plan, price |-> req[w].price,
                new |-> 0]]
    BY <1>4 DEF PayCash, RecordPurchase
  <2>2. /\ tx[i].method # "wallet" /\ tx'[i].method # "wallet"
        /\ \A j \in Tx \ {i} : tx'[j] = tx[j]
    BY <1>4, <2>1 DEF PayCash, IInv, TypeOK, BlankOK, NextTx, NoTx
  <2>3. UNCHANGED <<balance, other>>
    BY <1>4 DEF PayCash, wallets
  <2> QED
    BY <2>2, <2>3, NothingNewPaid
<1>5. CASE CreateTransaction
  <2>1. PICK i \in Tx, k \in Key :
          /\ NextTx(i)
          /\ tx' = [tx EXCEPT ![i] = [state |-> "live", method |-> "none", key |-> k,
                    buyer |-> NoBuyer, plan |-> NoPlan, price |-> 0, new |-> 0]]
    BY <1>5 DEF CreateTransaction
  <2>2. /\ tx[i].method # "wallet" /\ tx'[i].method # "wallet"
        /\ \A j \in Tx \ {i} : tx'[j] = tx[j]
    BY <2>1 DEF IInv, TypeOK, BlankOK, NextTx, NoTx
  <2>3. UNCHANGED <<balance, other>>
    BY <1>5 DEF CreateTransaction, wallets
  <2> QED
    BY <2>2, <2>3, NothingNewPaid
<1>6. ASSUME NEW i \in Tx, UpdateTransaction(i) \/ SoftDeleteTransaction(i)
      PROVE  WalletPaysForPlans'
  <2>1. PICK state, key : Touch(i, state, key)
    BY <1>6 DEF UpdateTransaction, SoftDeleteTransaction
  <2>2. /\ tx'[i].method = tx[i].method /\ tx'[i].buyer = tx[i].buyer
        /\ tx'[i].price = tx[i].price /\ tx'[i].new = tx[i].new
        /\ \A j \in Tx \ {i} : tx'[j] = tx[j]
    BY <2>1 DEF Touch, IInv, TypeOK
  <2>3. UNCHANGED <<balance, other>>
    BY <1>6 DEF UpdateTransaction, SoftDeleteTransaction, wallets
  <2> QED
    BY <2>2, <2>3, NothingNewPaid
<1> QED
  BY <1>1, <1>2, <1>3, <1>4, <1>5, <1>6
     DEF Next, vars, wallets, StartPurchase, CheckPurchase, PurchaseFails,
         CreatePlan, UpdatePlan, RemovePlan, BlockOrUnblock

LEMMA WalletsInit == Init => PayingOK /\ WalletPaysForPlans
<1> SUFFICES ASSUME Init PROVE PayingOK /\ WalletPaysForPlans
  OBVIOUS
<1>1. PayingOK
  BY DEF Init, PayingOK, Idle
<1>2. Bought = {}
  BY DEF Init, Bought, NoTx
<1>3. ASSUME NEW b \in Buyer
      PROVE  balance[b] = other[b] - Total(Spending(b)) /\ FromWallet(b) = {}
  <2>1. FromWallet(b) = {}
    BY <1>2 DEF FromWallet
  <2>2. Spending(b) \in [Tx -> Int] /\ \A i \in Tx : Spending(b)[i] = 0
    BY <2>1 DEF Spending
  <2>3. Total(Spending(b)) = 0
    BY <2>2, SumOfNothing
  <2>4. balance[b] = 0 /\ other[b] = 0
    BY DEF Init
  <2> QED
    BY <2>1, <2>3, <2>4
<1> QED
  BY <1>1, <1>3 DEF WalletPaysForPlans

-----------------------------------------------------------------------------
(* The theorems about PlanPurchases *)

LEMMA InitOK == Init => IInv
<1> SUFFICES ASSUME Init PROVE IInv
  OBVIOUS
<1>1. Bought = {} /\ \A k \in Key : BoughtWith(k) = {} /\ InFlight(k) = {}
  BY PurchasesAssumption DEF Init, Bought, BoughtWith, InFlight, NoTx, Idle
<1>2. TypeOK
  <2>1. NoneOnSale \in PlanRow /\ NoTx \in TxRow
    BY DEF NoneOnSale, PlanRow, NoTx, TxRow
  <2>2. 0 \in 0 .. MaxChanges /\ 0 \in 0 .. Cardinality(Worker)
    BY PurchasesAssumption, FS_CardinalityType
  <2> QED
    BY <1>1, <2>1, <2>2, IdleFacts DEF Init, TypeOK
<1>3. BlankOK /\ RequestsOK /\ UntouchedOK
  BY PurchasesAssumption, IdleFacts
     DEF Init, BlankOK, RequestsOK, UntouchedOK, NoTx
<1>4. KeysOK
  BY <1>1, FS_EmptySet DEF Init, KeysOK, KeyOK
<1> QED
  BY <1>2, <1>3, <1>4 DEF IInv

LEMMA NextOK == IInv /\ [Next]_vars => IInv'
<1> SUFFICES ASSUME IInv, [Next]_vars PROVE IInv'
  OBVIOUS
<1>1. ASSUME NEW w \in Worker, StartPurchase(w)
      PROVE  IInv'
  BY <1>1, StartPurchaseKeeps
<1>2. ASSUME NEW w \in Worker, CheckPurchase(w) \/ PurchaseFails(w)
      PROVE  IInv'
  BY <1>2, CheckPurchaseKeeps
<1>3. ASSUME NEW w \in Worker, PayCash(w) \/ PayFromWallet(w)
      PROVE  IInv'
  BY <1>3, PayKeeps
<1>4. ASSUME NEW p \in Plan, CreatePlan(p) \/ UpdatePlan(p) \/ RemovePlan(p)
      PROVE  IInv'
  BY <1>4, CatalogueKeeps
<1>5. CASE CreateTransaction
  BY <1>5, CreateTransactionKeeps
<1>6. ASSUME NEW i \in Tx, UpdateTransaction(i) \/ SoftDeleteTransaction(i)
      PROVE  IInv'
  BY <1>6, TransactionEditsKeep
<1>7. ASSUME NEW b \in Buyer, WalletMoves(b) \/ BlockOrUnblock(b)
      PROVE  IInv'
  BY <1>7, WalletKeeps
<1>8. CASE UNCHANGED vars
  BY <1>8 DEF vars, catalogue, wallets, IInv, TypeOK, BlankOK, RequestsOK, UntouchedOK,
     KeysOK, KeyOK, BoughtWith, Bought, InFlight
<1> QED
  BY <1>1, <1>2, <1>3, <1>4, <1>5, <1>6, <1>7, <1>8 DEF Next

LEMMA Invariance == Spec => []IInv
BY InitOK, NextOK, PTL DEF Spec

\* Plans, transactions, wallets and requests are well typed, and no plan that was
\* bought ever leaves the catalogue: an answer to a retry can always be made.
THEOREM TypesHold == Spec => []TypeOK
<1>1. IInv => TypeOK
  BY DEF IInv
<1> QED
  BY <1>1, Invariance, PTL

\* A key buys at most as often as requests with it have overlapped, whatever is
\* edited, refused or rolled back meanwhile; a key somebody interfered with is
\* not covered.
THEOREM KeysBuyOnce == Spec => []PurchasesPerKey
<1>1. IInv => PurchasesPerKey
  <2> SUFFICES ASSUME IInv, NEW k \in Key \ touched
               PROVE  Cardinality({i \in Bought : tx[i].key = k}) <= peak[k]
    BY DEF PurchasesPerKey
  <2>1. KeyOK(k) /\ peak[k] \in 0 .. Cardinality(Worker)
    BY DEF IInv, KeysOK, TypeOK
  <2>2. Cardinality(BoughtWith(k)) <= peak[k]
    BY <2>1, Counts DEF KeyOK
  <2> QED
    BY <2>2 DEF BoughtWith
<1> QED
  BY <1>1, Invariance, PTL

LEMMA WalletInvariance == Spec => [](IInv /\ PayingOK /\ WalletPaysForPlans)
<1> DEFINE All == IInv /\ PayingOK /\ WalletPaysForPlans
<1>1. Init => All
  BY InitOK, WalletsInit
<1>2. All /\ [Next]_vars => All'
  <2> SUFFICES ASSUME All, [Next]_vars PROVE All'
    OBVIOUS
  <2>1. IInv'
    BY NextOK
  <2>2. TypeOK'
    BY <2>1 DEF IInv
  <2>3. PayingOK'
    BY PayingKept
  <2>4. WalletPaysForPlans'
    BY <2>2, WalletKept
  <2> QED
    BY <2>1, <2>3, <2>4
<1> QED
  BY <1>1, <1>2, PTL DEF Spec

\* What a buyer's wallet has lost apart from other movements is what the plans paid
\* from it cost, sale by sale: no purchase is charged twice or without being recorded,
\* however requests, edits of the catalogue and rollbacks overlap, and every sale
\* from a wallet was paid out of a balance that covered it.
THEOREM WalletsPay == Spec => []WalletPaysForPlans
BY WalletInvariance, PTL

-----------------------------------------------------------------------------
(* Rows, rate cards and fares *)

\* A policy over which a fitting patch was written is a policy.
LEMMA PatchedPolicy ==
  ASSUME NEW row \in PolicyRow, NEW patch, Fits(patch, PolicyColumns)
  PROVE  /\ Patched(row, patch) \in PolicyRow
         /\ Patched(row, patch).status = row.status
         /\ "city" \in DOMAIN patch => Patched(row, patch).city = patch.city
         /\ "zone" \in DOMAIN patch => Patched(row, patch).zone = patch.zone
<1> DEFINE new == Patched(row, patch)
<1>1. DOMAIN row = {"status", "created", "scope", "active", "priority", "city", "zone",
                    "from", "to", "tz", "cond", "price"}
  BY DEF PolicyRow
<1>2. /\ new = [c \in DOMAIN row |-> new[c]]
      /\ DOMAIN new = DOMAIN row
      /\ \A c \in DOMAIN row : new[c] = IF c \in DOMAIN patch THEN patch[c] ELSE row[c]
  BY DEF Patched
<1>3. /\ "status" \notin DOMAIN patch /\ "created" \notin DOMAIN patch
      /\ "scope" \in DOMAIN patch => patch["scope"] \in Scopes
      /\ "active" \in DOMAIN patch => patch["active"] \in BOOLEAN
      /\ "priority" \in DOMAIN patch => patch["priority"] \in Int
      /\ "city" \in DOMAIN patch => patch["city"] \in City \cup {NoCity}
      /\ "zone" \in DOMAIN patch => patch["zone"] \in Zone \cup {NoZone}
      /\ "from" \in DOMAIN patch => patch["from"] \in Int
      /\ "to" \in DOMAIN patch => patch["to"] \in Int
      /\ "tz" \in DOMAIN patch => patch["tz"] \in DOMAIN Offset \cup {NoTz}
      /\ "cond" \in DOMAIN patch => patch["cond"] \in Conditions
      /\ "price" \in DOMAIN patch => patch["price"] \in PriceTerms
  BY DEF Fits, PolicyColumns
<1>4. /\ row.status \in Statuses /\ row.created \in Created /\ row.scope \in Scopes
      /\ row.active \in BOOLEAN /\ row.priority \in Int /\ row.city \in City \cup {NoCity}
      /\ row.zone \in Zone \cup {NoZone} /\ row.from \in Int /\ row.to \in Int
      /\ row.tz \in DOMAIN Offset \cup {NoTz} /\ row.cond \in Conditions
      /\ row.price \in PriceTerms
  BY DEF PolicyRow
<1> HIDE DEF new
<1>5. /\ new["status"] = row["status"] /\ new["created"] = row["created"]
      /\ new["scope"] \in Scopes /\ new["active"] \in BOOLEAN /\ new["priority"] \in Int
      /\ new["city"] \in City \cup {NoCity} /\ new["zone"] \in Zone \cup {NoZone}
      /\ new["from"] \in Int /\ new["to"] \in Int
      /\ new["tz"] \in DOMAIN Offset \cup {NoTz} /\ new["cond"] \in Conditions
      /\ new["price"] \in PriceTerms
  BY <1>1, <1>2, <1>3, <1>4
<1>6. new \in PolicyRow
  BY <1>1, <1>2, <1>4, <1>5 DEF PolicyRow
<1>7. /\ "city" \in DOMAIN patch => new.city = patch.city
      /\ "zone" \in DOMAIN patch => new.zone = patch.zone
  BY <1>1, <1>2
<1> QED
  BY <1>5, <1>6, <1>7 DEF new

\* The same of a vehicle type.
LEMMA PatchedType ==
  ASSUME NEW row \in TypeRow, NEW patch, Fits(patch, TypeColumns)
  PROVE  Patched(row, patch) \in TypeRow
<1> DEFINE new == Patched(row, patch)
<1>1. DOMAIN row = {"status", "created", "active", "classes", "rates"}
  BY DEF TypeRow
<1>2. /\ new = [c \in DOMAIN row |-> new[c]]
      /\ DOMAIN new = DOMAIN row
      /\ \A c \in DOMAIN row : new[c] = IF c \in DOMAIN patch THEN patch[c] ELSE row[c]
  BY DEF Patched
<1>3. /\ "status" \notin DOMAIN patch /\ "created" \notin DOMAIN patch
      /\ "active" \in DOMAIN patch => patch["active"] \in BOOLEAN
      /\ "classes" \in DOMAIN patch => patch["classes"] \in SUBSET ServiceClass
      /\ "rates" \in DOMAIN patch => patch["rates"] \in Multipliers
  BY DEF Fits, TypeColumns
<1>4. /\ row.status \in Statuses /\ row.created \in Created /\ row.active \in BOOLEAN
      /\ row.classes \in SUBSET ServiceClass /\ row.rates \in Multipliers
  BY DEF TypeRow
<1> HIDE DEF new
<1>5. /\ new["status"] = row["status"] /\ new["created"] = row["created"]
      /\ new["active"] \in BOOLEAN /\ new["classes"] \in SUBSET ServiceClass
      /\ new["rates"] \in Multipliers
  BY <1>1, <1>2, <1>3, <1>4
<1>6. new \in TypeRow
  BY <1>1, <1>2, <1>4, <1>5 DEF TypeRow
<1> QED
  BY <1>6 DEF new

LEMMA FactorTyped == \A n \in Nat : FactorFromPolicy(n) \in Nat
BY DEF FactorFromPolicy

LEMMA RateCardTyped ==
  ASSUME NEW p \in Policy, policies[p] \in PolicyRow, NEW tz \in DOMAIN Offset
  PROVE  RateCard(p, tz) \in Card /\ RateCard(p, tz).policy = p
<1> DEFINE price == policies[p].price
<1>1. /\ price.base \in Nat /\ price.perKm \in Nat /\ price.perMin \in Nat
      /\ price.min \in Nat /\ price.fees \in Nat /\ price.cap \in Nat \cup {NoCap}
      /\ policies[p].scope \in Scopes
  BY DEF PolicyRow, PriceTerms
<1>2. /\ FactorFromPolicy(price.base) \in Nat /\ FactorFromPolicy(price.perKm) \in Nat
      /\ FactorFromPolicy(price.perMin) \in Nat /\ FactorFromPolicy(price.min) \in Nat
  BY <1>1, FactorTyped
<1> QED
  BY <1>1, <1>2 DEF RateCard, Card

LEMMA Products == \A a, b, c, d \in Int : a * b \in Int /\ a * b * c \in Int /\ a * b * c * d \in Int
<1>1. \A a, b \in Int : a * b \in Int
  OBVIOUS
<1> QED
  BY <1>1

\* Extras come on top of the capped fare, and the fare without them is at most the cap.
LEMMA FareTyped ==
  ASSUME NEW rates \in Multipliers, NEW mult \in Multipliers, NEW card \in Card,
         NEW km \in Nat, NEW min \in Nat, NEW extras \in Nat
  PROVE  /\ ComputeFare(rates, mult, card, km, min, extras) \in Int
         /\ ComputeFare(rates, mult, card, km, min, 0) \in Int
         /\ ComputeFare(rates, mult, card, km, min, extras)
              = ComputeFare(rates, mult, card, km, min, 0) + extras * Unit
         /\ card.cap # NoCap =>
              ComputeFare(rates, mult, card, km, min, 0) <= card.cap * Unit
<1> DEFINE A == rates.base * mult.base * card.base
           B == rates.perKm * mult.perKm * card.perKm * km
           C == rates.perMin * mult.perMin * card.perMin * min
           D == card.fees * Unit
           M == rates.min * mult.min * card.min
           top == card.cap * Unit
           subtotal == A + B + C + D
           totalBase == Larger(subtotal, M)
           capped == IF card.cap = NoCap THEN totalBase ELSE Smaller(totalBase, top)
<1>1. /\ rates.base \in Int /\ rates.perKm \in Int /\ rates.perMin \in Int /\ rates.min \in Int
      /\ mult.base \in Int /\ mult.perKm \in Int /\ mult.perMin \in Int /\ mult.min \in Int
  BY DEF Multipliers
<1>2. /\ card.base \in Nat /\ card.perKm \in Nat /\ card.perMin \in Nat /\ card.min \in Nat
      /\ card.fees \in Nat /\ card.cap \in Nat \cup {NoCap}
  BY DEF Card
<1>3. A \in Int /\ B \in Int /\ C \in Int /\ M \in Int
  BY <1>1, <1>2, Products
<1>4. D \in Nat /\ extras * Unit \in Nat /\ (card.cap # NoCap => top \in Nat)
  BY <1>2 DEF Unit
<1>5. \A e : ComputeFare(rates, mult, card, km, min, e) = capped + e * Unit
  BY DEF ComputeFare
<1> HIDE DEF A, B, C, D, M, top
<1>6. totalBase \in Int
  BY <1>3, <1>4 DEF Larger
<1>7. capped \in Int /\ (card.cap # NoCap => capped <= top)
  BY <1>4, <1>6 DEF Smaller
<1> HIDE DEF capped
<1>8. 0 * Unit = 0
  BY DEF Unit
<1> QED
  BY <1>4, <1>5, <1>7, <1>8 DEF top

\* A live row is a row of its table.
LEMMA LiveRows ==
  ASSUME PricesTyped
  PROVE  /\ \A p \in Policy : Live(policies, p) => policies[p] \in PolicyRow
         /\ \A c \in City : Live(cities, c) => cities[c] \in CityRow
         /\ \A z \in Zone : Live(zones, z) => zones[z] \in ZoneRow
         /\ \A v \in VehicleType : Live(types, v) => types[v] \in TypeRow
         /\ \A c \in ServiceClass : Live(classes, c) => classes[c] \in ClassRow
BY DEF PricesTyped, TablesTyped, Live, Absent

\* A trip is written, and its amounts are right.
LEMMA TripMoves ==
  ASSUME PricingInv, NEW t \in Trip, NEW n \in TripRow, trip' = [trip EXCEPT ![t] = n],
         n.phase \in {"open", "done"} => Live(policies, n.card.policy),
         FareOK(t, n), UNCHANGED <<tables, edit, now, edits>>
  PROVE  PricingInv'
<1>1. trip \in [Trip -> TripRow]
  BY DEF PricingInv, PricesTyped
<1>2. trip' \in [Trip -> TripRow] /\ trip'[t] = n /\ \A s \in Trip \ {t} : trip'[s] = trip[s]
  BY <1>1
<1>3. \A s \in Trip : trip'[s].phase \in {"open", "done"} => Live(policies, trip'[s].card.policy)
  BY <1>2 DEF PricingInv, PricesTyped
<1>4. PricesTyped'
  BY <1>2, <1>3 DEF PricingInv, PricesTyped, tables, Live
<1>5. EditsOK'
  BY DEF PricingInv, EditsOK, EditOK, tables, Live
<1>6. FaresOK'
  BY <1>2 DEF PricingInv, FaresOK
<1> QED
  BY <1>4, <1>5, <1>6 DEF PricingInv

LEMMA QuoteRatesKeeps ==
  ASSUME PricingInv, NEW t \in Trip, QuoteRates(t)
  PROVE  PricingInv'
<1>1. PICK v \in EligibleTypes(Asked[t]) :
        trip' = [trip EXCEPT ![t] =
          [phase |-> "rated",
           quote |-> [at |-> now, type |-> v, rates |-> types[v].rates,
                      mult |-> classes[Asked[t]].mult]]]
  BY DEF QuoteRates
<1>2. v \in VehicleType /\ Live(types, v)
  BY DEF EligibleTypes
<1>3. Asked[t] \in ServiceClass /\ Live(classes, Asked[t])
  BY PricingAssumption DEF QuoteRates
<1>4. types[v].rates \in Multipliers /\ classes[Asked[t]].mult \in Multipliers
  BY <1>2, <1>3, LiveRows DEF PricingInv, TypeRow, ClassRow
<1>5. now \in Moments
  BY DEF PricingInv, PricesTyped
<1> DEFINE q == [at |-> now, type |-> v, rates |-> types[v].rates,
                 mult |-> classes[Asked[t]].mult]
           n == [phase |-> "rated", quote |-> q]
<1>6. q \in Quote
  BY <1>2, <1>4, <1>5 DEF Quote
<1> HIDE DEF q
<1>7. n \in TripRow /\ n.phase = "rated"
  BY <1>6 DEF TripRow
<1>8. trip' = [trip EXCEPT ![t] = n]
  BY <1>1 DEF q
<1> HIDE DEF n
<1>9. FareOK(t, n)
  BY <1>7 DEF FareOK
<1>10. UNCHANGED <<tables, edit, now, edits>>
  BY DEF QuoteRates
<1> QED
  BY <1>7, <1>8, <1>9, <1>10, TripMoves

\* What a trip has once it has reached a phase.
LEMMA TripFacts ==
  ASSUME PricingInv, NEW t \in Trip
  PROVE  /\ trip[t].phase \in {"new", "rated", "placed", "open", "done"}
         /\ trip[t].phase # "new" => trip[t].quote \in Quote
         /\ trip[t].phase \in {"placed", "open", "done"} => trip[t].place \in Place
         /\ trip[t].phase \in {"open", "done"} => trip[t].card \in Card /\ trip[t].est \in Int
         /\ trip[t].phase = "done" => trip[t].bill \in BillRow /\ trip[t].total \in Int
<1>1. trip[t] \in TripRow
  BY DEF PricingInv, PricesTyped
<1> QED
  BY <1>1 DEF TripRow, NewTrip

LEMMA QuoteContextKeeps ==
  ASSUME PricingInv, NEW t \in Trip, QuoteContext(t)
  PROVE  PricingInv'
<1>1. PICK c \in OrNone(ResolveCity(t), NoCity) :
        \E z \in (IF c = NoCity THEN {NoZone} ELSE OrNone(ResolveZone(t, c), NoZone)) :
          trip' = [trip EXCEPT ![t] =
            [phase |-> "placed", quote |-> trip[t].quote,
             place |-> [city |-> c, zone |-> z,
                        tz |-> IF c = NoCity THEN UTC ELSE cities[c].tz]]]
  BY DEF QuoteContext
<1>2. PICK z \in (IF c = NoCity THEN {NoZone} ELSE OrNone(ResolveZone(t, c), NoZone)) :
        trip' = [trip EXCEPT ![t] =
          [phase |-> "placed", quote |-> trip[t].quote,
           place |-> [city |-> c, zone |-> z,
                      tz |-> IF c = NoCity THEN UTC ELSE cities[c].tz]]]
  BY <1>1
<1>3. /\ c \in City \cup {NoCity} /\ z \in Zone \cup {NoZone}
      /\ c # NoCity => c \in City /\ Live(cities, c)
  BY DEF OrNone, ResolveCity, ResolveZone
<1>4. c # NoCity => cities[c].tz \in DOMAIN Offset
  BY <1>3, LiveRows DEF PricingInv, CityRow
<1>5. trip[t].quote \in Quote
  BY TripFacts DEF QuoteContext
<1> DEFINE l == [city |-> c, zone |-> z, tz |-> IF c = NoCity THEN UTC ELSE cities[c].tz]
           n == [phase |-> "placed", quote |-> trip[t].quote, place |-> l]
<1>6. l \in Place
  BY <1>3, <1>4, PricingAssumption DEF Place
<1> HIDE DEF l
<1>7. n \in TripRow /\ n.phase = "placed"
  BY <1>5, <1>6 DEF TripRow
<1>8. trip' = [trip EXCEPT ![t] = n]
  BY <1>2 DEF l
<1> HIDE DEF n
<1>9. FareOK(t, n)
  BY <1>7 DEF FareOK
<1>10. UNCHANGED <<tables, edit, now, edits>>
  BY DEF QuoteContext
<1> QED
  BY <1>7, <1>8, <1>9, <1>10, TripMoves

LEMMA QuotePolicyKeeps ==
  ASSUME PricingInv, NEW t \in Trip, QuotePolicy(t)
  PROVE  PricingInv'
<1> DEFINE q == trip[t].quote
           l == trip[t].place
<1>1. PICK p \in PoliciesFor(q.at, l) :
        trip' = [trip EXCEPT ![t] =
          [phase |-> "open", quote |-> q, place |-> l,
           card |-> RateCard(p, ZoneUsed(policies[p], l.tz)),
           est |-> ComputeFare(q.rates, q.mult, RateCard(p, ZoneUsed(policies[p], l.tz)),
                               Route[t].km, Route[t].min, 0)]]
  BY DEF QuotePolicy
<1>2. q \in Quote /\ l \in Place
  BY TripFacts DEF QuotePolicy
<1> HIDE DEF q, l
<1>3. p \in Policy /\ Live(policies, p)
  BY DEF PoliciesFor, ResolveApplicablePolicy, Candidates
<1>4. policies[p] \in PolicyRow
  BY <1>3, LiveRows DEF PricingInv
<1> DEFINE tz == ZoneUsed(policies[p], l.tz)
           card == RateCard(p, tz)
           est == ComputeFare(q.rates, q.mult, card, Route[t].km, Route[t].min, 0)
           n == [phase |-> "open", quote |-> q, place |-> l, card |-> card, est |-> est]
<1>5. tz \in DOMAIN Offset
  <2>1. policies[p].tz \in DOMAIN Offset \cup {NoTz} /\ l.tz \in DOMAIN Offset
    BY <1>2, <1>4 DEF PolicyRow, Place
  <2> QED
    BY <2>1, PricingAssumption DEF ZoneUsed
<1> HIDE DEF tz
<1>6. card \in Card /\ card.policy = p
  BY <1>3, <1>4, <1>5, RateCardTyped
<1> HIDE DEF card
<1>7. q.rates \in Multipliers /\ q.mult \in Multipliers
  BY <1>2 DEF Quote
<1>8. Route[t].km \in Nat /\ Route[t].min \in Nat
  BY PricingAssumption
<1>9. est \in Int
  BY <1>6, <1>7, <1>8, FareTyped
<1>10. /\ n \in TripRow /\ n.phase = "open" /\ n.card = card /\ n.quote = q
       /\ n.est = ComputeFare(q.rates, q.mult, card, Route[t].km, Route[t].min, 0)
  <2> HIDE DEF est
  <2>1. n \in TripRow /\ n.phase = "open" /\ n.card = card /\ n.quote = q /\ n.est = est
    BY <1>2, <1>6, <1>9 DEF TripRow
  <2> QED
    BY <2>1 DEF est
<1>11. trip' = [trip EXCEPT ![t] = n]
  BY <1>1 DEF card, tz
<1> HIDE DEF n
<1>12. FareOK(t, n)
  BY <1>10 DEF FareOK
<1>13. UNCHANGED <<tables, edit, now, edits>>
  BY DEF QuotePolicy
<1> QED
  BY <1>3, <1>6, <1>10, <1>11, <1>12, <1>13, TripMoves

LEMMA QuoteRefusedKeeps ==
  ASSUME PricingInv, NEW t \in Trip, QuoteRefused(t)
  PROVE  PricingInv'
<1>1. NewTrip \in TripRow /\ NewTrip.phase = "new" /\ FareOK(t, NewTrip)
  BY DEF TripRow, NewTrip, FareOK
<1>2. trip' = [trip EXCEPT ![t] = NewTrip] /\ UNCHANGED <<tables, edit, now, edits>>
  BY DEF QuoteRefused
<1> QED
  BY <1>1, <1>2, TripMoves

LEMMA CompleteKeeps ==
  ASSUME PricingInv, NEW t \in Trip, Complete(t)
  PROVE  PricingInv'
<1>1. PICK v \in FinalType(t), extras \in Extras, longer \in 0 .. 1 :
        trip' = [trip EXCEPT ![t] = Charged(t, Bill(t, v, extras, longer), CardOf(t))]
  BY DEF Complete
<1>2. trip[t].phase = "open" /\ UNCHANGED <<tables, edit, now, edits>>
  BY DEF Complete
<1> DEFINE bill == Bill(t, v, extras, longer)
           card == trip[t].card
           total == ComputeFare(bill.rates, bill.mult, card, bill.km, bill.min, bill.extras)
           n == [phase |-> "done", quote |-> trip[t].quote, place |-> trip[t].place,
                 card |-> card, est |-> trip[t].est, bill |-> bill, total |-> total]
<1>3. /\ trip[t].quote \in Quote /\ trip[t].place \in Place /\ card \in Card
      /\ trip[t].est \in Int
  BY <1>2, TripFacts
<1>4. Live(policies, card.policy)
        /\ trip[t].est = ComputeFare(trip[t].quote.rates, trip[t].quote.mult, card,
                                     Route[t].km, Route[t].min, 0)
  BY <1>2 DEF PricingInv, PricesTyped, FaresOK, FareOK
<1>5. bill \in BillRow /\ bill.min = Route[t].min
  <2>1. v \in VehicleType /\ Live(types, v)
    BY DEF FinalType
  <2>2. types[v].rates \in Multipliers
    BY <2>1, LiveRows DEF PricingInv, TypeRow
  <2>3. FinalMultipliers(t) \in Multipliers
    <3>1. Live(classes, Asked[t]) => classes[Asked[t]].mult \in Multipliers
      BY LiveRows, PricingAssumption DEF PricingInv, ClassRow
    <3>2. DefaultMultipliers \in Multipliers
      BY DEF DefaultMultipliers, Multipliers
    <3> QED
      BY <3>1, <3>2 DEF FinalMultipliers
  <2>4. Route[t].km + longer \in Nat /\ Route[t].min \in Nat /\ extras \in Nat
    BY PricingAssumption
  <2> QED
    BY <2>2, <2>3, <2>4 DEF Bill, BillRow
<1> HIDE DEF bill, card
<1>6. total \in Int
  <2>1. /\ bill.rates \in Multipliers /\ bill.mult \in Multipliers /\ bill.km \in Nat
        /\ bill.min \in Nat /\ bill.extras \in Nat
    BY <1>5 DEF BillRow
  <2> QED
    BY <1>3, <2>1, FareTyped
<1>7. /\ n \in TripRow /\ n.phase = "done" /\ n.card = card /\ n.bill = bill
      /\ n.quote = trip[t].quote /\ n.est = trip[t].est
      /\ n.total = ComputeFare(bill.rates, bill.mult, card, bill.km, bill.min, bill.extras)
  <2> HIDE DEF total
  <2>1. /\ n \in TripRow /\ n.phase = "done" /\ n.card = card /\ n.bill = bill
        /\ n.quote = trip[t].quote /\ n.est = trip[t].est /\ n.total = total
    BY <1>3, <1>5, <1>6 DEF TripRow
  <2> QED
    BY <2>1 DEF total
<1>8. trip' = [trip EXCEPT ![t] = n]
  BY <1>1 DEF Charged, CardOf, bill, card
<1> HIDE DEF n
<1>9. FareOK(t, n)
  BY <1>4, <1>5, <1>7 DEF FareOK
<1> QED
  BY <1>2, <1>4, <1>7, <1>8, <1>9, TripMoves

\* The tables change, nothing that was live goes out of the tables of policies and
\* places, and what an administrator has read stays as it was.
LEMMA TablesChange ==
  ASSUME PricingInv,
         TablesTyped(policies', cities', zones', types', classes'),
         PoliciesSound(policies', cities', zones'),
         \A p \in Policy : Live(policies, p) => Live(policies', p),
         edit' = [a \in Admin |-> edit'[a]],
         \A a \in Admin : edit'[a] = edit[a] \/ EditOK(edit'[a], policies'),
         edits' \in 0 .. MaxEdits, UNCHANGED <<trip, now>>
  PROVE  PricingInv'
<1>1. PricesTyped /\ EditsOK /\ FaresOK
  BY DEF PricingInv
<1>2. \A t \in Trip : trip[t].phase \in {"open", "done"} => trip[t].card.policy \in Policy
  <2> SUFFICES ASSUME NEW t \in Trip, trip[t].phase \in {"open", "done"}
               PROVE  trip[t].card.policy \in Policy
    OBVIOUS
  <2>1. trip[t].card \in Card
    BY TripFacts
  <2> QED
    BY <2>1 DEF Card
<1>3. PricesTyped'
  BY <1>1, <1>2 DEF PricesTyped
<1>4. EditsOK'
  <2> SUFFICES ASSUME NEW a \in Admin PROVE EditOK(edit'[a], policies')
    BY DEF EditsOK
  <2>1. CASE edit'[a] = edit[a]
    BY <1>1, <2>1 DEF EditsOK, EditOK
  <2> QED
    BY <2>1
<1>5. FaresOK'
  BY <1>1 DEF FaresOK
<1> QED
  BY <1>3, <1>4, <1>5 DEF PricingInv

\* What an edit that is over leaves.
LEMMA EditOver ==
  ASSUME EditsOK, NEW a \in Admin, edit' = [edit EXCEPT ![a] = [kind |-> "none"]]
  PROVE  /\ edit' = [b \in Admin |-> edit'[b]]
         /\ \A b \in Admin : edit'[b] = edit[b] \/ EditOK(edit'[b], policies')
<1>1. edit' = [b \in Admin |-> edit'[b]] /\ edit'[a] = [kind |-> "none"]
        /\ \A b \in Admin \ {a} : edit'[b] = edit[b]
  BY DEF EditsOK
<1>2. EditOK(edit'[a], policies')
  BY <1>1 DEF EditOK
<1> QED
  BY <1>1, <1>2

LEMMA Edits ==
  ASSUME PricingInv, MayEdit
  PROVE  edits' \in 0 .. MaxEdits /\ edits + 1 \in Created
BY PricingAssumption DEF PricingInv, PricesTyped, MayEdit, Created

LEMMA NewRows ==
  ASSUME PricingInv, MayEdit
  PROVE  /\ \A r \in PolicyRow :
              /\ Row(r) \in PolicyRow /\ Row(r).status = "live"
              /\ Row(r).scope = r.scope /\ Row(r).city = r.city /\ Row(r).zone = r.zone
              /\ Row(r).from = r.from /\ Row(r).to = r.to
         /\ \A r \in CityRow : Row(r) \in CityRow /\ Row(r).status = "live"
         /\ \A r \in ZoneRow : Row(r) \in ZoneRow /\ Row(r).status = "live"
         /\ \A r \in TypeRow : Row(r) \in TypeRow /\ Row(r).status = "live"
         /\ \A r \in ClassRow : Row(r) \in ClassRow /\ Row(r).status = "live"
<1>1. edits + 1 \in Created /\ "live" \in Statuses
  BY Edits DEF Statuses
<1>2. ASSUME NEW r \in PolicyRow
      PROVE  /\ Row(r) \in PolicyRow /\ Row(r).status = "live"
             /\ Row(r).scope = r.scope /\ Row(r).city = r.city /\ Row(r).zone = r.zone
             /\ Row(r).from = r.from /\ Row(r).to = r.to
  BY <1>1 DEF Row, PolicyRow
<1>3. ASSUME NEW r \in CityRow
      PROVE  Row(r) \in CityRow /\ Row(r).status = "live"
  BY <1>1 DEF Row, CityRow
<1>4. ASSUME NEW r \in ZoneRow
      PROVE  Row(r) \in ZoneRow /\ Row(r).status = "live"
  BY <1>1 DEF Row, ZoneRow
<1>5. ASSUME NEW r \in TypeRow
      PROVE  Row(r) \in TypeRow /\ Row(r).status = "live"
  BY <1>1 DEF Row, TypeRow
<1>6. ASSUME NEW r \in ClassRow
      PROVE  Row(r) \in ClassRow /\ Row(r).status = "live"
  BY <1>1 DEF Row, ClassRow
<1> QED
  BY <1>2, <1>3, <1>4, <1>5, <1>6

\* A policy is written that its constraints allow.
LEMMA PolicyWritten ==
  ASSUME PricingInv, NEW p \in Policy, NEW row \in PolicyRow, row.status = "live",
         Coherent(row), Windowed(row), PlaceExists(row, cities, zones),
         policies' = [policies EXCEPT ![p] = row],
         edit' = [a \in Admin |-> edit'[a]],
         \A a \in Admin : edit'[a] = edit[a] \/ EditOK(edit'[a], policies'),
         edits' \in 0 .. MaxEdits, UNCHANGED <<cities, zones, types, classes, trip, now>>
  PROVE  PricingInv'
<1>1. PricesTyped
  BY DEF PricingInv
<1>2. /\ policies' \in [Policy -> PolicyRow \cup {Absent}]
      /\ policies'[p] = row /\ \A q \in Policy \ {p} : policies'[q] = policies[q]
  BY <1>1 DEF PricesTyped, TablesTyped
<1>3. TablesTyped(policies', cities', zones', types', classes')
  BY <1>1, <1>2 DEF PricesTyped, TablesTyped
<1>4. PoliciesSound(policies', cities', zones')
  BY <1>1, <1>2 DEF PricesTyped, PoliciesSound, Live
<1>5. \A q \in Policy : Live(policies, q) => Live(policies', q)
  BY <1>2 DEF Live
<1> QED
  BY <1>3, <1>4, <1>5, TablesChange

LEMMA CreatePolicyKeeps ==
  ASSUME PricingInv, NEW p \in Policy, NEW r \in PolicyRows, CreatePolicy(p, r)
  PROVE  PricingInv'
<1>1. MayEdit /\ Coherent(r) /\ Windowed(r) /\ PlaceExists(r, cities, zones)
        /\ policies' = [policies EXCEPT ![p] = Row(r)]
        /\ UNCHANGED <<cities, zones, types, classes, trip, edit, now>>
  BY DEF CreatePolicy
<1>2. r \in PolicyRow
  BY PricingAssumption
<1> DEFINE row == Row(r)
<1>3. /\ row \in PolicyRow /\ row.status = "live"
      /\ row.scope = r.scope /\ row.city = r.city /\ row.zone = r.zone
      /\ row.from = r.from /\ row.to = r.to
  BY <1>1, <1>2, NewRows
<1>4. policies' = [policies EXCEPT ![p] = row]
  BY <1>1
<1> HIDE DEF row
<1>5. Coherent(row) /\ Windowed(row) /\ PlaceExists(row, cities, zones)
  BY <1>1, <1>3 DEF Coherent, Windowed, PlaceExists
<1>6. edits' \in 0 .. MaxEdits
  BY <1>1, Edits
<1>7. edit' = [a \in Admin |-> edit'[a]] /\ \A a \in Admin : edit'[a] = edit[a]
  BY <1>1 DEF PricingInv, EditsOK
<1> QED
  BY <1>1, <1>3, <1>4, <1>5, <1>6, <1>7, PolicyWritten

LEMMA SetPolicyActiveKeeps ==
  ASSUME PricingInv, NEW p \in Policy, NEW b \in BOOLEAN, SetPolicyActive(p, b)
  PROVE  PricingInv'
<1> DEFINE row == [policies[p] EXCEPT !.active = b]
<1>1. MayEdit /\ Live(policies, p) /\ policies' = [policies EXCEPT ![p] = row]
        /\ UNCHANGED <<cities, zones, types, classes, trip, edit, now>>
  BY DEF SetPolicyActive
<1>2. policies[p] \in PolicyRow
  BY <1>1, LiveRows DEF PricingInv
<1>3. /\ row \in PolicyRow /\ row.status = policies[p].status
      /\ row.scope = policies[p].scope /\ row.city = policies[p].city
      /\ row.zone = policies[p].zone /\ row.from = policies[p].from /\ row.to = policies[p].to
  BY <1>2 DEF PolicyRow
<1> HIDE DEF row
<1>4. /\ Coherent(policies[p]) /\ Windowed(policies[p])
      /\ PlaceExists(policies[p], cities, zones)
  BY <1>1 DEF PricingInv, PricesTyped, PoliciesSound
<1>5. Coherent(row) /\ Windowed(row) /\ PlaceExists(row, cities, zones)
  BY <1>3, <1>4 DEF Coherent, Windowed, PlaceExists
<1>6. edits' \in 0 .. MaxEdits
  BY <1>1, Edits
<1>7. edit' = [a \in Admin |-> edit'[a]] /\ \A a \in Admin : edit'[a] = edit[a]
  BY <1>1 DEF PricingInv, EditsOK
<1>8. row.status = "live"
  BY <1>1, <1>3 DEF Live
<1> QED
  BY <1>1, <1>3, <1>5, <1>6, <1>7, <1>8, PolicyWritten

\* An administrator has read a row, and keeps what is to be written.
LEMMA EditRead ==
  ASSUME PricingInv, MayEdit, NEW a \in Admin, NEW e, EditOK(e, policies),
         edit' = [edit EXCEPT ![a] = e], UNCHANGED <<tables, trip, now>>
  PROVE  PricingInv'
<1>1. edits' \in 0 .. MaxEdits
  BY Edits
<1>2. PricesTyped'
  BY <1>1 DEF PricingInv, PricesTyped, tables
<1>3. EditsOK'
  BY DEF PricingInv, EditsOK, EditOK, tables
<1>4. FaresOK'
  BY DEF PricingInv, FaresOK
<1> QED
  BY <1>2, <1>3, <1>4 DEF PricingInv

LEMMA EditPolicyReadKeeps ==
  ASSUME PricingInv, NEW a \in Admin, NEW p \in Policy, NEW patch \in PolicyPatches,
         EditPolicyRead(a, p, patch)
  PROVE  PricingInv'
<1> DEFINE merged == Patched(policies[p], patch)
           columns == [c \in DOMAIN patch \cup {"city", "zone"} |-> merged[c]]
           e == [kind |-> "policy", id |-> p, columns |-> columns]
<1>1. MayEdit /\ Live(policies, p) /\ edit' = [edit EXCEPT ![a] = e]
        /\ UNCHANGED <<tables, trip, now>>
  BY DEF EditPolicyRead
<1>2. policies[p] \in PolicyRow /\ Fits(patch, PolicyColumns)
  BY <1>1, LiveRows, PricingAssumption DEF PricingInv
<1>3. merged \in PolicyRow
  BY <1>2, PatchedPolicy
<1>4. Fits(columns, PolicyColumns)
  <2> SUFFICES ASSUME NEW c \in DOMAIN columns
               PROVE  c \in DOMAIN PolicyColumns /\ columns[c] \in PolicyColumns[c]
    BY DEF Fits
  <2>1. c \in DOMAIN PolicyColumns
    BY <1>2 DEF Fits, PolicyColumns
  <2>2. columns[c] = merged[c]
    OBVIOUS
  <2> HIDE DEF merged
  <2>3. /\ merged["scope"] \in Scopes /\ merged["active"] \in BOOLEAN
        /\ merged["priority"] \in Int /\ merged["city"] \in City \cup {NoCity}
        /\ merged["zone"] \in Zone \cup {NoZone} /\ merged["from"] \in Int
        /\ merged["to"] \in Int /\ merged["tz"] \in DOMAIN Offset \cup {NoTz}
        /\ merged["cond"] \in Conditions /\ merged["price"] \in PriceTerms
    BY <1>3 DEF PolicyRow
  <2>4. merged[c] \in PolicyColumns[c]
    BY <2>1, <2>3 DEF PolicyColumns
  <2> QED
    BY <2>1, <2>2, <2>4
<1>5. "city" \in DOMAIN columns /\ "zone" \in DOMAIN columns
  OBVIOUS
<1> HIDE DEF columns
<1>6. EditOK(e, policies)
  BY <1>1, <1>4, <1>5 DEF EditOK
<1> HIDE DEF e
<1> QED
  BY <1>1, <1>6, EditRead

LEMMA EditPolicyWriteKeeps ==
  ASSUME PricingInv, NEW a \in Admin, EditPolicyWrite(a)
  PROVE  PricingInv'
<1> DEFINE e == edit[a]
           row == Patched(policies[e.id], e.columns)
<1>1. /\ e.kind = "policy"
      /\ policies' = IF PlaceExists(e.columns, cities, zones) /\ Allowed(row)
                     THEN [policies EXCEPT ![e.id] = row] ELSE policies
      /\ edit' = [edit EXCEPT ![a] = [kind |-> "none"]]
      /\ UNCHANGED <<cities, zones, types, classes, trip, now, edits>>
  BY DEF EditPolicyWrite
<1>2. /\ e.id \in Policy /\ Live(policies, e.id) /\ Fits(e.columns, PolicyColumns)
      /\ "city" \in DOMAIN e.columns /\ "zone" \in DOMAIN e.columns
  BY <1>1 DEF PricingInv, EditsOK, EditOK
<1> HIDE DEF e
<1>3. policies[e.id] \in PolicyRow
  BY <1>2, LiveRows DEF PricingInv
<1>4. /\ row \in PolicyRow /\ row.status = policies[e.id].status
      /\ row.city = e.columns.city /\ row.zone = e.columns.zone
  BY <1>2, <1>3, PatchedPolicy
<1> HIDE DEF row
<1>5. row.status = "live"
  BY <1>2, <1>4 DEF Live
<1>6. /\ edit' = [b \in Admin |-> edit'[b]]
      /\ \A b \in Admin : edit'[b] = edit[b] \/ EditOK(edit'[b], policies')
  BY <1>1, EditOver DEF PricingInv
<1>7. edits' \in 0 .. MaxEdits
  BY <1>1 DEF PricingInv, PricesTyped
<1>8. CASE PlaceExists(e.columns, cities, zones) /\ Allowed(row)
  <2>1. Coherent(row) /\ Windowed(row) /\ PlaceExists(row, cities, zones)
    BY <1>4, <1>8 DEF Allowed, PlaceExists
  <2>2. policies' = [policies EXCEPT ![e.id] = row]
    BY <1>1, <1>8
  <2> QED
    BY <1>1, <1>2, <1>4, <1>5, <1>6, <1>7, <2>1, <2>2, PolicyWritten
<1>9. CASE ~(PlaceExists(e.columns, cities, zones) /\ Allowed(row))
  <2>1. policies' = policies
    BY <1>1, <1>9
  <2>2. /\ TablesTyped(policies', cities', zones', types', classes')
        /\ PoliciesSound(policies', cities', zones')
    BY <1>1, <2>1 DEF PricingInv, PricesTyped
  <2> QED
    BY <1>1, <1>6, <1>7, <2>1, <2>2, TablesChange
<1> QED
  BY <1>8, <1>9

LEMMA WritePlaceKeeps ==
  ASSUME PricingInv,
         \/ \E c \in City, r \in CityRows : WriteCity(c, r)
         \/ \E z \in Zone, r \in ZoneRows : WriteZone(z, r)
  PROVE  PricingInv'
<1>1. PricesTyped
  BY DEF PricingInv
<1>2. MayEdit /\ UNCHANGED <<policies, types, classes, trip, edit, now>>
  BY DEF WriteCity, WriteZone
<1>3. edits' \in 0 .. MaxEdits
  BY <1>2, Edits
<1>4. /\ cities' \in [City -> CityRow \cup {Absent}]
      /\ zones' \in [Zone -> ZoneRow \cup {Absent}]
      /\ \A c \in City : Live(cities, c) => Live(cities', c)
      /\ \A z \in Zone : Live(zones, z) => Live(zones', z)
  <2>1. ASSUME NEW c \in City, NEW r \in CityRows, WriteCity(c, r)
        PROVE  /\ cities' \in [City -> CityRow \cup {Absent}]
               /\ \A d \in City : Live(cities, d) => Live(cities', d)
    <3> DEFINE row == Upsert(cities, c, r)
    <3>1. r \in CityRow
      BY PricingAssumption
    <3>2. row \in CityRow /\ row.status = "live"
      <4>1. CASE Live(cities, c)
        <5>1. cities[c].created \in Created
          BY <1>1, <4>1, LiveRows DEF CityRow
        <5> QED
          BY <3>1, <4>1, <5>1 DEF Upsert, CityRow, Statuses
      <4>2. CASE ~Live(cities, c)
        BY <1>2, <3>1, <4>2, NewRows DEF Upsert
      <4> QED
        BY <4>1, <4>2
    <3>3. cities' = [cities EXCEPT ![c] = row]
      BY <2>1 DEF WriteCity
    <3> HIDE DEF row
    <3> QED
      BY <1>1, <3>2, <3>3 DEF PricesTyped, TablesTyped, Live
  <2>2. ASSUME NEW z \in Zone, NEW r \in ZoneRows, WriteZone(z, r)
        PROVE  /\ zones' \in [Zone -> ZoneRow \cup {Absent}]
               /\ \A d \in Zone : Live(zones, d) => Live(zones', d)
    <3> DEFINE row == Upsert(zones, z, r)
    <3>1. r \in ZoneRow
      BY PricingAssumption
    <3>2. row \in ZoneRow /\ row.status = "live"
      <4>1. CASE Live(zones, z)
        <5>1. zones[z].created \in Created
          BY <1>1, <4>1, LiveRows DEF ZoneRow
        <5> QED
          BY <3>1, <4>1, <5>1 DEF Upsert, ZoneRow, Statuses
      <4>2. CASE ~Live(zones, z)
        BY <1>2, <3>1, <4>2, NewRows DEF Upsert
      <4> QED
        BY <4>1, <4>2
    <3>3. zones' = [zones EXCEPT ![z] = row]
      BY <2>2 DEF WriteZone
    <3> HIDE DEF row
    <3> QED
      BY <1>1, <3>2, <3>3 DEF PricesTyped, TablesTyped, Live
  <2>3. \/ zones' = zones /\ \E c \in City, r \in CityRows : WriteCity(c, r)
        \/ cities' = cities /\ \E z \in Zone, r \in ZoneRows : WriteZone(z, r)
    BY DEF WriteCity, WriteZone
  <2> QED
    BY <1>1, <2>1, <2>2, <2>3 DEF PricesTyped, TablesTyped
<1>5. TablesTyped(policies', cities', zones', types', classes')
  BY <1>1, <1>2, <1>4 DEF PricesTyped, TablesTyped
<1>6. PoliciesSound(policies', cities', zones')
  <2> SUFFICES ASSUME NEW p \in Policy, Live(policies, p)
               PROVE  Coherent(policies[p]) /\ Windowed(policies[p])
                        /\ PlaceExists(policies[p], cities', zones')
    BY <1>2 DEF PoliciesSound
  <2>1. /\ Coherent(policies[p]) /\ Windowed(policies[p])
        /\ PlaceExists(policies[p], cities, zones)
    BY <1>1 DEF PricesTyped, PoliciesSound
  <2>2. policies[p].city \in City \cup {NoCity} /\ policies[p].zone \in Zone \cup {NoZone}
    BY <1>1, LiveRows DEF PolicyRow
  <2> QED
    BY <1>4, <2>1, <2>2 DEF PlaceExists
<1>7. edit' = [a \in Admin |-> edit'[a]] /\ \A a \in Admin : edit'[a] = edit[a]
  BY <1>2 DEF PricingInv, EditsOK
<1>8. \A p \in Policy : Live(policies, p) => Live(policies', p)
  BY <1>2
<1> QED
  BY <1>2, <1>3, <1>5, <1>6, <1>7, <1>8, TablesChange

\* A vehicle type or a service class is written; policies and places stay.
LEMMA CatalogueWritten ==
  ASSUME PricingInv,
         types' \in [VehicleType -> TypeRow \cup {Absent}],
         classes' \in [ServiceClass -> ClassRow \cup {Absent}],
         edit' = [a \in Admin |-> edit'[a]],
         \A a \in Admin : edit'[a] = edit[a] \/ EditOK(edit'[a], policies'),
         edits' \in 0 .. MaxEdits, UNCHANGED <<policies, cities, zones, trip, now>>
  PROVE  PricingInv'
<1>1. /\ TablesTyped(policies', cities', zones', types', classes')
      /\ PoliciesSound(policies', cities', zones')
  BY DEF PricingInv, PricesTyped, TablesTyped
<1>2. \A p \in Policy : Live(policies, p) => Live(policies', p)
  OBVIOUS
<1> QED
  BY <1>1, <1>2, TablesChange

LEMMA CatalogueEdited ==
  ASSUME PricingInv,
         \/ \E v \in VehicleType, r \in TypeRows : CreateType(v, r)
         \/ \E c \in ServiceClass, r \in ClassRows : CreateClass(c, r)
         \/ \E v \in VehicleType : RemoveType(v)
         \/ \E c \in ServiceClass : RemoveClass(c)
  PROVE  PricingInv'
<1>1. /\ types \in [VehicleType -> TypeRow \cup {Absent}]
      /\ classes \in [ServiceClass -> ClassRow \cup {Absent}]
      /\ PricesTyped
  BY DEF PricingInv, PricesTyped, TablesTyped
<1>2. MayEdit /\ UNCHANGED <<policies, cities, zones, trip, edit, now>>
  BY DEF CreateType, CreateClass, RemoveType, RemoveClass
<1>3. edits' \in 0 .. MaxEdits
  BY <1>2, Edits
<1>4. edit' = [a \in Admin |-> edit'[a]] /\ \A a \in Admin : edit'[a] = edit[a]
  BY <1>2 DEF PricingInv, EditsOK
<1>5. ASSUME NEW v \in VehicleType, NEW r \in TypeRows, CreateType(v, r)
      PROVE  /\ types' \in [VehicleType -> TypeRow \cup {Absent}]
             /\ classes' \in [ServiceClass -> ClassRow \cup {Absent}]
  <2>1. Row(r) \in TypeRow
    BY <1>2, PricingAssumption, NewRows
  <2>2. types' = [types EXCEPT ![v] = Row(r)] /\ classes' = classes
    BY <1>5 DEF CreateType
  <2> QED
    BY <1>1, <2>1, <2>2
<1>6. ASSUME NEW c \in ServiceClass, NEW r \in ClassRows, CreateClass(c, r)
      PROVE  /\ types' \in [VehicleType -> TypeRow \cup {Absent}]
             /\ classes' \in [ServiceClass -> ClassRow \cup {Absent}]
  <2>1. Row(r) \in ClassRow
    BY <1>2, PricingAssumption, NewRows
  <2>2. classes' = [classes EXCEPT ![c] = Row(r)] /\ types' = types
    BY <1>6 DEF CreateClass
  <2> QED
    BY <1>1, <2>1, <2>2
<1>7. ASSUME NEW v \in VehicleType, RemoveType(v)
      PROVE  /\ types' \in [VehicleType -> TypeRow \cup {Absent}]
             /\ classes' \in [ServiceClass -> ClassRow \cup {Absent}]
  <2> DEFINE row == [types[v] EXCEPT !.status = "removed"]
  <2>1. Live(types, v) /\ types' = [types EXCEPT ![v] = row] /\ classes' = classes
    BY <1>7 DEF RemoveType
  <2>2. types[v] \in TypeRow
    BY <1>1, <2>1, LiveRows
  <2>3. row \in TypeRow
    BY <2>2 DEF TypeRow, Statuses
  <2> HIDE DEF row
  <2> QED
    BY <1>1, <2>1, <2>3
<1>8. ASSUME NEW c \in ServiceClass, RemoveClass(c)
      PROVE  /\ types' \in [VehicleType -> TypeRow \cup {Absent}]
             /\ classes' \in [ServiceClass -> ClassRow \cup {Absent}]
  <2> DEFINE row == [classes[c] EXCEPT !.status = "removed"]
  <2>1. Live(classes, c) /\ classes' = [classes EXCEPT ![c] = row] /\ types' = types
    BY <1>8 DEF RemoveClass
  <2>2. classes[c] \in ClassRow
    BY <1>1, <2>1, LiveRows
  <2>3. row \in ClassRow
    BY <2>2 DEF ClassRow, Statuses
  <2> HIDE DEF row
  <2> QED
    BY <1>1, <2>1, <2>3
<1>9. /\ types' \in [VehicleType -> TypeRow \cup {Absent}]
      /\ classes' \in [ServiceClass -> ClassRow \cup {Absent}]
  BY <1>5, <1>6, <1>7, <1>8
<1> QED
  BY <1>2, <1>3, <1>4, <1>9, CatalogueWritten

LEMMA CatalogueReadKeeps ==
  ASSUME PricingInv, NEW a \in Admin,
         \/ \E v \in VehicleType, patch \in TypePatches : EditTypeRead(a, v, patch)
         \/ \E c \in ServiceClass, r \in ClassRows : EditClassRead(a, c, r)
  PROVE  PricingInv'
<1>1. MayEdit /\ UNCHANGED <<tables, trip, now>>
  BY DEF EditTypeRead, EditClassRead
<1>2. ASSUME NEW v \in VehicleType, NEW patch \in TypePatches, EditTypeRead(a, v, patch)
      PROVE  PricingInv'
  <2> DEFINE row == Patched(types[v], patch)
             e == [kind |-> "type", id |-> v, row |-> row]
  <2>1. Live(types, v) /\ edit' = [edit EXCEPT ![a] = e]
    BY <1>2 DEF EditTypeRead
  <2>2. types[v] \in TypeRow /\ Fits(patch, TypeColumns)
    BY <2>1, LiveRows, PricingAssumption DEF PricingInv
  <2>3. row \in TypeRow
    BY <2>2, PatchedType
  <2> HIDE DEF row
  <2>4. EditOK(e, policies)
    BY <2>3 DEF EditOK
  <2> HIDE DEF e
  <2> QED
    BY <1>1, <2>1, <2>4, EditRead
<1>3. ASSUME NEW c \in ServiceClass, NEW r \in ClassRows, EditClassRead(a, c, r)
      PROVE  PricingInv'
  <2> DEFINE row == [classes[c] EXCEPT !.mult = r.mult]
             e == [kind |-> "class", id |-> c, row |-> row]
  <2>1. Live(classes, c) /\ edit' = [edit EXCEPT ![a] = e]
    BY <1>3 DEF EditClassRead
  <2>2. classes[c] \in ClassRow /\ r \in ClassRow
    BY <2>1, LiveRows, PricingAssumption DEF PricingInv
  <2>3. row \in ClassRow
    BY <2>2 DEF ClassRow
  <2> HIDE DEF row
  <2>4. EditOK(e, policies)
    BY <2>3 DEF EditOK
  <2> HIDE DEF e
  <2> QED
    BY <1>1, <2>1, <2>4, EditRead
<1> QED
  BY <1>2, <1>3

LEMMA CatalogueWriteKeeps ==
  ASSUME PricingInv, NEW a \in Admin, EditTypeWrite(a) \/ EditClassWrite(a)
  PROVE  PricingInv'
<1>1. /\ types \in [VehicleType -> TypeRow \cup {Absent}]
      /\ classes \in [ServiceClass -> ClassRow \cup {Absent}]
      /\ EditOK(edit[a], policies) /\ edits \in 0 .. MaxEdits
  BY DEF PricingInv, PricesTyped, TablesTyped, EditsOK
<1>2. /\ edit' = [edit EXCEPT ![a] = [kind |-> "none"]]
      /\ UNCHANGED <<policies, cities, zones, trip, now, edits>>
  BY DEF EditTypeWrite, EditClassWrite
<1>3. /\ edit' = [b \in Admin |-> edit'[b]]
      /\ \A b \in Admin : edit'[b] = edit[b] \/ EditOK(edit'[b], policies')
  BY <1>2, EditOver DEF PricingInv
<1>4. CASE EditTypeWrite(a)
  <2>1. /\ edit[a].id \in VehicleType /\ edit[a].row \in TypeRow
        /\ types' = [types EXCEPT ![edit[a].id] = edit[a].row] /\ classes' = classes
    BY <1>1, <1>4 DEF EditTypeWrite, EditOK
  <2>2. types' \in [VehicleType -> TypeRow \cup {Absent}]
    BY <1>1, <2>1
  <2> QED
    BY <1>1, <1>2, <1>3, <2>1, <2>2, CatalogueWritten
<1>5. CASE EditClassWrite(a)
  <2>1. /\ edit[a].id \in ServiceClass /\ edit[a].row \in ClassRow
        /\ classes' = [classes EXCEPT ![edit[a].id] = edit[a].row] /\ types' = types
    BY <1>1, <1>5 DEF EditClassWrite, EditOK
  <2>2. classes' \in [ServiceClass -> ClassRow \cup {Absent}]
    BY <1>1, <2>1
  <2> QED
    BY <1>1, <1>2, <1>3, <2>1, <2>2, CatalogueWritten
<1> QED
  BY <1>4, <1>5

LEMMA TickKeeps ==
  ASSUME PricingInv, Tick \/ UNCHANGED pricingVars
  PROVE  PricingInv'
<1>1. UNCHANGED <<tables, trip, edit, edits>> /\ now' \in Moments
  BY PricingAssumption DEF Tick, pricingVars, tables, Moments, PricingInv, PricesTyped
<1>2. PricesTyped'
  BY <1>1 DEF PricingInv, PricesTyped, tables
<1>3. EditsOK'
  BY <1>1 DEF PricingInv, EditsOK, EditOK, tables
<1>4. FaresOK'
  BY <1>1 DEF PricingInv, FaresOK
<1> QED
  BY <1>2, <1>3, <1>4 DEF PricingInv

LEMMA PricingInitOK == PricingInit => PricingInv
<1> SUFFICES ASSUME PricingInit PROVE PricingInv
  OBVIOUS
<1>1. NewTrip \in TripRow /\ NewTrip.phase = "new"
  BY DEF TripRow, NewTrip
<1>2. trip = [t \in Trip |-> NewTrip]
  BY DEF PricingInit
<1>3. 0 \in Moments /\ 0 \in 0 .. MaxEdits
  BY PricingAssumption DEF Moments
<1>4. PricesTyped
  BY <1>1, <1>2, <1>3, PricingAssumption DEF PricingInit, PricesTyped
<1>5. EditsOK
  BY DEF PricingInit, EditsOK, EditOK
<1>6. FaresOK
  BY <1>1, <1>2 DEF FaresOK, FareOK
<1> QED
  BY <1>4, <1>5, <1>6 DEF PricingInv

LEMMA PricingNextOK == PricingInv /\ [PricingNext]_pricingVars => PricingInv'
<1> SUFFICES ASSUME PricingInv, [PricingNext]_pricingVars PROVE PricingInv'
  OBVIOUS
<1>1. ASSUME NEW t \in Trip, QuoteRates(t)
      PROVE  PricingInv'
  BY <1>1, QuoteRatesKeeps
<1>2. ASSUME NEW t \in Trip, QuoteContext(t)
      PROVE  PricingInv'
  BY <1>2, QuoteContextKeeps
<1>3. ASSUME NEW t \in Trip, QuotePolicy(t)
      PROVE  PricingInv'
  BY <1>3, QuotePolicyKeeps
<1>4. ASSUME NEW t \in Trip, QuoteRefused(t)
      PROVE  PricingInv'
  BY <1>4, QuoteRefusedKeeps
<1>5. ASSUME NEW t \in Trip, Complete(t)
      PROVE  PricingInv'
  BY <1>5, CompleteKeeps
<1>6. ASSUME NEW p \in Policy, NEW r \in PolicyRows, CreatePolicy(p, r)
      PROVE  PricingInv'
  BY <1>6, CreatePolicyKeeps
<1>7. ASSUME NEW a \in Admin, NEW p \in Policy, NEW patch \in PolicyPatches,
             EditPolicyRead(a, p, patch)
      PROVE  PricingInv'
  BY <1>7, EditPolicyReadKeeps
<1>8. ASSUME NEW a \in Admin, EditPolicyWrite(a)
      PROVE  PricingInv'
  BY <1>8, EditPolicyWriteKeeps
<1>9. ASSUME NEW p \in Policy, NEW b \in BOOLEAN, SetPolicyActive(p, b)
      PROVE  PricingInv'
  BY <1>9, SetPolicyActiveKeeps
<1>10. CASE \/ \E c \in City, r \in CityRows : WriteCity(c, r)
            \/ \E z \in Zone, r \in ZoneRows : WriteZone(z, r)
  BY <1>10, WritePlaceKeeps
<1>11. CASE \/ \E v \in VehicleType, r \in TypeRows : CreateType(v, r)
            \/ \E c \in ServiceClass, r \in ClassRows : CreateClass(c, r)
            \/ \E v \in VehicleType : RemoveType(v)
            \/ \E c \in ServiceClass : RemoveClass(c)
  BY <1>11, CatalogueEdited
<1>12. ASSUME NEW a \in Admin,
              \/ \E v \in VehicleType, patch \in TypePatches : EditTypeRead(a, v, patch)
              \/ \E c \in ServiceClass, r \in ClassRows : EditClassRead(a, c, r)
       PROVE  PricingInv'
  BY <1>12, CatalogueReadKeeps
<1>13. ASSUME NEW a \in Admin, EditTypeWrite(a) \/ EditClassWrite(a)
       PROVE  PricingInv'
  BY <1>13, CatalogueWriteKeeps
<1>14. CASE Tick \/ UNCHANGED pricingVars
  BY <1>14, TickKeeps
<1> QED
  BY <1>1, <1>2, <1>3, <1>4, <1>5, <1>6, <1>7, <1>8, <1>9, <1>10, <1>11, <1>12, <1>13, <1>14
     DEF PricingNext

LEMMA PricingInvariance == PricingSpec => []PricingInv
BY PricingInitOK, PricingNextOK, PTL DEF PricingSpec

\* The tables keep what their constraints say though edits overlap and each was
\* validated on what it had read, and every card is of a policy that still exists.
THEOREM PricesAreTyped == PricingSpec => []PricesTyped
<1>1. PricingInv => PricesTyped
  BY DEF PricingInv
<1> QED
  BY <1>1, PricingInvariance, PTL

\* A ride of the estimated length costs what was quoted plus its extras, whatever
\* becomes of the policies meanwhile, unless the rates or multipliers changed; and
\* the cap that was quoted holds for every ride.
THEOREM PricesHold == PricingSpec => []PriceKept
<1>1. PricingInv => PriceKept
  <2> SUFFICES ASSUME PricingInv, NEW t \in Trip, trip[t].phase = "done"
               PROVE  LET b == trip[t].bill  fare == trip[t].total - b.extras * Unit IN
         /\ (b.rates = trip[t].quote.rates /\ b.mult = trip[t].quote.mult /\ b.km = Route[t].km) => fare = trip[t].est
         /\ trip[t].card.cap # NoCap => fare <= trip[t].card.cap * Unit
    BY DEF PriceKept
  <2> DEFINE b == trip[t].bill
             card == trip[t].card
             fare == ComputeFare(b.rates, b.mult, card, b.km, b.min, 0)
  <2>1. card \in Card /\ b \in BillRow
    BY TripFacts
  <2>2. /\ b.rates \in Multipliers /\ b.mult \in Multipliers
        /\ b.km \in Nat /\ b.min \in Nat /\ b.extras \in Nat
    BY <2>1 DEF BillRow
  <2>3. /\ trip[t].est = ComputeFare(trip[t].quote.rates, trip[t].quote.mult, card,
                                     Route[t].km, Route[t].min, 0)
        /\ b.min = Route[t].min
        /\ trip[t].total = ComputeFare(b.rates, b.mult, card, b.km, b.min, b.extras)
    BY DEF PricingInv, FaresOK, FareOK
  <2> HIDE DEF b, card
  <2>4. /\ fare \in Int
        /\ ComputeFare(b.rates, b.mult, card, b.km, b.min, b.extras) = fare + b.extras * Unit
        /\ card.cap # NoCap => fare <= card.cap * Unit
    <3> DEFINE rates == b.rates  mult == b.mult  km == b.km  min == b.min  extras == b.extras
    <3>1. /\ rates \in Multipliers /\ mult \in Multipliers
          /\ km \in Nat /\ min \in Nat /\ extras \in Nat
      BY <2>2
    <3> HIDE DEF rates, mult, km, min, extras
    <3>2. /\ ComputeFare(rates, mult, card, km, min, 0) \in Int
          /\ ComputeFare(rates, mult, card, km, min, extras)
               = ComputeFare(rates, mult, card, km, min, 0) + extras * Unit
          /\ card.cap # NoCap =>
               ComputeFare(rates, mult, card, km, min, 0) <= card.cap * Unit
      BY <2>1, <3>1, FareTyped
    <3> QED
      BY <3>2 DEF rates, mult, km, min, extras
  <2>5. (b.rates = trip[t].quote.rates /\ b.mult = trip[t].quote.mult /\ b.km = Route[t].km)
          => fare = trip[t].est
    BY <2>3
  <2>6. b.extras * Unit \in Int
    BY <2>2 DEF Unit
  <2> HIDE DEF fare
  <2>7. trip[t].total - b.extras * Unit = fare
    BY <2>3, <2>4, <2>6
  <2> QED
    BY <2>4, <2>5, <2>7 DEF b, card
<1> QED
  BY <1>1, PricingInvariance, PTL


\* ORDER BY is a strict order on live policies.
LEMMA PrecedesIsOrder ==
  ASSUME PricesTyped, NEW p \in Policy, Live(policies, p), NEW q \in Policy, Live(policies, q),
         NEW r \in Policy, Live(policies, r)
  PROVE  ~Precedes(p, p) /\ (Precedes(p, q) /\ Precedes(q, r) => Precedes(p, r))
<1>1. ASSUME NEW o \in Policy, Live(policies, o)
      PROVE  /\ Specificity(policies[o]) \in Int /\ policies[o].priority \in Int
             /\ policies[o].from \in Int /\ policies[o].created \in Int
  <2>1. policies[o] \in PolicyRow
    BY <1>1, LiveRows
  <2>2. policies[o].created \in Created
    BY <2>1 DEF PolicyRow
  <2>3. policies[o].created \in Int
    BY <2>2, PricingAssumption DEF Created
  <2> QED
    BY <2>1, <2>3 DEF PolicyRow, Specificity
<1> DEFINE s(o) == Specificity(policies[o])
           i(o) == policies[o].priority
           f(o) == policies[o].from
           c(o) == policies[o].created
<1>2. /\ s(p) \in Int /\ s(q) \in Int /\ s(r) \in Int
      /\ i(p) \in Int /\ i(q) \in Int /\ i(r) \in Int
      /\ f(p) \in Int /\ f(q) \in Int /\ f(r) \in Int
      /\ c(p) \in Int /\ c(q) \in Int /\ c(r) \in Int
  BY <1>1
<1>3. \A a, b : Precedes(a, b) <=>
        \/ s(a) > s(b)
        \/ s(a) = s(b) /\ (\/ i(a) > i(b)
                           \/ i(a) = i(b) /\ (f(a) > f(b) \/ (f(a) = f(b) /\ c(a) > c(b))))
  BY DEF Precedes
<1> HIDE DEF s, i, f, c
<1>4. ~Precedes(p, p)
  BY <1>2, <1>3
<1>5. Precedes(p, q) /\ Precedes(q, r) => Precedes(p, r)
  BY <1>2, <1>3
<1> QED
  BY <1>4, <1>5

\* Among some policies one comes first.
LEMMA OneComesFirst ==
  ASSUME PricesTyped, NEW S \in SUBSET Policy, S # {}, \A p \in S : Live(policies, p)
  PROVE  \E p \in S : \A q \in S \ {p} : ~Precedes(q, p)
<1> DEFINE First(U, p) == \A q \in U \ {p} : ~Precedes(q, p)
           F == {U \in SUBSET S : U # {} /\ ~ \E p \in U : First(U, p)}
<1> SUFFICES ASSUME S \in F PROVE FALSE
  OBVIOUS
<1>1. F \in SUBSET FiniteSubsetsOf(S) /\ F # {}
  <2>1. IsFiniteSet(S)
    BY PricingAssumption, FS_Subset
  <2> QED
    BY <2>1, FS_FiniteSubsetsOfFinite
<1>2. PICK U \in F : \A V \in F : V \subseteq U => V = U
  <2> HIDE DEF F
  <2> QED
    BY <1>1, SmallestOfFamily
<1>3. PICK u \in U : TRUE
  BY <1>2
<1> DEFINE V == U \ {u}
<1>4. V \notin F
  <2>1. V \subseteq U /\ V # U
    BY <1>3
  <2> HIDE DEF F, V
  <2> QED
    BY <1>2, <2>1
<1>5. CASE V = {}
  BY <1>2, <1>3, <1>5
<1>6. CASE V # {}
  <2>1. PICK p \in V : First(V, p)
    BY <1>2, <1>4, <1>6
  <2>2. u \in Policy /\ Live(policies, u) /\ \A q \in V : q \in Policy /\ Live(policies, q)
    BY <1>2, <1>3
  <2>3. CASE ~Precedes(u, p)
    <3>1. First(U, p)
      BY <2>1, <2>3
    <3> QED
      BY <1>2, <2>1, <3>1
  <2>4. CASE Precedes(u, p)
    <3>1. First(U, u)
      <4> SUFFICES ASSUME NEW q \in U \ {u}, Precedes(q, u) PROVE FALSE
        OBVIOUS
      <4>1. q \in V /\ Precedes(q, p)
        BY <2>1, <2>2, <2>4, PrecedesIsOrder
      <4>2. q = p
        BY <2>1, <4>1
      <4> QED
        BY <2>1, <2>2, <4>1, <4>2, PrecedesIsOrder
    <3> QED
      BY <1>2, <1>3, <3>1
  <2> QED
    BY <2>3, <2>4
<1> QED
  BY <1>5, <1>6

\* A policy in force is a candidate whose conditions apply.
LEMMA InForceApplies ==
  ASSUME PricesTyped, NEW m \in Moments, NEW place \in Place, NEW p \in InForce(m, place)
  PROVE  /\ p \in Candidates(m, place.city, place.zone)
         /\ ConditionsApply(policies[p].cond, m, ZoneUsed(policies[p], place.tz))
<1>1. /\ p \in Policy /\ Live(policies, p) /\ policies[p].active
      /\ InWindow(policies[p], m) /\ ScopeMatches(policies[p], place.city, place.zone)
  BY DEF InForce
<1>2. p \in Candidates(m, place.city, place.zone)
  BY <1>1 DEF Candidates, ScopeMatches
<1> DEFINE cond == policies[p].cond
           local == Local(m, ZoneUsed(policies[p], place.tz))
<1>3. /\ local.date \notin cond.exclude
      /\ cond.dates # {} => local.date \in cond.dates
      /\ cond.days # {} => local.dow \in cond.days
      /\ cond.hours # {} => local.slot \in UNION {HoursNamed(h) : h \in cond.hours}
  BY DEF InForce
<1>4. cond.hours \in SUBSET (Nat \X Nat)
  <2>1. policies[p] \in PolicyRow
    BY <1>1, LiveRows
  <2> QED
    BY <2>1 DEF PolicyRow, Conditions
<1> HIDE DEF cond, local
<1>5. ASSUME cond.hours # {}
      PROVE  \E h \in cond.hours : TimeInRange(local.slot, h[1], h[2])
  <2>1. PICK h \in cond.hours : local.slot \in HoursNamed(h)
    BY <1>3, <1>5
  <2>2. h[1] \in Nat /\ h[2] \in Nat
    BY <1>4
  <2> QED
    BY <2>1, <2>2, PricingAssumption DEF TimeInRange, HoursNamed
<1>6. ConditionsApply(policies[p].cond, m, ZoneUsed(policies[p], place.tz))
  BY <1>3, <1>5 DEF ConditionsApply, cond, local
<1> QED
  BY <1>2, <1>6

\* What the quote picks comes before every policy in force, and it picks one if there is one.
LEMMA BestChosen ==
  ASSUME PricesTyped, Cardinality(Policy) <= Take, NEW m \in Moments, NEW place \in Place
  PROVE  /\ \A best \in PoliciesFor(m, place), p \in InForce(m, place) :
              \/ Specificity(policies[p]) < Specificity(policies[best])
              \/ /\ Specificity(policies[p]) = Specificity(policies[best])
                 /\ policies[p].priority <= policies[best].priority
         /\ PoliciesFor(m, place) = {} => InForce(m, place) = {}
<1> DEFINE found == Candidates(m, place.city, place.zone)
           looked == {p \in found : Cardinality({q \in found : Precedes(q, p)}) < Take}
           applies == {p \in looked :
                         ConditionsApply(policies[p].cond, m, ZoneUsed(policies[p], place.tz))}
<1>1. PoliciesFor(m, place) = {p \in applies : \A q \in applies \ {p} : ~Precedes(q, p)}
  BY DEF PoliciesFor, ResolveApplicablePolicy
<1>2. found \in SUBSET Policy /\ \A p \in found : Live(policies, p)
  BY DEF Candidates
<1> HIDE DEF found
<1>3. looked = found
  <2> SUFFICES ASSUME NEW p \in found
               PROVE  Cardinality({q \in found : Precedes(q, p)}) < Take
    OBVIOUS
  <2> DEFINE before == {q \in found : Precedes(q, p)}
  <2>1. before \in SUBSET (Policy \ {p})
    BY <1>2, PrecedesIsOrder
  <2>2. /\ IsFiniteSet(Policy \ {p})
        /\ Cardinality(Policy \ {p}) = Cardinality(Policy) - 1
        /\ Cardinality(Policy) \in Nat
    BY <1>2, PricingAssumption, FS_RemoveElement, FS_CardinalityType
  <2>3. IsFiniteSet(before) /\ Cardinality(before) <= Cardinality(Policy \ {p})
    BY <2>1, <2>2, FS_Subset
  <2>4. Cardinality(before) \in Nat
    BY <2>3, FS_CardinalityType
  <2> HIDE DEF before
  <2>5. Cardinality(before) < Take
    BY <2>2, <2>3, <2>4, PricingAssumption
  <2> QED
    BY <2>5 DEF before
<1>4. \A p \in InForce(m, place) : p \in applies
  BY <1>3, InForceApplies DEF found
<1>5. applies \in SUBSET Policy /\ \A p \in applies : Live(policies, p)
  BY <1>2
<1> HIDE DEF applies
<1>6. ASSUME NEW best \in PoliciesFor(m, place), NEW p \in InForce(m, place)
      PROVE  \/ Specificity(policies[p]) < Specificity(policies[best])
             \/ /\ Specificity(policies[p]) = Specificity(policies[best])
                /\ policies[p].priority <= policies[best].priority
  <2>1. best \in applies /\ p \in applies
    BY <1>1, <1>4, <1>6
  <2>2. policies[p] \in PolicyRow /\ policies[best] \in PolicyRow
    BY <1>5, <2>1, LiveRows
  <2>3. /\ Specificity(policies[p]) \in Int /\ Specificity(policies[best]) \in Int
        /\ policies[p].priority \in Int /\ policies[best].priority \in Int
    BY <2>2 DEF PolicyRow, Specificity
  <2>4. p = best \/ ~Precedes(p, best)
    BY <1>1, <1>6, <2>1
  <2> QED
    BY <2>3, <2>4 DEF Precedes
<1>7. ASSUME PoliciesFor(m, place) = {}, InForce(m, place) # {}
      PROVE  FALSE
  <2>1. applies # {}
    BY <1>4, <1>7
  <2>2. \E p \in applies : \A q \in applies \ {p} : ~Precedes(q, p)
    BY <1>5, <2>1, OneComesFirst
  <2> QED
    BY <1>1, <1>7, <2>2
<1> QED
  BY <1>6, <1>7

\* No quote passes over a policy in force for one that should come after it, and none
\* is refused while a policy is in force, although the query lets policies through
\* that are switched off or out of their window.  The code looks at Take (50)
\* candidates only, so the theorem is about tables of no more policies than that:
\* with more, one in force may be beyond those looked at.
THEOREM BestIsQuoted ==
  ASSUME Cardinality(Policy) <= Take
  PROVE  PricingSpec => BestPolicyQuoted
<1> DEFINE Chosen(t) ==
      /\ trip'[t].phase = "open" =>
           LET chosen == policies[trip'[t].card.policy] IN
           \A p \in InForce(trip[t].quote.at, trip[t].place) :
             \/ Specificity(policies[p]) < Specificity(chosen)
             \/ Specificity(policies[p]) = Specificity(chosen) /\ policies[p].priority <= chosen.priority
      /\ trip'[t].phase = "new" => InForce(trip[t].quote.at, trip[t].place) = {}
<1>1. ASSUME PricingInv, PricingNext, NEW t \in Trip, trip[t].phase = "placed"
      PROVE  Chosen(t)
  <2>1. trip[t].quote \in Quote /\ trip[t].place \in Place /\ trip \in [Trip -> TripRow]
    BY <1>1, TripFacts DEF PricingInv, PricesTyped
  <2>2. trip[t].quote.at \in Moments
    BY <2>1 DEF Quote
  <2>3. CASE trip'[t] = trip[t]
    BY <1>1, <2>3
  <2>4. CASE QuotePolicy(t)
    <3>1. PICK p \in PoliciesFor(trip[t].quote.at, trip[t].place) :
            trip'[t].phase = "open" /\ trip'[t].card.policy = p
      BY <2>1, <2>4 DEF QuotePolicy, RateCard
    <3> QED
      BY <1>1, <2>1, <2>2, <3>1, BestChosen DEF PricingInv
  <2>5. CASE QuoteRefused(t)
    <3>1. trip'[t] = NewTrip /\ PoliciesFor(trip[t].quote.at, trip[t].place) = {}
      BY <2>1, <2>5 DEF QuoteRefused
    <3> QED
      BY <1>1, <2>1, <2>2, <3>1, BestChosen DEF PricingInv, NewTrip
  <2>6. CASE ~QuotePolicy(t) /\ ~QuoteRefused(t) /\ trip'[t] # trip[t]
    <3>1. \E s \in Trip : \/ QuoteRates(s) \/ QuoteContext(s) \/ QuotePolicy(s)
                          \/ QuoteRefused(s) \/ Complete(s)
      BY <1>1, <2>6
         DEF PricingNext, CreatePolicy, EditPolicyRead, SetPolicyActive, WriteCity, WriteZone,
             CreateType, CreateClass, EditTypeRead, EditClassRead, EditPolicyWrite,
             EditTypeWrite, EditClassWrite, RemoveType, RemoveClass, Tick
    <3>2. PICK s \in Trip : \/ QuoteRates(s) \/ QuoteContext(s) \/ QuotePolicy(s)
                            \/ QuoteRefused(s) \/ Complete(s)
      BY <3>1
    <3>3. s # t
      BY <1>1, <2>6, <3>2 DEF QuoteRates, QuoteContext, Complete
    <3>4. \E n : trip' = [trip EXCEPT ![s] = n]
      BY <3>2 DEF QuoteRates, QuoteContext, QuotePolicy, QuoteRefused, Complete
    <3> QED
      BY <2>1, <2>6, <3>3, <3>4
  <2> QED
    BY <2>3, <2>4, <2>5, <2>6
<1>2. PricingInv /\ [PricingNext]_pricingVars =>
        [\A t \in Trip : trip[t].phase = "placed" => Chosen(t)]_pricingVars
  BY <1>1
<1> QED
  BY <1>2, PricingInvariance, PTL DEF PricingSpec, BestPolicyQuoted
=============================================================================
