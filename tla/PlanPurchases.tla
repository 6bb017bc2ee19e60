---------------------------- MODULE PlanPurchases ----------------------------
(***************************************************************************)
(* Buying prepaid plans, in cash or from a driver's wallet, under an       *)
(* idempotency key: prepaid-plans/services/prepaid-plans.service.ts over   *)
(* the prepaid_plans, user_prepaid_plans, transactions and driver_balance  *)
(* tables, with the catalogue and the transactions edited meanwhile.       *)
(*                                                                         *)
(* The key is only in the metadata of the PLAN_PURCHASE transaction: it is *)
(* looked up when the request comes in and again in its transaction, and   *)
(* no lock or unique index stands behind the look-ups.  A purchase writes  *)
(* a transaction, a plan of the user and a movement of the wallet (or a    *)
(* cash collection record) at once: they are one record of tx here.        *)
(***************************************************************************)
EXTENDS Integers, FiniteSets, Functions, FiniteSetsExt

CONSTANTS
  Plan, NoPlan,
  Buyer, NoBuyer,      \* drivers: they have a wallet
  Key, NoKey,          \* Idempotency-Key, which may be missing
  Worker,              \* requests being served at the same time
  Prices,              \* prices a plan may have, in whole units
  Limit,               \* wallet.allowedNegativeLimit
  MaxTx,               \* bound on transactions
  MaxChanges           \* bound on edits and on other wallet movements

ASSUME PurchasesAssumption ==
  /\ NoPlan \notin Plan
  /\ NoBuyer \notin Buyer
  /\ NoKey \notin Key
  /\ IsFiniteSet(Worker)
  /\ Prices \subseteq Nat
  /\ Limit \in Int /\ Limit <= 0
  /\ MaxTx \in Nat
  /\ MaxChanges \in Nat

Tx == 1 .. MaxTx

VARIABLES
  plan,     \* the catalogue
  tx,       \* PLAN_PURCHASE transactions, with what was bought
  balance,  \* driver_balance.current_wallet_balance
  blocked,  \* drivers whose wallet is blocked
  req,      \* the requests in flight
  changes,
  \* what has happened, for the properties only
  other,    \* the sum of the other movements of each wallet
  peak,     \* the most requests with a key there have been at one time
  touched   \* keys that were on a transaction somebody edited or made by hand

catalogue == <<plan>>
wallets == <<balance, blocked, other>>
vars == <<catalogue, tx, wallets, req, changes, peak, touched>>

----------------------------------------------------------------------------
(* Types *)

NoneOnSale == [at |-> "absent", price |-> 0]
PlanRow == [at : {"absent", "active", "inactive"}, price : Prices \cup {0}]

NoTx == [state |-> "none", method |-> "none", key |-> NoKey, buyer |-> NoBuyer,
         plan |-> NoPlan, price |-> 0, new |-> 0]

\* method is "none" when no plan was bought; new is the new_balance of the
\* movement of the wallet.
TxRow ==
  [state : {"none", "live", "deleted"}, method : {"none", "cash", "wallet"},
   key : Key \cup {NoKey}, buyer : Buyer \cup {NoBuyer}, plan : Plan \cup {NoPlan},
   price : Prices \cup {0}, new : Int]

Idle == [at |-> "idle", method |-> "none", key |-> NoKey, buyer |-> NoBuyer,
         plan |-> NoPlan, price |-> 0]
Request ==
  [at : {"idle", "check", "pay"}, method : {"none", "cash", "wallet"},
   key : Key \cup {NoKey}, buyer : Buyer \cup {NoBuyer}, plan : Plan \cup {NoPlan},
   price : Prices \cup {0}]

Bought == {i \in Tx : tx[i].method # "none"}

\* Whatever was bought is still in the catalogue, priced: what a replay reads.
TypeOK ==
  /\ plan \in [Plan -> PlanRow]
  /\ tx \in [Tx -> TxRow]
  /\ balance \in [Buyer -> Int]
  /\ blocked \subseteq Buyer
  /\ req \in [Worker -> Request]
  /\ changes \in 0 .. MaxChanges
  /\ other \in [Buyer -> Int]
  /\ peak \in [Key -> 0 .. Cardinality(Worker)]
  /\ touched \subseteq Key
  /\ \A i \in Bought : tx[i].plan \in Plan /\ plan[tx[i].plan].at # "absent"

Init ==
  /\ plan = [p \in Plan |-> NoneOnSale]
  /\ tx = [i \in Tx |-> NoTx]
  /\ balance = [b \in Buyer |-> 0]
  /\ blocked = {}
  /\ req = [w \in Worker |-> Idle]
  /\ changes = 0
  /\ other = [b \in Buyer |-> 0]
  /\ peak = [k \in Key |-> 0]
  /\ touched = {}

----------------------------------------------------------------------------
(* Looking up a key *)

\* Slip: purchases from the wallet are not looked for.
FindCashByIdemKey(k) == {i \in Tx : tx[i].state = "live" /\ tx[i].key = k /\ tx[i].method = "cash"}

\* The transactions that are not soft-deleted and have the key; one of them,
\* in no order, is what a look-up finds.
FindPlanPurchaseByIdemKey(k) ==
  {i \in Tx : k # NoKey /\ tx[i].state = "live" /\ tx[i].key = k}

\* A look-up may come back with a purchase, or with a transaction that bought
\* nothing or none at all, after which the request goes on.
Found(k) == FindPlanPurchaseByIdemKey(k) \cap Bought
Missed(k) == FindPlanPurchaseByIdemKey(k) \subseteq Bought => Found(k) = {}

InFlight(k) == {w \in Worker : req[w].key = k}

Done(w) == req' = [req EXCEPT ![w] = Idle]

NextTx(i) == tx[i].state = "none" /\ \A j \in 1 .. i - 1 : tx[j].state # "none"

----------------------------------------------------------------------------
(* POST /prepaid-plans/purchase and /purchase-wallet *)

\* A request that finds its key's purchase answers with it and is over: only
\* the others are kept.
StartPurchase(w) ==
  /\ req[w].at = "idle"
  /\ \E m \in {"cash", "wallet"}, k \in Key \cup {NoKey}, b \in Buyer, p \in Plan :
       /\ Missed(k)
       /\ req' = [req EXCEPT ![w] = [at |-> "check", method |-> m, key |-> k, buyer |-> b,
                                     plan |-> p, price |-> 0]]
       /\ peak' = IF k = NoKey THEN peak
                  ELSE [peak EXCEPT ![k] = Max({@, Cardinality(InFlight(k)) + 1})]
  /\ UNCHANGED <<catalogue, tx, wallets, changes, touched>>

\* In the transaction the plan is read, and the key is looked up again: the
\* plan must be active and have a price, the key must not have been used.
CheckPurchase(w) ==
  /\ req[w].at = "check"
  /\ \/ /\ plan[req[w].plan].at = "active"
        /\ plan[req[w].plan].price > 0
        /\ Missed(req[w].key)
        /\ req' = [req EXCEPT ![w] =
             [at |-> "pay", method |-> req[w].method, key |-> req[w].key,
              buyer |-> req[w].buyer, plan |-> req[w].plan,
              price |-> plan[req[w].plan].price]]
     \/ /\ plan[req[w].plan].at # "active" \/ plan[req[w].plan].price = 0
             \/ Found(req[w].key) # {}
        /\ Done(w)
  /\ UNCHANGED <<catalogue, tx, wallets, changes, peak, touched>>

\* The transaction and the plan of the user; the plan's foreign key refuses a
\* plan that is gone.
RecordPurchase(w, new) ==
  /\ plan[req[w].plan].at # "absent"
  /\ \E i \in Tx :
       /\ NextTx(i)
       /\ tx' = [tx EXCEPT ![i] =
            [state |-> "live", method |-> req[w].method, key |-> req[w].key,
             buyer |-> req[w].buyer, plan |-> req[w].plan, price |-> req[w].price,
             new |-> new]]
  /\ Done(w)

PayCash(w) ==
  /\ req[w].at = "pay" /\ req[w].method = "cash"
  /\ RecordPurchase(w, 0)
  /\ UNCHANGED <<catalogue, wallets, changes, peak, touched>>

\* Slip: the balance before the purchase is compared with the limit.
MayPayBefore(b, price) == b \notin blocked /\ balance[b] >= Limit

MayPay(b, price) == b \notin blocked /\ balance[b] - price >= Limit

\* The wallet is locked, checked and debited; one that goes below zero is
\* blocked, by a save of the entity that has the new balance.
PayFromWallet(w) ==
  LET b == req[w].buyer new == balance[b] - req[w].price
  IN /\ req[w].at = "pay" /\ req[w].method = "wallet"
     /\ MayPay(b, req[w].price)
     /\ RecordPurchase(w, new)
     /\ balance' = [balance EXCEPT ![b] = new]
     /\ blocked' = IF new < 0 /\ balance[b] >= 0 THEN blocked \cup {b} ELSE blocked
     /\ UNCHANGED <<catalogue, other, changes, peak, touched>>

\* The wallet refuses, the plan is gone, a statement fails or the process
\* stops: the transaction is rolled back.
PurchaseFails(w) ==
  /\ req[w].at # "idle"
  /\ Done(w)
  /\ UNCHANGED <<catalogue, tx, wallets, changes, peak, touched>>

----------------------------------------------------------------------------
(* The catalogue *)

Changing == changes < MaxChanges /\ changes' = changes + 1

\* Slip: plans that were bought may be removed.
RemovablePlan(p) == plan[p].at # "absent"

\* ON DELETE RESTRICT
Removable(p) == plan[p].at # "absent" /\ \A i \in Bought : tx[i].plan # p

CreatePlan(p) ==
  /\ plan[p].at = "absent"
  /\ \E price \in Prices, at \in {"active", "inactive"} :
       plan' = [plan EXCEPT ![p] = [at |-> at, price |-> price]]
  /\ UNCHANGED <<tx, wallets, req, changes, peak, touched>>

\* update and toggleActive
UpdatePlan(p) ==
  /\ Changing
  /\ plan[p].at # "absent"
  /\ \E price \in Prices, at \in {"active", "inactive"} :
       plan' = [plan EXCEPT ![p] = [at |-> at, price |-> price]]
  /\ UNCHANGED <<tx, wallets, req, peak, touched>>

RemovePlan(p) ==
  /\ Changing
  /\ Removable(p)
  /\ plan' = [plan EXCEPT ![p] = NoneOnSale]
  /\ UNCHANGED <<tx, wallets, req, peak, touched>>

----------------------------------------------------------------------------
(* The transactions and the wallets, by others *)

\* POST /transactions: any type and any metadata.
CreateTransaction ==
  /\ Changing
  /\ \E i \in Tx, k \in Key :
       /\ NextTx(i)
       /\ tx' = [tx EXCEPT ![i] = [state |-> "live", method |-> "none", key |-> k,
                 buyer |-> NoBuyer, plan |-> NoPlan, price |-> 0, new |-> 0]]
       /\ touched' = touched \cup {k}
  /\ UNCHANGED <<catalogue, wallets, req, peak>>

Touch(i, state, key) ==
  /\ tx' = [tx EXCEPT ![i] =
       [state |-> state, method |-> tx[i].method, key |-> key, buyer |-> tx[i].buyer,
        plan |-> tx[i].plan, price |-> tx[i].price, new |-> tx[i].new]]
  /\ touched' = touched \cup ({tx[i].key, key} \ {NoKey})

\* PATCH /transactions/:id may replace the metadata.
UpdateTransaction(i) ==
  /\ Changing
  /\ tx[i].state = "live"
  /\ \E k \in Key \cup {NoKey} : Touch(i, "live", k)
  /\ UNCHANGED <<catalogue, wallets, req, peak>>

\* DELETE /transactions/:id
SoftDeleteTransaction(i) ==
  /\ Changing
  /\ tx[i].state = "live"
  /\ Touch(i, "deleted", tx[i].key)
  /\ UNCHANGED <<catalogue, wallets, req, peak>>

\* A top-up or a commission, under the wallet's lock (see CashSettlement).
WalletMoves(b) ==
  /\ Changing
  /\ \E delta \in {-1, 2} :
       /\ balance' = [balance EXCEPT ![b] = @ + delta]
       /\ other' = [other EXCEPT ![b] = @ + delta]
  /\ UNCHANGED <<catalogue, tx, blocked, req, peak, touched>>

BlockOrUnblock(b) ==
  /\ Changing
  /\ blocked' = IF b \in blocked THEN blocked \ {b} ELSE blocked \cup {b}
  /\ UNCHANGED <<catalogue, tx, balance, other, req, peak, touched>>

Next ==
  \/ \E w \in Worker :
       \/ StartPurchase(w) \/ CheckPurchase(w)
       \/ PayCash(w) \/ PayFromWallet(w) \/ PurchaseFails(w)
  \/ \E p \in Plan : CreatePlan(p) \/ UpdatePlan(p) \/ RemovePlan(p)
  \/ CreateTransaction
  \/ \E i \in Tx : UpdateTransaction(i) \/ SoftDeleteTransaction(i)
  \/ \E b \in Buyer : WalletMoves(b) \/ BlockOrUnblock(b)

Spec == Init /\ [][Next]_vars

----------------------------------------------------------------------------
(* Properties *)

\* A key buys at most as often as there have been requests with it at the same
\* time, and so once if a retry never overlaps the request it repeats; unless
\* somebody deleted, edited or made a transaction with the key.
PurchasesPerKey ==
  \A k \in Key \ touched : Cardinality({i \in Bought : tx[i].key = k}) <= peak[k]

FromWallet(b) == {i \in Bought : tx[i].method = "wallet" /\ tx[i].buyer = b}

\* What each transaction took from a wallet.
Spending(b) == [i \in Tx |-> IF i \in FromWallet(b) THEN tx[i].price ELSE 0]

Total(c) ==
  LET upTo[n \in 0 .. MaxTx] == IF n = 0 THEN 0 ELSE upTo[n - 1] + c[n] IN upTo[MaxTx]

\* Every plan bought from a wallet has been paid from it, at the price it was
\* offered for, and never beyond what the driver may owe.
WalletPaysForPlans ==
  \A b \in Buyer :
    /\ balance[b] = other[b] - Total(Spending(b))
    /\ \A i \in FromWallet(b) : tx[i].price > 0 /\ tx[i].new >= Limit

=============================================================================
