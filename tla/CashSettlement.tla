--------------------------- MODULE CashSettlement ---------------------------
(***************************************************************************)
(* The money of cash trips: orders/services/orders.service.ts and          *)
(* driver_balance/services/driver_balance.service.ts over the orders,      *)
(* transactions, driver_balance, wallet_movements, commission_adjustments  *)
(* and cash_collection_records tables.                                     *)
(*                                                                         *)
(* Confirming, refunding and adjusting an order lock the order's row, then *)
(* the wallet's: each is one action.  Confirming a top-up reads the cash   *)
(* collection record before it locks the wallet; updating an order locks   *)
(* nothing, and its save compares the row before it writes: a handler's    *)
(* two actions, and three.                                                 *)
(***************************************************************************)
EXTENDS Integers, Sequences, FiniteSets

CONSTANTS
  Order, Trip, Driver, Topup,
  Token,            \* the adjustmentSeq values of an order
  DriverOf,         \* the driver of each order
  TopupDriver,      \* the driver of each top-up
  Fees,             \* commissions, in cents, an order may have
  Credit,           \* the amount of a top-up, in cents
  Deltas,           \* the deltas of adjustments, in cents
  Worker,           \* handlers that may be in flight at the same time
  NoDriver, NoOrder, NoTrip, NoTopup,
  MaxEdits,         \* bound on PATCH /orders/:id and on wallets blocked by hand
  MaxAdjustments    \* bound on adjustments, of all orders together

ASSUME SettlementAssumption ==
  /\ NoDriver \notin Driver
  /\ NoOrder \notin Order
  /\ NoTrip \notin Trip
  /\ NoTopup \notin Topup
  /\ DriverOf \in [Order -> Driver]
  /\ TopupDriver \in [Topup -> Driver]
  /\ Fees \subseteq Nat \ {0}
  /\ Credit \in Nat \ {0}
  /\ Deltas \subseteq Int
  /\ MaxEdits \in Nat
  /\ MaxAdjustments \in Nat

VARIABLES
  status,      \* orders.status ("none": no order yet, "deleted": soft-deleted)
  tripOf,      \* orders.trip_id
  charged,     \* orders with a CHARGE transaction
  commissioned,  \* the PLATFORM_COMMISSION transactions, by order and trip
  commission,  \* the amount of those of each order, set by its CHARGE (0: none)
  refunded,    \* orders with a REFUND transaction to the passenger
  noted,       \* orders with a cash_collection_record that notes their refund
  adjusted,    \* commission_adjustments
  topup,       \* cash_collection_records of top-ups
  topupTx,     \* their WALLET_TOPUP transactions
  balance,     \* driver_balance.current_wallet_balance
  blocked,     \* drivers whose wallet is blocked
  ledger,      \* wallet_movements, in the order they were written
  h,           \* the handlers in flight
  edited,      \* history: orders that PATCH /orders/:id has written
  edits

commissionVars == <<commissioned, commission>>
orderVars == <<status, tripOf, charged, commissionVars, refunded, noted, adjusted>>
topupVars == <<topup, topupTx>>
walletVars == <<balance, blocked, ledger>>
editVars == <<edited, edits>>
vars == <<orderVars, walletVars, editVars, topupVars, h>>

----------------------------------------------------------------------------
(* Types *)

OrderStatuses == {"pending", "paid", "failed", "refunded"}
OrderRow == OrderStatuses \cup {"none", "deleted"}
TopupRow == {"none", "pending", "completed"}

\* A movement: the transaction it belongs to (kind and key), the wallet it is linked
\* to, its amount and the balance it records.
Movement ==
  [kind : {"commission", "revert", "topup", "adjust"},
   key : Order \cup Topup \cup (Order \X Trip) \cup (Order \X Token),
   driver : Driver \cup {NoDriver},
   amount : Int,
   new : Int]

\* A handler that edits holds the entity: its status and its trip, and the columns that
\* differ from the row.
Idle == [pc |-> "idle", topup |-> NoTopup, order |-> NoOrder, to |-> "unset",
         trip |-> NoTrip, columns |-> {}]
Handler ==
  [pc : {"idle", "topup", "edit", "save"},
   topup : Topup \cup {NoTopup},
   order : Order \cup {NoOrder},
   to : OrderStatuses \cup {"unset"},
   trip : Trip \cup {NoTrip},
   columns : SUBSET {"status", "trip", "deletedAt"}]

Adjustment == [order : Order, seq : Token, original : Fees \cup {0}, delta : Deltas]

\* driver_balance: current_wallet_balance and status.
WalletsTyped == balance \in [Driver -> Int] /\ blocked \subseteq Driver

TypeOK ==
  /\ status \in [Order -> OrderRow]
  /\ tripOf \in [Order -> Trip \cup {NoTrip}]
  /\ \A o \in Order : tripOf[o] = NoTrip <=> status[o] = "none"
  /\ charged \subseteq Order
  /\ commissioned \subseteq Order \X Trip
  /\ commission \in [Order -> Fees \cup {0}]
  /\ refunded \subseteq Order
  /\ noted \subseteq refunded
  /\ adjusted \subseteq Adjustment
  /\ topup \in [Topup -> TopupRow]
  /\ topupTx \in [Topup -> {"none", "pending", "processed"}]
  /\ WalletsTyped
  /\ ledger \in Seq(Movement)
  /\ h \in [Worker -> Handler]
  /\ edited \subseteq Order
  /\ edits \in 0 .. MaxEdits

----------------------------------------------------------------------------
(* The wallet *)

Record(kind, key, d, amount, new) ==
  ledger' = Append(ledger, [kind |-> kind, key |-> key, driver |-> d, amount |-> amount,
                            new |-> new])

SetBalance(d, n) == balance' = [balance EXCEPT ![d] = n]

\* findByTransactionId
Moved(kind, key) == \E i \in DOMAIN ledger : ledger[i].kind = kind /\ ledger[i].key = key

Reverted(o) == Moved("revert", o)

Block(d) == blocked' = blocked \cup {d}
Unblock(d) == blocked' = blocked \ {d}

\* A debit that takes the balance below zero blocks the wallet, and blockWalletLocked
\* saves the entity read before the debit: the save writes the old balance back.
Debited(d, new) ==
  IF new < 0 /\ balance[d] >= 0
  THEN Block(d) /\ UNCHANGED balance
  ELSE SetBalance(d, new) /\ UNCHANGED blocked

\* A commission is looked up by order and trip.  One that exists is compared with one of
\* platform fee 0, but is stored with the rate: to confirm an order again is a conflict,
\* unless it has another trip by then, which has its own commission.
CreatePlatformCommission(o, fee) ==
  /\ <<o, tripOf[o]>> \notin commissioned
  /\ commissioned' = commissioned \cup {<<o, tripOf[o]>>}
  /\ commission' = [commission EXCEPT ![o] = fee]

\* applyCashTripCommission
Debit(o, fee) ==
  LET d == DriverOf[o] new == balance[d] - fee IN
  /\ d \notin blocked
  /\ CreatePlatformCommission(o, fee)
  /\ Record("commission", <<o, tripOf[o]>>, d, -fee, new)
  /\ Debited(d, new)

----------------------------------------------------------------------------
Init ==
  /\ status = [o \in Order |-> "none"]
  /\ tripOf = [o \in Order |-> NoTrip]
  /\ charged = {}
  /\ commissioned = {}
  /\ commission = [o \in Order |-> 0]
  /\ refunded = {}
  /\ noted = {}
  /\ adjusted = {}
  /\ topup = [c \in Topup |-> "none"]
  /\ topupTx = [c \in Topup |-> "none"]
  /\ balance = [d \in Driver |-> 0]
  /\ blocked = {}
  /\ ledger = << >>
  /\ h = [w \in Worker |-> Idle]
  /\ edited = {}
  /\ edits = 0

----------------------------------------------------------------------------
(* Orders *)

\* uq_orders_trip, which the row of a deleted order still holds.
Taken(t, o) == \E x \in Order \ {o} : tripOf[x] = t

\* One order per trip; asked again, it returns the order.
CreatePendingForTrip(o, t) ==
  /\ status[o] = "none"
  /\ ~Taken(t, o)
  /\ status' = [status EXCEPT ![o] = "pending"]
  /\ tripOf' = [tripOf EXCEPT ![o] = t]

\* When the trip is completed, or by hand.
CreateOrder(o, t) ==
  /\ CreatePendingForTrip(o, t)
  /\ UNCHANGED <<charged, commissionVars, refunded, noted, adjusted>>
  /\ UNCHANGED <<walletVars, editVars, topupVars, h>>

\* A charge that exists must have the same amounts, and so the same commission; it is
\* returned.
CreateOrGetCharge(o, fee) ==
  /\ o \in charged => fee = commission[o]
  /\ charged' = charged \cup {o}

MarkPaid(o) ==
  /\ status[o] \in {"pending", "paid"}
  /\ status' = [status EXCEPT ![o] = "paid"]

ConfirmCashOrder(o, fee) ==
  /\ CreateOrGetCharge(o, fee)
  /\ Debit(o, fee)
  /\ MarkPaid(o)
  /\ UNCHANGED <<tripOf, refunded, noted, adjusted, editVars, topupVars, h>>

HasRefund(o) == o \in refunded
CreateRefund(o) == refunded' = refunded \cup {o}

\* The order must be PAID; a refund that exists is returned and nothing changes.
Refundable(o) == status[o] = "paid" /\ ~HasRefund(o)

\* Slip: the commission is computed again.
RevertAmountGuessed(o) == IF commission[o] = 0 THEN 0 ELSE CHOOSE f \in Fees : TRUE

\* The commission as recorded by a PLATFORM_COMMISSION transaction of the order.
RevertAmount(o) == commission[o]

\* The commission, if there is one, goes back to the driver, blocked or not.
Revert(o, linked) ==
  LET d == DriverOf[o] amount == RevertAmount(o) IN
  /\ IF amount > 0
     THEN /\ SetBalance(d, balance[d] + amount)
          /\ Record("revert", o, linked, amount, balance[d] + amount)
     ELSE UNCHANGED <<balance, ledger>>
  /\ UNCHANGED blocked

\* Slip: the order stays PAID.
ImmediateRefundPaid(o) ==
  /\ Refundable(o)
  /\ CreateRefund(o)
  /\ Revert(o, NoDriver)
  /\ UNCHANGED <<status, tripOf, charged, commissionVars, noted, adjusted, editVars>>
  /\ UNCHANGED <<topupVars, h>>

\* Within the policy window.  The order is PENDING again; the movement is created with
\* a walletId the entity does not have, so it is linked to no wallet.
ImmediateRefund(o) ==
  /\ Refundable(o)
  /\ CreateRefund(o)
  /\ Revert(o, NoDriver)
  /\ status' = [status EXCEPT ![o] = "pending"]
  /\ UNCHANGED <<tripOf, charged, commissionVars, noted, adjusted, editVars, topupVars, h>>

\* createOffPlatformRefundNote: a completed record of amount 0, for finance.
NoteRefund(o) == noted' = noted \cup {o}

\* The refund and the note of processNormalRefund, at any time after the payment.
RefundOffPlatform(o) ==
  /\ Refundable(o)
  /\ CreateRefund(o)
  /\ NoteRefund(o)

NormalRefund(o) ==
  /\ RefundOffPlatform(o)
  /\ Revert(o, DriverOf[o])
  /\ status' = [status EXCEPT ![o] = "refunded"]
  /\ UNCHANGED <<tripOf, charged, commissionVars, adjusted, editVars, topupVars, h>>

\* The commission first charged, whatever has been adjusted since.
OriginalFee(o) == commission[o]

\* commission_adjustments, unique by order and adjustmentSeq.
Adjusted(o, s, delta) ==
  adjusted' = adjusted \cup
    {[order |-> o, seq |-> s, original |-> OriginalFee(o), delta |-> delta]}

\* Slip: the wallet gets what the ledger takes.
AdjustWalletSwapped(o, s, delta) ==
  LET d == DriverOf[o] IN
  /\ d \notin blocked
  /\ SetBalance(d, balance[d] + delta)
  /\ Record("adjust", <<o, s>>, d, -delta, balance[d] - delta)

\* A positive delta is a penalty; one that takes the balance below zero does not block
\* the wallet.
AdjustWallet(o, s, delta) ==
  LET d == DriverOf[o] IN
  /\ d \notin blocked
  /\ SetBalance(d, balance[d] - delta)
  /\ Record("adjust", <<o, s>>, d, -delta, balance[d] - delta)

\* The delta is the one asked for, or leads from the original fee to the one asked for.
\* A zero delta leaves a trace only.
AdjustCommission(o, s, delta) ==
  /\ status[o] = "paid"
  /\ \A a \in adjusted : <<a.order, a.seq>> # <<o, s>>
  /\ Cardinality(adjusted) < MaxAdjustments
  /\ Adjusted(o, s, delta)
  /\ IF delta = 0 THEN UNCHANGED <<balance, ledger>> ELSE AdjustWallet(o, s, delta)
  /\ UNCHANGED <<status, tripOf, charged, commissionVars, refunded, noted, blocked>>
  /\ UNCHANGED <<editVars, topupVars, h>>

SoftDeleteOrder(o) ==
  /\ status[o] \in OrderStatuses
  /\ status' = [status EXCEPT ![o] = "deleted"]

\* DELETE /orders/:id, whatever the status.
RemoveOrder(o) ==
  /\ SoftDeleteOrder(o)
  /\ UNCHANGED <<tripOf, charged, commissionVars, refunded, noted, adjusted>>
  /\ UNCHANGED <<walletVars, editVars, topupVars, h>>

\* The trips an update may give an order: the one it has, and, when it is read as PENDING,
\* one that no order has.
Reassignable(o) ==
  {tripOf[o]} \cup
    {t \in Trip : /\ status[o] = "pending"
                  /\ \A x \in Order \ {o} : tripOf[x] = t => status[x] = "deleted"}

\* PATCH /orders/:id reads the order without a lock.  to, trip: what the entity holds once
\* the fields of the request are set, those it has read where there are none.
EditRead(w, o) ==
  /\ h[w] = Idle
  /\ edits < MaxEdits
  /\ edits' = edits + 1
  /\ status[o] \in OrderStatuses
  /\ \E to \in OrderStatuses, t \in Reassignable(o) :
       h' = [h EXCEPT ![w] = [Idle EXCEPT !.pc = "edit", !.order = o, !.to = to, !.trip = t]]
  /\ UNCHANGED <<orderVars, walletVars, edited, topupVars>>

\* The columns of the order's row that the entity of an update would change.  The status
\* a deleted row keeps is not modelled: it may be the entity's or not.
Differing(w) ==
  LET o == h[w].order
      trip == IF tripOf[o] = h[w].trip THEN {} ELSE {"trip"} IN
  IF status[o] = "deleted" THEN {{"deletedAt"} \cup trip, {"deletedAt", "status"} \cup trip}
  ELSE IF status[o] = h[w].to THEN {trip} ELSE {{"status"} \cup trip}

\* The save selects the row again, and will write the columns that differ.
EditSelect(w) ==
  /\ h[w].pc = "edit"
  /\ \E columns \in Differing(w) :
       h' = [h EXCEPT ![w].pc = "save", ![w].columns = columns]
  /\ UNCHANGED <<orderVars, walletVars, editVars, topupVars>>

\* The row with those columns written: a row deleted since the select stays deleted, one
\* that was deleted then is back.
Saved(w) ==
  LET o == h[w].order
      writes == IF status[o] = "deleted" THEN "deletedAt" ELSE "status" IN
  /\ status' = IF writes \in h[w].columns THEN [status EXCEPT ![o] = h[w].to] ELSE status
  /\ tripOf' = IF "trip" \in h[w].columns THEN [tripOf EXCEPT ![o] = h[w].trip] ELSE tripOf
  /\ edited' = IF h[w].columns = {} THEN edited ELSE edited \cup {o}

\* So it also undoes what was committed since the entity was read.  A trip that another
\* order has got is refused by the index, and the transaction rolled back.
EditWrite(w) ==
  /\ h[w].pc = "save"
  /\ IF "trip" \in h[w].columns /\ Taken(h[w].trip, h[w].order)
     THEN UNCHANGED <<status, tripOf, edited>>
     ELSE Saved(w)
  /\ h' = [h EXCEPT ![w] = Idle]
  /\ UNCHANGED <<charged, commissionVars, refunded, noted, adjusted>>
  /\ UNCHANGED <<walletVars, edits, topupVars>>

----------------------------------------------------------------------------
(* Top-ups and the manual blocks *)

CreateWalletTopupPending(c) == topupTx' = [topupTx EXCEPT ![c] = "pending"]
CreatePending(c) == topup' = [topup EXCEPT ![c] = "pending"]
MarkProcessed(c) == topupTx' = [topupTx EXCEPT ![c] = "processed"]

CreateCashTopup(c) ==
  /\ topup[c] = "none"
  /\ CreateWalletTopupPending(c)
  /\ CreatePending(c)
  /\ UNCHANGED <<orderVars, walletVars, editVars, h>>

\* confirmCashTopup reads the record; a completed one is returned as it is.
TopupRead(w, c) ==
  /\ h[w] = Idle
  /\ topup[c] = "pending"
  /\ h' = [h EXCEPT ![w] = [Idle EXCEPT !.pc = "topup", !.topup = c]]
  /\ UNCHANGED <<orderVars, walletVars, editVars, topupVars>>

\* Slip: the movement is looked up before the wallet is locked.
CreditedBefore(c) == FALSE

\* The movement is looked up under the wallet's lock.
Credited(c) == Moved("topup", c)

\* Slip: the status of a transaction, not of a record.
CompletionOfTransaction == "processed"
\* CashCollectionStatus.COMPLETED
Completion == "completed"

\* The credit would lift the block: ccr.collectedBy has not been loaded, and reading
\* its id throws.
Unblocks(c) ==
  LET d == TopupDriver[c] IN d \in blocked /\ balance[d] + Credit >= 0

\* Slip: the record is not completed.
TopupCreditOnly(w) ==
  LET c == h[w].topup d == TopupDriver[c] IN
  /\ h[w].pc = "topup"
  /\ ~Credited(c)
  /\ ~Unblocks(c)
  /\ SetBalance(d, balance[d] + Credit)
  /\ Record("topup", c, d, Credit, balance[d] + Credit)
  /\ MarkProcessed(c)
  /\ h' = [h EXCEPT ![w] = Idle]
  /\ UNCHANGED <<orderVars, blocked, editVars, topup>>

TopupCredit(w) ==
  LET c == h[w].topup d == TopupDriver[c] IN
  /\ h[w].pc = "topup"
  /\ ~Credited(c)
  /\ ~Unblocks(c)
  /\ SetBalance(d, balance[d] + Credit)
  /\ Record("topup", c, d, Credit, balance[d] + Credit)
  /\ topup' = [topup EXCEPT ![c] = Completion]
  /\ MarkProcessed(c)
  /\ h' = [h EXCEPT ![w] = Idle]
  /\ UNCHANGED <<orderVars, blocked, editVars>>

TopupAgain(w) ==
  LET c == h[w].topup IN
  /\ h[w].pc = "topup"
  /\ Credited(c)
  /\ topup' = [topup EXCEPT ![c] = Completion]
  /\ MarkProcessed(c)
  /\ h' = [h EXCEPT ![w] = Idle]
  /\ UNCHANGED <<orderVars, walletVars, editVars>>

\* The transaction is rolled back.
TopupThrows(w) ==
  /\ h[w].pc = "topup"
  /\ ~Credited(h[w].topup)
  /\ Unblocks(h[w].topup)
  /\ h' = [h EXCEPT ![w] = Idle]
  /\ UNCHANGED <<orderVars, walletVars, editVars, topupVars>>

BlockDriverWallet(d) ==
  /\ d \notin blocked
  /\ edits < MaxEdits
  /\ edits' = edits + 1
  /\ Block(d)
  /\ UNCHANGED <<orderVars, balance, ledger, edited, topupVars, h>>

UnblockDriverWallet(d) ==
  /\ d \in blocked
  /\ Unblock(d)
  /\ UNCHANGED <<orderVars, balance, ledger, editVars, topupVars, h>>

----------------------------------------------------------------------------
OrderStep(o) ==
  \/ \E t \in Trip : CreateOrder(o, t)
  \/ \E fee \in Fees : ConfirmCashOrder(o, fee)
  \/ ImmediateRefund(o) \/ NormalRefund(o)
  \/ \E s \in Token, delta \in Deltas : AdjustCommission(o, s, delta)
  \/ RemoveOrder(o)

HandlerStep(w) ==
  \/ \E o \in Order : EditRead(w, o)
  \/ EditSelect(w) \/ EditWrite(w)
  \/ \E c \in Topup : TopupRead(w, c)
  \/ TopupCredit(w) \/ TopupAgain(w) \/ TopupThrows(w)

Next ==
  \/ \E o \in Order : OrderStep(o)
  \/ \E w \in Worker : HandlerStep(w)
  \/ \E c \in Topup : CreateCashTopup(c)
  \/ \E d \in Driver : BlockDriverWallet(d) \/ UnblockDriverWallet(d)

Spec == Init /\ [][Next]_vars

----------------------------------------------------------------------------
(* Safety *)

\* Each transaction moves a wallet once: one revert and one movement per adjustment of an
\* order, one credit per top-up, also when two operators confirm it at the same time, and
\* one commission per order and trip.  So an order nobody has edited is charged once,
\* whatever is confirmed and refunded again; one that an update has moved to another trip
\* can be charged again, for the same fee.
OneMovementPerTransaction ==
  \A i, j \in DOMAIN ledger : ledger[i].kind = ledger[j].kind =>
    /\ ledger[i].key = ledger[j].key => i = j
    /\ ledger[i].kind = "commission" /\ ledger[i].key[1] = ledger[j].key[1] =>
         /\ ledger[i].amount = ledger[j].amount
         /\ i = j \/ ledger[i].key[1] \in edited

\* A top-up's record is COMPLETED, and its transaction PROCESSED, exactly when its
\* credit is in the ledger; an adjustment is traced exactly when its movement, if it
\* has one, is, with the fee the order was first charged.
RecordsMatchLedger ==
  /\ \A c \in Topup :
       /\ topup[c] = "completed" <=> Moved("topup", c)
       /\ topupTx[c] = "processed" <=> Moved("topup", c)
  /\ \A a \in adjusted :
       /\ a.delta # 0 <=> Moved("adjust", <<a.order, a.seq>>)
       /\ \A i \in DOMAIN ledger :
            ledger[i].kind = "adjust" /\ ledger[i].key = <<a.order, a.seq>> =>
              /\ ledger[i].amount = -a.delta
              /\ a.original > 0 => \E j \in 1 .. i - 1 :
                   /\ ledger[j].kind = "commission" /\ ledger[j].key[1] = a.order
                   /\ ledger[j].amount = -a.original

\* A refund credits the driver with a commission the ledger records for that order, of
\* that amount and earlier, even when the order has been edited between the two.  Recorded
\* is not taken: the debit that blocks a wallet is written back (WrittenBack below), and
\* the refund of that order still credits it.
RevertMirrorsCommission ==
  \A i \in DOMAIN ledger : ledger[i].kind = "revert" =>
    \E j \in 1 .. i - 1 :
      /\ ledger[j].kind = "commission"
      /\ ledger[j].key[1] = ledger[i].key
      /\ ledger[j].amount = -ledger[i].amount

\* Of an order nobody has edited or deleted, the commission is recorded, and not given
\* back, exactly while the order is PAID, and finance has a note of its refund
\* exactly when it is REFUNDED.  The passenger is charged for no order that has had no
\* commission.
CommissionFollowsOrder ==
  \A o \in Order :
    /\ o \in charged <=> commission[o] > 0
    /\ o \notin edited /\ status[o] # "deleted" =>
         /\ status[o] = "paid" <=> commission[o] > 0 /\ ~Reverted(o)
         /\ status[o] = "refunded" <=> o \in noted

\* A balance changes only together with a new movement of the same amount, which
\* records the balance it leaves.
NoChangeWithoutMovement ==
  [][\A d \in Driver : balance'[d] # balance[d] =>
       /\ Len(ledger') = Len(ledger) + 1
       /\ ledger'[Len(ledger')].amount = balance'[d] - balance[d]
       /\ ledger'[Len(ledger')].new = balance'[d]]_vars

\* The wallet a movement is of, linked to it or not.
WalletOf(m) ==
  IF m.kind = "topup" THEN TopupDriver[m.key]
  ELSE DriverOf[IF m.kind = "revert" THEN m.key ELSE m.key[1]]

\* A commission that found nothing owed and left something owed: its debit was undone.
WrittenBack(m) == m.kind = "commission" /\ m.new < 0 /\ m.new - m.amount >= 0

\* What the first n movements leave in a wallet.
Left(movements, d, n) ==
  LET kept == {i \in 1 .. n : WalletOf(movements[i]) = d /\ ~WrittenBack(movements[i])} IN
  IF kept = {} THEN 0
  ELSE movements[CHOOSE i \in kept : \A j \in kept : j <= i].new

\* The ledger explains every balance: each movement starts from what the one before it
\* left in that wallet, and the last leaves the balance, through confirmations, refunds,
\* adjustments and top-ups in any order; except that the commission that takes a wallet
\* below zero, and blocks it, is recorded and not taken.
LedgerExplainsBalances ==
  /\ \A d \in Driver : balance[d] = Left(ledger, d, Len(ledger))
  /\ \A i \in DOMAIN ledger :
       ledger[i].new = Left(ledger, WalletOf(ledger[i]), i - 1) + ledger[i].amount

----------------------------------------------------------------------------
(* A statement of the repository that the code does not keep *)

\* applyCashTripCommission "Actualiza currentWalletBalance": the balance of a wallet is
\* the one its last movement records.
BalanceIsLastMovement ==
  \A d \in Driver, i \in DOMAIN ledger :
    /\ ledger[i].driver = d
    /\ \A j \in DOMAIN ledger : j > i => ledger[j].driver # d
    => balance[d] = ledger[i].new
=============================================================================
