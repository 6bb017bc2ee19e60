------------------------ MODULE CashSettlementProofs ------------------------
(***************************************************************************)
(* Proofs about CashSettlement for any orders, drivers, top-ups, amounts   *)
(* and handlers in flight.  The inductive invariant is IInv: its parts say *)
(* how the tables and the ledger of movements answer for each other.       *)
(***************************************************************************)
EXTENDS CashSettlement, FiniteSetTheorems, TLAPS

\* What a handler in flight holds.
HandlerOK == \A w \in Worker :
  /\ h[w].pc = "topup" => h[w].topup \in Topup
  /\ h[w].pc \in {"edit", "save"} =>
       /\ h[w].order \in Order /\ status[h[w].order] # "none"
       /\ h[w].to \in OrderStatuses /\ h[w].trip \in Trip

\* The transactions of an order and their movements: the commissions that were charged,
\* by the trips it has had, and the refund a movement back belongs to.
ChargeOK(o) ==
  /\ commission[o] > 0 => \E i \in DOMAIN ledger :
       ledger[i].kind = "commission" /\ ledger[i].key[1] = o
  /\ \A i \in DOMAIN ledger : ledger[i].kind = "commission" /\ ledger[i].key[1] = o =>
       commission[o] > 0 /\ ledger[i].amount = -commission[o]
  /\ Moved("revert", o) => o \in refunded
  /\ o \notin edited => \A t \in Trip : <<o, t>> \in commissioned => t = tripOf[o]

ChargesOK == \A o \in Order : ChargeOK(o)

\* Every movement of a commission has its transaction.
CommissionedOK ==
  \A i \in DOMAIN ledger : ledger[i].kind = "commission" => ledger[i].key \in commissioned

\* A transaction has one movement.
Unique ==
  \A i, j \in DOMAIN ledger :
    ledger[i].kind = ledger[j].kind /\ ledger[i].key = ledger[j].key => i = j

TopupOK(c) ==
  /\ topup[c] = "completed" <=> Moved("topup", c)
  /\ topupTx[c] = "processed" <=> Moved("topup", c)

TopupsOK == \A c \in Topup : TopupOK(c)

\* The trace of an adjustment and its movement.
TraceOK(a) ==
  /\ a.delta # 0 <=> Moved("adjust", <<a.order, a.seq>>)
  /\ \A i \in DOMAIN ledger :
       ledger[i].kind = "adjust" /\ ledger[i].key = <<a.order, a.seq>> =>
         /\ ledger[i].amount = -a.delta
         /\ a.original > 0 => \E j \in 1 .. i - 1 :
              /\ ledger[j].kind = "commission" /\ ledger[j].key[1] = a.order
              /\ ledger[j].amount = -a.original

\* Adjustments are unique by order and sequence, and no movement is without its trace.
TracesOK ==
  /\ \A a \in adjusted : TraceOK(a)
  /\ \A a, b \in adjusted : a.order = b.order /\ a.seq = b.seq => a = b
  /\ \A o \in Order, s \in Token : Moved("adjust", <<o, s>>) =>
       \E a \in adjusted : a.order = o /\ a.seq = s

OrderOK(o) ==
  /\ o \in charged <=> commission[o] > 0
  /\ o \notin edited /\ status[o] # "deleted" =>
       /\ status[o] = "paid" <=> commission[o] > 0 /\ ~Moved("revert", o)
       /\ status[o] = "refunded" <=> o \in noted

OrdersOK == \A o \in Order : OrderOK(o)

IInv ==
  /\ TypeOK
  /\ HandlerOK
  /\ Unique
  /\ RevertMirrorsCommission
  /\ CommissionedOK
  /\ ChargesOK
  /\ TopupsOK
  /\ TracesOK
  /\ OrdersOK

----------------------------------------------------------------------------
(* Appending to the ledger *)

\* The movement Record appends.
Mv(kind, key, d, amount, new) ==
  [kind |-> kind, key |-> key, driver |-> d, amount |-> amount, new |-> new]

LEMMA MvFacts ==
  ASSUME NEW kind, NEW key, NEW d, NEW amount, NEW new
  PROVE  /\ Mv(kind, key, d, amount, new).kind = kind
         /\ Mv(kind, key, d, amount, new).key = key
         /\ Mv(kind, key, d, amount, new).amount = amount
         /\ Mv(kind, key, d, amount, new).new = new
BY DEF Mv

LEMMA MvTyped ==
  ASSUME NEW kind \in {"commission", "revert", "topup", "adjust"},
         NEW key \in Order \cup Topup \cup (Order \X Trip) \cup (Order \X Token),
         NEW d \in Driver \cup {NoDriver}, NEW amount \in Int, NEW new \in Int
  PROVE  Mv(kind, key, d, amount, new) \in Movement
BY DEF Mv, Movement

LEMMA RecordIsAppend ==
  ASSUME NEW kind, NEW key, NEW d, NEW amount, NEW new, Record(kind, key, d, amount, new)
  PROVE  ledger' = Append(ledger, Mv(kind, key, d, amount, new))
BY DEF Record, Mv

LEMMA Appended ==
  ASSUME ledger \in Seq(Movement), NEW m \in Movement, ledger' = Append(ledger, m)
  PROVE  /\ ledger' \in Seq(Movement)
         /\ Len(ledger') = Len(ledger) + 1 /\ Len(ledger) \in Nat
         /\ DOMAIN ledger = 1 .. Len(ledger) /\ DOMAIN ledger' = 1 .. Len(ledger) + 1
         /\ \A i \in DOMAIN ledger : ledger'[i] = ledger[i]
         /\ ledger'[Len(ledger) + 1] = m
OBVIOUS

LEMMA MovedAppended ==
  ASSUME ledger \in Seq(Movement), NEW m \in Movement, ledger' = Append(ledger, m),
         NEW kind, NEW key
  PROVE  Moved(kind, key)' <=> Moved(kind, key) \/ (m.kind = kind /\ m.key = key)
BY Appended DEF Moved

\* A movement of a transaction that has none.
LEMMA OneKept ==
  ASSUME ledger \in Seq(Movement), NEW m \in Movement, ledger' = Append(ledger, m),
         Unique, ~Moved(m.kind, m.key)
  PROVE  Unique'
<1> SUFFICES ASSUME NEW i \in DOMAIN ledger', NEW j \in DOMAIN ledger',
                    ledger'[i].kind = ledger'[j].kind, ledger'[i].key = ledger'[j].key
             PROVE  i = j
  BY DEF Unique
<1>1. CASE i \in DOMAIN ledger /\ j \in DOMAIN ledger
  BY <1>1, Appended DEF Unique
<1>2. CASE i \notin DOMAIN ledger /\ j \in DOMAIN ledger
  BY <1>2, Appended DEF Moved
<1>3. CASE i \in DOMAIN ledger /\ j \notin DOMAIN ledger
  BY <1>3, Appended DEF Moved
<1>4. CASE i \notin DOMAIN ledger /\ j \notin DOMAIN ledger
  BY <1>4, Appended
<1> QED BY <1>1, <1>2, <1>3, <1>4

\* A movement back mirrors an earlier commission.
LEMMA MirrorKept ==
  ASSUME ledger \in Seq(Movement), NEW m \in Movement, ledger' = Append(ledger, m),
         RevertMirrorsCommission,
         m.kind = "revert" => \E j \in DOMAIN ledger :
           ledger[j].kind = "commission" /\ ledger[j].key[1] = m.key
           /\ ledger[j].amount = -m.amount
  PROVE  RevertMirrorsCommission'
<1> SUFFICES ASSUME NEW i \in DOMAIN ledger', ledger'[i].kind = "revert"
             PROVE  \E j \in 1 .. i - 1 :
                      /\ ledger'[j].kind = "commission"
                      /\ ledger'[j].key[1] = ledger'[i].key
                      /\ ledger'[j].amount = -ledger'[i].amount
  BY DEF RevertMirrorsCommission
<1>1. CASE i \in DOMAIN ledger
  <2>1. PICK j \in 1 .. i - 1 : /\ ledger[j].kind = "commission"
                                /\ ledger[j].key[1] = ledger[i].key
                                /\ ledger[j].amount = -ledger[i].amount
    BY <1>1, Appended DEF RevertMirrorsCommission
  <2>2. j \in DOMAIN ledger
    BY <1>1, <2>1, Appended
  <2> QED BY <1>1, <2>1, <2>2, Appended
<1>2. CASE i = Len(ledger) + 1
  <2>1. PICK j \in DOMAIN ledger :
          /\ ledger[j].kind = "commission" /\ ledger[j].key[1] = m.key
          /\ ledger[j].amount = -m.amount
    BY <1>2, Appended
  <2> QED BY <1>2, <2>1, Appended
<1>3. i \in DOMAIN ledger \/ i = Len(ledger) + 1
  BY Appended
<1> QED BY <1>1, <1>2, <1>3

\* A trace keeps its movements when others are appended.
LEMMA TraceKept ==
  ASSUME ledger \in Seq(Movement), NEW m \in Movement, ledger' = Append(ledger, m),
         NEW a, TraceOK(a), m.kind # "adjust" \/ m.key # <<a.order, a.seq>>
  PROVE  TraceOK(a)'
<1>1. Moved("adjust", <<a.order, a.seq>>)' <=> Moved("adjust", <<a.order, a.seq>>)
  BY MovedAppended
<1>2. ASSUME NEW i \in DOMAIN ledger', ledger'[i].kind = "adjust",
             ledger'[i].key = <<a.order, a.seq>>
      PROVE  /\ ledger'[i].amount = -a.delta
             /\ a.original > 0 => \E j \in 1 .. i - 1 :
                  /\ ledger'[j].kind = "commission" /\ ledger'[j].key[1] = a.order
                  /\ ledger'[j].amount = -a.original
  <2>1. i \in DOMAIN ledger /\ ledger'[i] = ledger[i]
    BY <1>2, Appended
  <2>2. ledger[i].amount = -a.delta
    BY <1>2, <2>1 DEF TraceOK
  <2>3. ASSUME a.original > 0
        PROVE  \E j \in 1 .. i - 1 :
                 /\ ledger'[j].kind = "commission" /\ ledger'[j].key[1] = a.order
                 /\ ledger'[j].amount = -a.original
    <3>1. PICK j \in 1 .. i - 1 :
            /\ ledger[j].kind = "commission" /\ ledger[j].key[1] = a.order
            /\ ledger[j].amount = -a.original
      BY <1>2, <2>1, <2>3 DEF TraceOK
    <3>2. ledger'[j] = ledger[j]
      BY <2>1, <3>1, Appended
    <3> QED BY <3>1, <3>2
  <2> QED BY <2>1, <2>2, <2>3
<1> QED BY <1>1, <1>2 DEF TraceOK

LEMMA CommissionedKept ==
  ASSUME ledger \in Seq(Movement), NEW m \in Movement, ledger' = Append(ledger, m),
         CommissionedOK, commissioned \subseteq commissioned',
         m.kind = "commission" => m.key \in commissioned'
  PROVE  CommissionedOK'
<1> SUFFICES ASSUME NEW i \in DOMAIN ledger', ledger'[i].kind = "commission"
             PROVE  ledger'[i].key \in commissioned'
  BY DEF CommissionedOK
<1>1. CASE i \in DOMAIN ledger
  BY <1>1, Appended DEF CommissionedOK
<1>2. CASE i \notin DOMAIN ledger
  BY <1>2, Appended
<1> QED BY <1>1, <1>2

LEMMA ChargeKept ==
  ASSUME ledger \in Seq(Movement), NEW m \in Movement, ledger' = Append(ledger, m),
         NEW o \in Order, ChargeOK(o),
         commission'[o] = commission[o], o \in refunded => o \in refunded',
         tripOf'[o] = tripOf[o], edited' = edited,
         \A t \in Trip : <<o, t>> \in commissioned' => <<o, t>> \in commissioned,
         m.kind = "commission" => m.key[1] # o,
         m.kind = "revert" => m.key # o
  PROVE  ChargeOK(o)'
<1>1. Moved("revert", o)' <=> Moved("revert", o)
  BY MovedAppended
<1>2. ASSUME NEW i \in DOMAIN ledger', ledger'[i].kind = "commission", ledger'[i].key[1] = o
      PROVE  commission'[o] > 0 /\ ledger'[i].amount = -commission'[o]
  <2>1. i \in DOMAIN ledger /\ ledger'[i] = ledger[i]
    BY <1>2, Appended
  <2> QED BY <1>2, <2>1 DEF ChargeOK
<1>3. ASSUME commission'[o] > 0
      PROVE  \E i \in DOMAIN ledger' : ledger'[i].kind = "commission" /\ ledger'[i].key[1] = o
  <2>1. PICK i \in DOMAIN ledger : ledger[i].kind = "commission" /\ ledger[i].key[1] = o
    BY <1>3 DEF ChargeOK
  <2>2. i \in DOMAIN ledger' /\ ledger'[i] = ledger[i]
    BY <2>1, Appended
  <2> QED BY <2>1, <2>2
<1> QED BY <1>1, <1>2, <1>3 DEF ChargeOK

----------------------------------------------------------------------------
(* Steps, by what they append *)

LEMMA Types ==
  ASSUME TypeOK
  PROVE  /\ ledger \in Seq(Movement)
         /\ \A o \in Order : /\ DriverOf[o] \in Driver
                             /\ commission[o] \in Nat /\ commission[o] \in Fees \cup {0}
         /\ \A d \in Driver : balance[d] \in Int
         /\ \A c \in Topup : TopupDriver[c] \in Driver
         /\ Credit \in Int /\ \A f \in Fees : f \in Int /\ f > 0
<1>1. \A f \in Fees : f \in Nat /\ f \in Int /\ f > 0
  BY SettlementAssumption
<1>2. \A o \in Order : commission[o] \in Nat /\ commission[o] \in Fees \cup {0}
  <2>1. commission \in [Order -> Fees \cup {0}]
    BY DEF TypeOK
  <2> QED BY <1>1, <2>1
<1>3. Credit \in Int
  BY SettlementAssumption
<1> QED BY <1>1, <1>2, <1>3, SettlementAssumption DEF TypeOK, WalletsTyped

\* Nothing is appended and no transaction of an order changes: its status may.
LEMMA LedgerSame ==
  ASSUME UNCHANGED <<ledger, commissioned, adjusted>>
  PROVE  /\ Unique <=> Unique'
         /\ RevertMirrorsCommission <=> RevertMirrorsCommission'
         /\ CommissionedOK <=> CommissionedOK'
         /\ TracesOK <=> TracesOK'
         /\ \A kind, key : Moved(kind, key)' <=> Moved(kind, key)
<1>1. \A kind, key : Moved(kind, key)' <=> Moved(kind, key)
  BY DEF Moved
<1>2. Unique <=> Unique'
  BY DEF Unique
<1>3. RevertMirrorsCommission <=> RevertMirrorsCommission'
  BY DEF RevertMirrorsCommission
<1>4. CommissionedOK <=> CommissionedOK'
  BY DEF CommissionedOK
<1>5. ASSUME NEW a PROVE TraceOK(a) <=> TraceOK(a)'
  BY <1>1 DEF TraceOK
<1>6. TracesOK <=> TracesOK'
  BY <1>1, <1>5 DEF TracesOK
<1> QED BY <1>1, <1>2, <1>3, <1>4, <1>6

\* An order that gets its trip has no commission yet.
LEMMA ChargesSame ==
  ASSUME TypeOK, ChargesOK, UNCHANGED <<ledger, commissioned, commission>>,
         refunded \subseteq refunded', edited \subseteq edited',
         \A o \in Order : o \in edited' \/ tripOf'[o] = tripOf[o] \/ tripOf[o] = NoTrip
  PROVE  ChargesOK'
<1> SUFFICES ASSUME NEW o \in Order PROVE ChargeOK(o)'
  BY DEF ChargesOK
<1>1. ChargeOK(o)
  BY DEF ChargesOK
<1>2. Moved("revert", o)' <=> Moved("revert", o)
  BY DEF Moved
<1>3. ASSUME o \notin edited', NEW t \in Trip, <<o, t>> \in commissioned'
      PROVE  t = tripOf'[o]
  <2>1. t = tripOf[o]
    BY <1>1, <1>3 DEF ChargeOK
  <2>2. tripOf[o] # NoTrip
    BY <2>1, SettlementAssumption
  <2> QED BY <1>3, <2>1, <2>2
<1> QED BY <1>1, <1>2, <1>3 DEF ChargeOK

\* The tables of top-ups when neither they nor the movements of top-ups change.
LEMMA TopupsSame ==
  ASSUME TopupsOK, UNCHANGED <<topup, topupTx>>,
         \A c \in Topup : Moved("topup", c)' <=> Moved("topup", c)
  PROVE  TopupsOK'
BY DEF TopupsOK, TopupOK

LEMMA OrderSame ==
  ASSUME NEW o \in Order, OrderOK(o),
         o \in charged' <=> o \in charged, commission'[o] = commission[o],
         o \in edited => o \in edited', o \in noted' <=> o \in noted,
         \/ status'[o] = status[o]
         \/ o \in edited' \/ status'[o] = "deleted"
         \/ /\ status[o] \notin {"paid", "refunded", "deleted"}
            /\ status'[o] \notin {"paid", "refunded"},
         Moved("revert", o)' <=> Moved("revert", o)
  PROVE  OrderOK(o)'
BY DEF OrderOK

\* CreateOrder, RemoveOrder, PATCH, and the steps that only read or fail.
LEMMA TablesStep ==
  ASSUME IInv, TypeOK', HandlerOK',
         UNCHANGED <<ledger, charged, commissioned, commission, refunded, noted, adjusted>>,
         UNCHANGED <<topup, topupTx>>,
         edited \subseteq edited',
         \A o \in Order :
           /\ o \in edited' \/ tripOf'[o] = tripOf[o] \/ tripOf[o] = NoTrip
           /\ \/ status'[o] = status[o]
              \/ o \in edited' \/ status'[o] = "deleted"
              \/ /\ status[o] \notin {"paid", "refunded", "deleted"}
                 /\ status'[o] \notin {"paid", "refunded"}
  PROVE  IInv'
<1>1. OrdersOK'
  BY LedgerSame, OrderSame DEF OrdersOK, IInv
<1>2. TopupsOK'
  BY LedgerSame, TopupsSame DEF IInv
<1>3. ChargesOK'
  BY ChargesSame DEF IInv
<1> QED BY <1>1, <1>2, <1>3, LedgerSame DEF IInv

LEMMA CreateOrderKeeps ==
  ASSUME IInv, NEW o \in Order, NEW t \in Trip, CreateOrder(o, t)
  PROVE  IInv'
<1>1. /\ status[o] = "none" /\ status' = [status EXCEPT ![o] = "pending"]
      /\ tripOf' = [tripOf EXCEPT ![o] = t]
      /\ UNCHANGED <<charged, commissioned, commission, refunded, noted, adjusted>>
      /\ UNCHANGED <<balance, blocked, ledger, topup, topupTx, edited, edits, h>>
  BY DEF CreateOrder, CreatePendingForTrip, commissionVars, walletVars, editVars, topupVars
<1>2. TypeOK /\ HandlerOK
  BY DEF IInv
<1>3. t # NoTrip
  BY SettlementAssumption
<1>4. TypeOK'
  BY <1>1, <1>2, <1>3 DEF TypeOK, WalletsTyped, OrderRow, OrderStatuses
<1>5. HandlerOK'
  BY <1>1, <1>2 DEF HandlerOK, TypeOK
<1>6. tripOf[o] = NoTrip
  BY <1>1, <1>2 DEF TypeOK
<1> QED BY <1>1, <1>2, <1>4, <1>5, <1>6, TablesStep DEF TypeOK

LEMMA RemoveOrderKeeps ==
  ASSUME IInv, NEW o \in Order, RemoveOrder(o)
  PROVE  IInv'
<1>1. /\ status' = [status EXCEPT ![o] = "deleted"]
      /\ status[o] \in OrderStatuses
      /\ UNCHANGED <<tripOf, charged, commissioned, commission, refunded, noted, adjusted>>
      /\ UNCHANGED <<balance, blocked, ledger, topup, topupTx, edited, edits, h>>
  BY DEF RemoveOrder, SoftDeleteOrder, commissionVars, walletVars, editVars, topupVars
<1>2. TypeOK /\ HandlerOK
  BY DEF IInv
<1>3. TypeOK'
  BY <1>1, <1>2 DEF TypeOK, WalletsTyped, OrderRow, OrderStatuses
<1>4. HandlerOK'
  BY <1>1, <1>2 DEF HandlerOK, TypeOK
<1> QED BY <1>1, <1>2, <1>3, <1>4, TablesStep DEF TypeOK

LEMMA IdleFacts ==
  /\ Idle \in Handler /\ Idle.pc = "idle"
BY DEF Idle, Handler

LEMMA EditReadKeeps ==
  ASSUME IInv, NEW w \in Worker, NEW o \in Order, EditRead(w, o)
  PROVE  IInv'
<1>1. /\ edits < MaxEdits /\ edits' = edits + 1
      /\ status[o] \in OrderStatuses
      /\ UNCHANGED <<status, tripOf, charged, commissioned, commission, refunded, noted>>
      /\ UNCHANGED <<adjusted, balance, blocked, ledger, topup, topupTx, edited>>
  BY DEF EditRead, orderVars, commissionVars, walletVars, topupVars
<1>2. PICK to \in OrderStatuses, t \in Reassignable(o) :
        h' = [h EXCEPT ![w] = [Idle EXCEPT !.pc = "edit", !.order = o, !.to = to, !.trip = t]]
  BY DEF EditRead
<1>3. TypeOK /\ HandlerOK
  BY DEF IInv
<1>4. t \in Trip /\ status[o] # "none"
  <2>1. status[o] # "none" /\ tripOf[o] \in Trip
    BY <1>1, <1>3 DEF TypeOK, OrderStatuses
  <2> QED BY <1>2, <2>1 DEF Reassignable
<1> DEFINE new == [Idle EXCEPT !.pc = "edit", !.order = o, !.to = to, !.trip = t]
<1>5. new \in Handler /\ new.pc = "edit" /\ new.order = o /\ new.to = to /\ new.trip = t
  BY <1>4 DEF Idle, Handler
<1>6. h' = [h EXCEPT ![w] = new]
  BY <1>2
<1> HIDE DEF new
<1>7. TypeOK'
  <2>1. edits' \in 0 .. MaxEdits
    BY <1>1, <1>3, SettlementAssumption DEF TypeOK
  <2> QED BY <1>1, <1>3, <1>5, <1>6, <2>1 DEF TypeOK, WalletsTyped
<1>8. HandlerOK'
  BY <1>1, <1>3, <1>4, <1>5, <1>6 DEF HandlerOK, TypeOK
<1> QED BY <1>1, <1>7, <1>8, TablesStep

LEMMA EditSelectKeeps ==
  ASSUME IInv, NEW w \in Worker, EditSelect(w)
  PROVE  IInv'
<1>1. /\ h[w].pc = "edit"
      /\ UNCHANGED <<status, tripOf, charged, commissioned, commission, refunded, noted>>
      /\ UNCHANGED <<adjusted, balance, blocked, ledger, topup, topupTx, edited, edits>>
  BY DEF EditSelect, orderVars, commissionVars, walletVars, editVars, topupVars
<1>2. PICK columns \in Differing(w) :
        h' = [h EXCEPT ![w].pc = "save", ![w].columns = columns]
  BY DEF EditSelect
<1>3. TypeOK /\ HandlerOK
  BY DEF IInv
<1>4. columns \subseteq {"status", "trip", "deletedAt"}
  BY <1>2 DEF Differing
<1> DEFINE new == [h[w] EXCEPT !.pc = "save", !.columns = columns]
<1>5. h' = [h EXCEPT ![w] = new]
  BY <1>2
<1>6. /\ new \in Handler
      /\ new.order = h[w].order /\ new.to = h[w].to /\ new.trip = h[w].trip
  <2>1. h[w] \in Handler
    BY <1>3 DEF TypeOK
  <2> QED BY <1>4, <2>1 DEF Handler
<1>7. new.pc = "save"
  <2>1. h[w] \in Handler
    BY <1>3 DEF TypeOK
  <2> QED BY <2>1 DEF Handler
<1> HIDE DEF new
<1>8. TypeOK'
  BY <1>1, <1>3, <1>5, <1>6 DEF TypeOK, WalletsTyped
<1>9. HandlerOK'
  BY <1>1, <1>3, <1>5, <1>6, <1>7 DEF HandlerOK, TypeOK
<1> QED BY <1>1, <1>8, <1>9, TablesStep

LEMMA EditWriteKeeps ==
  ASSUME IInv, NEW w \in Worker, EditWrite(w)
  PROVE  IInv'
<1> DEFINE o == h[w].order
<1>1. /\ h[w].pc = "save"
      /\ h' = [h EXCEPT ![w] = Idle]
      /\ UNCHANGED <<charged, commissioned, commission, refunded, noted, adjusted>>
      /\ UNCHANGED <<balance, blocked, ledger, topup, topupTx, edits>>
  BY DEF EditWrite, commissionVars, walletVars, topupVars
<1>2. TypeOK /\ HandlerOK
  BY DEF IInv
<1>3. /\ o \in Order /\ status[o] # "none"
      /\ h[w].to \in OrderStatuses /\ h[w].trip \in Trip
  BY <1>1, <1>2 DEF HandlerOK
<1>4. /\ status' = status \/ status' = [status EXCEPT ![o] = h[w].to]
      /\ tripOf' = tripOf \/ tripOf' = [tripOf EXCEPT ![o] = h[w].trip]
      /\ \/ edited' = edited /\ status' = status /\ tripOf' = tripOf
         \/ edited' = edited \cup {o}
  BY DEF EditWrite, Saved
<1> HIDE DEF o
<1>5. /\ status' \in [Order -> OrderRow] /\ tripOf' \in [Order -> Trip \cup {NoTrip}]
      /\ edited' \subseteq Order
  BY <1>2, <1>3, <1>4 DEF TypeOK, OrderRow
<1>6. h[w].trip # NoTrip /\ h[w].to # "none" /\ tripOf[o] # NoTrip
  BY <1>2, <1>3, SettlementAssumption DEF OrderStatuses, TypeOK
<1>7. \A x \in Order : /\ tripOf'[x] = NoTrip <=> tripOf[x] = NoTrip
                       /\ status'[x] = "none" <=> status[x] = "none"
                       /\ x # o => tripOf'[x] = tripOf[x] /\ status'[x] = status[x]
  BY <1>2, <1>3, <1>4, <1>6 DEF TypeOK
<1>8. h' \in [Worker -> Handler]
  BY <1>1, <1>2, IdleFacts DEF TypeOK
<1>9. TypeOK'
  BY <1>1, <1>2, <1>5, <1>7, <1>8 DEF TypeOK, WalletsTyped
<1>10. HandlerOK'
  BY <1>1, <1>2, <1>7, IdleFacts DEF HandlerOK, TypeOK
<1>11. \A x \in Order : x \in edited' \/ (tripOf'[x] = tripOf[x] /\ status'[x] = status[x])
  BY <1>4, <1>7
<1> QED BY <1>1, <1>4, <1>9, <1>10, <1>11, TablesStep

LEMMA TopupReadKeeps ==
  ASSUME IInv, NEW w \in Worker, NEW c \in Topup, TopupRead(w, c)
  PROVE  IInv'
<1>1. /\ UNCHANGED <<status, tripOf, charged, commissioned, commission, refunded, noted>>
      /\ adjusted' = adjusted
      /\ UNCHANGED <<balance, blocked, ledger, topup, topupTx, edited, edits>>
  BY DEF TopupRead, orderVars, commissionVars, walletVars, editVars, topupVars
<1>2. TypeOK /\ HandlerOK
  BY DEF IInv
<1> DEFINE new == [Idle EXCEPT !.pc = "topup", !.topup = c]
<1>3. new \in Handler /\ new.pc = "topup" /\ new.topup = c
  BY DEF Idle, Handler
<1>4. h' = [h EXCEPT ![w] = new]
  BY DEF TopupRead
<1> HIDE DEF new
<1>5. TypeOK'
  BY <1>1, <1>2, <1>3, <1>4 DEF TypeOK, WalletsTyped
<1>6. HandlerOK'
  BY <1>1, <1>2, <1>3, <1>4 DEF HandlerOK, TypeOK
<1> QED BY <1>1, <1>5, <1>6, TablesStep

LEMMA TopupThrowsKeeps ==
  ASSUME IInv, NEW w \in Worker, TopupThrows(w)
  PROVE  IInv'
<1>1. /\ UNCHANGED <<status, tripOf, charged, commissioned, commission, refunded, noted>>
      /\ adjusted' = adjusted
      /\ UNCHANGED <<balance, blocked, ledger, topup, topupTx, edited, edits>>
      /\ h' = [h EXCEPT ![w] = Idle]
  BY DEF TopupThrows, orderVars, commissionVars, walletVars, editVars, topupVars
<1>2. TypeOK /\ HandlerOK
  BY DEF IInv
<1>3. TypeOK'
  BY <1>1, <1>2, IdleFacts DEF TypeOK, WalletsTyped
<1>4. HandlerOK'
  BY <1>1, <1>2, IdleFacts DEF HandlerOK, TypeOK
<1> QED BY <1>1, <1>3, <1>4, TablesStep

LEMMA ByHandKeeps ==
  ASSUME IInv, NEW d \in Driver, BlockDriverWallet(d) \/ UnblockDriverWallet(d)
  PROVE  IInv'
<1>1. /\ UNCHANGED <<status, tripOf, charged, commissioned, commission, refunded, noted>>
      /\ adjusted' = adjusted
      /\ UNCHANGED <<balance, ledger, topup, topupTx, edited, h>>
      /\ blocked' = blocked \cup {d} \/ blocked' = blocked \ {d}
      /\ (edits < MaxEdits /\ edits' = edits + 1) \/ edits' = edits
  BY DEF BlockDriverWallet, UnblockDriverWallet, Block, Unblock, orderVars, commissionVars,
         editVars, topupVars
<1>2. TypeOK /\ HandlerOK
  BY DEF IInv
<1>3. TypeOK'
  <2>1. edits' \in 0 .. MaxEdits
    BY <1>1, <1>2, SettlementAssumption DEF TypeOK
  <2>2. blocked' \subseteq Driver
    BY <1>1, <1>2 DEF TypeOK, WalletsTyped
  <2> QED BY <1>1, <1>2, <2>1, <2>2 DEF TypeOK, WalletsTyped
<1>4. HandlerOK'
  BY <1>1, <1>2 DEF HandlerOK
<1> QED BY <1>1, <1>3, <1>4, TablesStep

----------------------------------------------------------------------------
(* Charging, refunding and adjusting *)

\* The rest of IInv is kept for the orders, top-ups and traces a movement is not about.
LEMMA OthersKept ==
  ASSUME IInv, NEW m \in Movement, ledger' = Append(ledger, m),
         NEW o \in Order,
         \/ m.kind = "commission" /\ m.key[1] = o /\ m.key \in commissioned'
         \/ m.kind = "revert" /\ m.key = o,
         UNCHANGED <<topup, topupTx, adjusted, edited>>,
         refunded \subseteq refunded', commissioned \subseteq commissioned',
         \A x \in Order \ {o} : /\ commission'[x] = commission[x]
                                /\ status'[x] = status[x] /\ tripOf'[x] = tripOf[x]
                                /\ x \in charged' <=> x \in charged
                                /\ x \in noted' <=> x \in noted,
         \A x \in Order \ {o}, t \in Trip :
           <<x, t>> \in commissioned' => <<x, t>> \in commissioned
  PROVE  /\ TopupsOK' /\ TracesOK' /\ CommissionedOK'
         /\ \A x \in Order \ {o} : ChargeOK(x)' /\ OrderOK(x)'
<1>1. ledger \in Seq(Movement)
  BY Types DEF IInv
<1>2. \A c : Moved("topup", c)' <=> Moved("topup", c)
  BY <1>1, MovedAppended
<1>3. TopupsOK'
  BY <1>2, TopupsSame DEF IInv
<1>4. \A key : Moved("adjust", key)' <=> Moved("adjust", key)
  BY <1>1, MovedAppended
<1>5. ASSUME NEW a \in adjusted PROVE TraceOK(a)'
  <2>1. TraceOK(a)
    BY DEF IInv, TracesOK
  <2> QED BY <1>1, <2>1, TraceKept
<1>6. TracesOK'
  BY <1>4, <1>5 DEF IInv, TracesOK
<1>7. ASSUME NEW x \in Order \ {o} PROVE ChargeOK(x)' /\ OrderOK(x)'
  <2>1. ChargeOK(x) /\ OrderOK(x)
    BY DEF IInv, ChargesOK, OrdersOK
  <2>2. ChargeOK(x)'
    BY <1>1, <2>1, ChargeKept
  <2>3. Moved("revert", x)' <=> Moved("revert", x)
    BY <1>1, MovedAppended
  <2>4. OrderOK(x)'
    BY <2>1, <2>3, OrderSame
  <2> QED BY <2>2, <2>4
<1>8. CommissionedOK'
  BY <1>1, CommissionedKept DEF IInv
<1> QED BY <1>3, <1>6, <1>7, <1>8

\* A confirmation charges the passenger, takes the commission and pays the order.
LEMMA ConfirmKeeps ==
  ASSUME IInv, NEW o \in Order, NEW fee \in Fees, ConfirmCashOrder(o, fee)
  PROVE  IInv'
<1> DEFINE d == DriverOf[o]
           new == balance[d] - fee
           key == <<o, tripOf[o]>>
           m == Mv("commission", key, d, -fee, new)
<1>1. TypeOK /\ HandlerOK /\ ledger \in Seq(Movement)
  BY Types DEF IInv
<1>2. d \in Driver /\ balance[d] \in Int /\ fee \in Int /\ fee > 0 /\ new \in Int /\ -fee \in Int
  BY <1>1, Types
<1>3. /\ key \notin commissioned /\ commissioned' = commissioned \cup {key}
      /\ commission' = [commission EXCEPT ![o] = fee]
      /\ charged' = charged \cup {o}
      /\ status[o] \in {"pending", "paid"}
      /\ status' = [status EXCEPT ![o] = "paid"]
      /\ o \in charged => fee = commission[o]
      /\ UNCHANGED <<tripOf, refunded, noted, adjusted, edited, edits, topup, topupTx, h>>
  BY DEF ConfirmCashOrder, Debit, CreateOrGetCharge, MarkPaid, CreatePlatformCommission,
         commissionVars, editVars, topupVars
<1>4. Record("commission", key, d, -fee, new) /\ Debited(d, new)
  BY DEF ConfirmCashOrder, Debit
<1>5. key \in Order \X Trip /\ key[1] = o /\ m \in Movement
  <2>1. tripOf[o] \in Trip
    BY <1>1, <1>3 DEF TypeOK
  <2>2. key \in Order \X Trip /\ key[1] = o
    BY <2>1
  <2> HIDE DEF key, new, d
  <2> QED BY <1>2, <2>2, MvTyped
<1>6. ledger' = Append(ledger, m)
  BY <1>4, RecordIsAppend
<1>7. m.kind = "commission" /\ m.key = key /\ m.amount = -fee
  BY MvFacts
<1>8. balance' \in [Driver -> Int] /\ blocked' \subseteq Driver
  <2>1. \/ balance' = balance /\ blocked' = blocked \cup {d}
        \/ balance' = [balance EXCEPT ![d] = new] /\ blocked' = blocked
    BY <1>4 DEF Debited, Block, SetBalance
  <2> QED BY <1>1, <1>2, <2>1 DEF TypeOK, WalletsTyped
<1> HIDE DEF d, new, key, m
<1>9. ledger' \in Seq(Movement)
  BY <1>1, <1>5, <1>6, Appended
<1>10. TypeOK'
  <2>1. /\ status' \in [Order -> OrderRow]
        /\ \A x \in Order : status'[x] = "none" <=> status[x] = "none"
    BY <1>1, <1>3 DEF TypeOK, OrderRow, OrderStatuses
  <2>2. commissioned' \subseteq Order \X Trip
    BY <1>1, <1>3, <1>5 DEF TypeOK
  <2>3. commission' \in [Order -> Fees \cup {0}] /\ charged' \subseteq Order
    BY <1>1, <1>3 DEF TypeOK
  <2> QED BY <1>1, <1>3, <1>8, <1>9, <2>1, <2>2, <2>3 DEF TypeOK, WalletsTyped
<1>11. HandlerOK'
  BY <1>1, <1>3 DEF HandlerOK, TypeOK
<1>12. ChargeOK(o) /\ OrderOK(o)
  BY DEF IInv, ChargesOK, OrdersOK
<1>13. ~Moved("commission", key)
  BY <1>3 DEF IInv, CommissionedOK, Moved
<1>14. Unique'
  BY <1>1, <1>5, <1>6, <1>7, <1>13, OneKept DEF IInv
<1>15. RevertMirrorsCommission'
  BY <1>1, <1>5, <1>6, <1>7, MirrorKept DEF IInv
<1>16. /\ TopupsOK' /\ TracesOK' /\ CommissionedOK'
       /\ \A x \in Order \ {o} : ChargeOK(x)' /\ OrderOK(x)'
  <2>1. \A x \in Order \ {o} : /\ commission'[x] = commission[x]
                               /\ status'[x] = status[x] /\ tripOf'[x] = tripOf[x]
                               /\ x \in charged' <=> x \in charged
                               /\ x \in noted' <=> x \in noted
    BY <1>1, <1>3 DEF TypeOK
  <2>2. \A x \in Order \ {o}, t \in Trip :
          <<x, t>> \in commissioned' => <<x, t>> \in commissioned
    BY <1>3, <1>5
  <2> QED BY <1>3, <1>5, <1>6, <1>7, <2>1, <2>2, OthersKept
<1>17. /\ Moved("revert", o)' <=> Moved("revert", o)
       /\ DOMAIN ledger' = 1 .. Len(ledger) + 1 /\ ledger'[Len(ledger) + 1] = m
       /\ Len(ledger) + 1 \in DOMAIN ledger'
  BY <1>1, <1>5, <1>6, <1>7, MovedAppended, Appended
<1>18. commission'[o] = fee /\ status'[o] = "paid" /\ tripOf'[o] = tripOf[o]
  BY <1>1, <1>3 DEF TypeOK
<1>19. ChargeOK(o)'
  <2>1. ASSUME NEW i \in DOMAIN ledger', ledger'[i].kind = "commission", ledger'[i].key[1] = o
        PROVE  ledger'[i].amount = -fee
    <3>1. CASE i \in DOMAIN ledger
      <4>1. ledger'[i] = ledger[i]
        BY <1>1, <1>5, <1>6, <3>1, Appended
      <4>2. commission[o] > 0 /\ ledger[i].amount = -commission[o]
        BY <1>12, <2>1, <3>1, <4>1 DEF ChargeOK
      <4> QED BY <1>3, <1>12, <4>1, <4>2 DEF OrderOK
    <3>2. CASE i \notin DOMAIN ledger
      BY <1>1, <1>5, <1>6, <1>7, <3>2, Appended
    <3> QED BY <3>1, <3>2
  <2>2. \E i \in DOMAIN ledger' : ledger'[i].kind = "commission" /\ ledger'[i].key[1] = o
    BY <1>5, <1>7, <1>17
  <2>3. Moved("revert", o)' => o \in refunded'
    BY <1>3, <1>12, <1>17 DEF ChargeOK
  <2>4. ASSUME o \notin edited', NEW t \in Trip, <<o, t>> \in commissioned'
        PROVE  t = tripOf'[o]
    <3>1. CASE <<o, t>> \in commissioned
      BY <1>3, <1>12, <1>18, <2>4, <3>1 DEF ChargeOK
    <3>2. CASE <<o, t>> = <<o, tripOf[o]>>
      BY <1>18, <3>2
    <3> QED BY <1>3, <2>4, <3>1, <3>2 DEF key
  <2> QED BY <1>2, <1>18, <2>1, <2>2, <2>3, <2>4 DEF ChargeOK
<1>20. ASSUME o \notin edited PROVE ~Moved("revert", o)
  <2>1. ASSUME NEW j \in DOMAIN ledger, ledger[j].kind = "commission", ledger[j].key[1] = o
        PROVE  FALSE
    <3>1. ledger[j].key \in commissioned
      BY <2>1 DEF IInv, CommissionedOK
    <3>2. commissioned \subseteq Order \X Trip
      BY <1>1 DEF TypeOK
    <3>3. PICK t \in Trip : ledger[j].key = <<o, t>>
      BY <2>1, <3>1, <3>2
    <3>4. t = tripOf[o]
      BY <1>12, <1>20, <3>1, <3>3 DEF ChargeOK
    <3> QED BY <1>3, <3>1, <3>3, <3>4 DEF key
  <2>2. ASSUME NEW i \in DOMAIN ledger, ledger[i].kind = "revert", ledger[i].key = o
        PROVE  FALSE
    <3>1. PICK j \in 1 .. i - 1 : ledger[j].kind = "commission" /\ ledger[j].key[1] = o
      BY <2>2 DEF IInv, RevertMirrorsCommission
    <3>2. j \in DOMAIN ledger
      BY <1>1, <1>5, <1>6, <3>1, Appended
    <3> QED BY <2>1, <3>1, <3>2
  <2> QED BY <2>2 DEF Moved
<1>21. OrderOK(o)'
  <2>1. o \in charged' <=> commission'[o] > 0
    BY <1>2, <1>3, <1>18
  <2>2. ASSUME o \notin edited PROVE o \notin noted
    BY <1>3, <1>12, <2>2 DEF OrderOK
  <2> QED BY <1>2, <1>3, <1>17, <1>18, <1>20, <2>1, <2>2 DEF OrderOK
<1> QED BY <1>10, <1>11, <1>14, <1>15, <1>16, <1>19, <1>21 DEF IInv, ChargesOK, OrdersOK

\* A refund, of either kind, gives the commission back if there was one.
LEMMA RefundKeeps ==
  ASSUME IInv, NEW o \in Order, NEW linked \in Driver \cup {NoDriver},
         NEW to \in {"pending", "refunded"},
         Refundable(o), CreateRefund(o), Revert(o, linked),
         status' = [status EXCEPT ![o] = to],
         noted' = IF to = "refunded" THEN noted \cup {o} ELSE noted,
         UNCHANGED <<tripOf, charged, commissioned, commission, adjusted>>,
         UNCHANGED <<edited, edits, topup, topupTx, h>>
  PROVE  IInv'
<1> DEFINE d == DriverOf[o]
           amount == commission[o]
           m == Mv("revert", o, linked, amount, balance[d] + amount)
<1>1. TypeOK /\ HandlerOK /\ ledger \in Seq(Movement)
  BY Types DEF IInv
<1>2. /\ d \in Driver /\ balance[d] \in Int
      /\ amount \in Int /\ amount >= 0 /\ balance[d] + amount \in Int
  BY <1>1, Types
<1>3. /\ status[o] = "paid" /\ o \notin refunded
      /\ refunded' = refunded \cup {o}
      /\ blocked' = blocked
  BY DEF Refundable, HasRefund, CreateRefund, Revert
<1>4. ChargeOK(o) /\ OrderOK(o)
  BY DEF IInv, ChargesOK, OrdersOK
<1>5. HandlerOK'
  BY <1>1, <1>3 DEF HandlerOK, TypeOK
<1>6. status'[o] = to /\ \A x \in Order \ {o} : status'[x] = status[x]
  BY <1>1 DEF TypeOK
<1>7. ASSUME balance' \in [Driver -> Int], ledger' \in Seq(Movement) PROVE TypeOK'
  BY <1>1, <1>3, <1>7 DEF TypeOK, WalletsTyped, OrderRow, OrderStatuses
<1>8. CASE amount > 0
  <2>1. /\ balance' = [balance EXCEPT ![d] = balance[d] + amount]
        /\ Record("revert", o, linked, amount, balance[d] + amount)
    BY <1>8 DEF Revert, RevertAmount, SetBalance
  <2>2. m \in Movement
    BY <1>2, MvTyped
  <2>3. ledger' = Append(ledger, m)
    BY <2>1, RecordIsAppend
  <2>4. m.kind = "revert" /\ m.key = o /\ m.amount = amount
    BY MvFacts
  <2>5. balance' \in [Driver -> Int]
    BY <1>1, <1>2, <2>1 DEF TypeOK, WalletsTyped
  <2> HIDE DEF m
  <2>6. TypeOK'
    BY <1>1, <1>7, <2>2, <2>3, <2>5, Appended
  <2>7. ~Moved("revert", o)
    BY <1>3, <1>4 DEF ChargeOK
  <2>8. Unique'
    BY <1>1, <2>2, <2>3, <2>4, <2>7, OneKept DEF IInv
  <2>9. RevertMirrorsCommission'
    <3>1. PICK j \in DOMAIN ledger : ledger[j].kind = "commission" /\ ledger[j].key[1] = o
      BY <1>4, <1>8 DEF ChargeOK
    <3>2. ledger[j].amount = -amount
      BY <1>4, <3>1 DEF ChargeOK
    <3> QED BY <1>1, <2>2, <2>3, <2>4, <3>1, <3>2, MirrorKept DEF IInv
  <2>10. /\ TopupsOK' /\ TracesOK' /\ CommissionedOK'
         /\ \A x \in Order \ {o} : ChargeOK(x)' /\ OrderOK(x)'
    <3>1. \A x \in Order \ {o} : x \in noted' <=> x \in noted
      OBVIOUS
    <3> QED BY <1>3, <1>6, <2>2, <2>3, <2>4, <3>1, OthersKept
  <2>11. Moved("revert", o)'
    BY <1>1, <2>2, <2>3, <2>4, MovedAppended
  <2>12. ChargeOK(o)'
    <3>1. ASSUME NEW i \in DOMAIN ledger', ledger'[i].kind = "commission",
                 ledger'[i].key[1] = o
          PROVE  commission[o] > 0 /\ ledger'[i].amount = -commission[o]
      <4>1. i \in DOMAIN ledger /\ ledger'[i] = ledger[i]
        BY <1>1, <2>2, <2>3, <2>4, <3>1, Appended
      <4> QED BY <1>4, <3>1, <4>1 DEF ChargeOK
    <3>2. ASSUME commission[o] > 0
          PROVE  \E i \in DOMAIN ledger' :
                   ledger'[i].kind = "commission" /\ ledger'[i].key[1] = o
      <4>1. PICK i \in DOMAIN ledger : ledger[i].kind = "commission" /\ ledger[i].key[1] = o
        BY <1>4, <3>2 DEF ChargeOK
      <4>2. i \in DOMAIN ledger' /\ ledger'[i] = ledger[i]
        BY <1>1, <2>2, <2>3, <4>1, Appended
      <4> QED BY <4>1, <4>2
    <3> QED BY <1>3, <1>4, <2>11, <3>1, <3>2 DEF ChargeOK
  <2>13. OrderOK(o)'
    <3>1. o \notin edited => o \notin noted
      BY <1>3, <1>4 DEF OrderOK
    <3>2. (to = "refunded" <=> o \in noted') \/ o \in edited
      BY <3>1
    <3> QED BY <1>4, <1>6, <2>11, <3>2 DEF OrderOK
  <2> QED BY <1>5, <2>6, <2>8, <2>9, <2>10, <2>12, <2>13 DEF IInv, ChargesOK, OrdersOK
<1>9. CASE ~(amount > 0)
  <2>1. UNCHANGED <<balance, ledger>>
    BY <1>9 DEF Revert, RevertAmount
  <2>2. TypeOK'
    BY <1>1, <1>7, <2>1 DEF TypeOK, WalletsTyped
  <2>3. \A kind, key : Moved(kind, key)' <=> Moved(kind, key)
    BY <2>1 DEF Moved
  <2>4. Unique' /\ CommissionedOK'
    BY <2>1 DEF IInv, Unique, CommissionedOK
  <2>5. RevertMirrorsCommission'
    BY <2>1 DEF IInv, RevertMirrorsCommission
  <2>6. ASSUME NEW x \in Order PROVE ChargeOK(x)'
    <3>1. ChargeOK(x)
      BY DEF IInv, ChargesOK
    <3> QED BY <1>3, <2>1, <2>3, <3>1 DEF ChargeOK
  <2>7. TracesOK'
    <3>1. ASSUME NEW a \in adjusted PROVE TraceOK(a)'
      <4>1. TraceOK(a)
        BY DEF IInv, TracesOK
      <4> QED BY <2>1, <2>3, <4>1 DEF TraceOK
    <3> QED BY <2>3, <3>1 DEF IInv, TracesOK
  <2>8. TopupsOK'
    BY <2>3, TopupsSame DEF IInv
  <2>9. ASSUME NEW x \in Order PROVE OrderOK(x)'
    <3>1. OrderOK(x)
      BY DEF IInv, OrdersOK
    <3>2. CASE x = o
      BY <1>3, <1>9, <2>3, <3>1, <3>2 DEF OrderOK
    <3>3. CASE x # o
      BY <1>6, <2>3, <3>1, <3>3, OrderSame
    <3> QED BY <3>2, <3>3
  <2> QED BY <1>5, <2>2, <2>4, <2>5, <2>6, <2>7, <2>8, <2>9 DEF IInv, ChargesOK, OrdersOK
<1> QED BY <1>8, <1>9

LEMMA RefundsKeep ==
  ASSUME IInv, NEW o \in Order, ImmediateRefund(o) \/ NormalRefund(o)
  PROVE  IInv'
<1>1. CASE ImmediateRefund(o)
  <2>1. /\ Refundable(o) /\ CreateRefund(o) /\ Revert(o, NoDriver)
        /\ status' = [status EXCEPT ![o] = "pending"]
        /\ noted' = noted
        /\ UNCHANGED <<tripOf, charged, commissioned, commission, adjusted>>
        /\ UNCHANGED <<edited, edits, topup, topupTx, h>>
    BY <1>1 DEF ImmediateRefund, commissionVars, editVars, topupVars
  <2> QED BY <2>1, RefundKeeps
<1>2. CASE NormalRefund(o)
  <2>1. /\ Refundable(o) /\ CreateRefund(o) /\ Revert(o, DriverOf[o])
        /\ status' = [status EXCEPT ![o] = "refunded"]
        /\ noted' = noted \cup {o}
        /\ UNCHANGED <<tripOf, charged, commissioned, commission, adjusted>>
        /\ UNCHANGED <<edited, edits, topup, topupTx, h>>
    BY <1>2 DEF NormalRefund, RefundOffPlatform, NoteRefund, commissionVars, editVars, topupVars
  <2>2. DriverOf[o] \in Driver
    BY SettlementAssumption
  <2> QED BY <2>1, <2>2, RefundKeeps
<1> QED BY <1>1, <1>2

\* The orders and their transactions when the movement is another's.
LEMMA OrdersKept ==
  ASSUME IInv, NEW m \in Movement, ledger' = Append(ledger, m),
         m.kind \in {"topup", "adjust"},
         UNCHANGED <<status, tripOf, charged, commissioned, commission, refunded, noted>>,
         UNCHANGED edited
  PROVE  RevertMirrorsCommission' /\ CommissionedOK' /\ ChargesOK' /\ OrdersOK'
<1>1. ledger \in Seq(Movement)
  BY Types DEF IInv
<1>2. RevertMirrorsCommission'
  BY <1>1, MirrorKept DEF IInv
<1>3. ASSUME NEW o \in Order PROVE ChargeOK(o)' /\ OrderOK(o)'
  <2>1. ChargeOK(o) /\ OrderOK(o)
    BY DEF IInv, ChargesOK, OrdersOK
  <2>2. ChargeOK(o)'
    BY <1>1, <2>1, ChargeKept
  <2>3. Moved("revert", o)' <=> Moved("revert", o)
    BY <1>1, MovedAppended
  <2>4. OrderOK(o)'
    BY <2>1, <2>3, OrderSame
  <2> QED BY <2>2, <2>4
<1>4. CommissionedOK'
  BY <1>1, CommissionedKept DEF IInv
<1> QED BY <1>2, <1>3, <1>4 DEF ChargesOK, OrdersOK

\* The movement of a top-up is written once, with its record and its transaction.
LEMMA TopupCreditKeeps ==
  ASSUME IInv, NEW w \in Worker, TopupCredit(w)
  PROVE  IInv'
<1> DEFINE c == h[w].topup
           d == TopupDriver[c]
           new == balance[d] + Credit
           m == Mv("topup", c, d, Credit, new)
<1>1. TypeOK /\ HandlerOK /\ ledger \in Seq(Movement)
  BY Types DEF IInv
<1>2. /\ ~Moved("topup", c)
      /\ balance' = [balance EXCEPT ![d] = new]
      /\ Record("topup", c, d, Credit, new)
      /\ topup' = [topup EXCEPT ![c] = "completed"]
      /\ topupTx' = [topupTx EXCEPT ![c] = "processed"]
      /\ h' = [h EXCEPT ![w] = Idle]
      /\ UNCHANGED <<status, tripOf, charged, commissioned, commission, refunded, noted>>
      /\ adjusted' = adjusted
      /\ UNCHANGED <<blocked, edited, edits>>
  BY DEF TopupCredit, Credited, SetBalance, Completion, MarkProcessed, orderVars,
         commissionVars, editVars
<1>3. h[w].pc = "topup"
  BY DEF TopupCredit
<1>4. c \in Topup
  BY <1>1, <1>3 DEF HandlerOK
<1>5. d \in Driver /\ balance[d] \in Int /\ Credit \in Int /\ new \in Int
  BY <1>1, <1>4, Types
<1>6. m \in Movement
  BY <1>4, <1>5, MvTyped
<1>7. ledger' = Append(ledger, m)
  BY <1>2, RecordIsAppend
<1>8. m.kind = "topup" /\ m.key = c
  BY MvFacts
<1> HIDE DEF m, new, d
<1>9. ledger' \in Seq(Movement)
  BY <1>1, <1>6, <1>7, Appended
<1>10. balance' \in [Driver -> Int]
  BY <1>1, <1>2, <1>5 DEF TypeOK, WalletsTyped
<1>11. h' \in [Worker -> Handler]
  BY <1>1, <1>2, IdleFacts DEF TypeOK
<1>12. /\ topup' \in [Topup -> TopupRow]
       /\ topupTx' \in [Topup -> {"none", "pending", "processed"}]
  BY <1>1, <1>2, <1>4 DEF TypeOK, TopupRow
<1>13. TypeOK'
  BY <1>1, <1>2, <1>9, <1>10, <1>11, <1>12 DEF TypeOK, WalletsTyped
<1>14. HandlerOK'
  BY <1>1, <1>2, IdleFacts DEF HandlerOK, TypeOK
<1>15. Unique'
  BY <1>1, <1>2, <1>6, <1>7, <1>8, OneKept DEF IInv
<1>16. RevertMirrorsCommission' /\ CommissionedOK' /\ ChargesOK' /\ OrdersOK'
  BY <1>2, <1>6, <1>7, <1>8, OrdersKept
<1>17. TopupsOK'
  <2>1. ASSUME NEW x \in Topup PROVE TopupOK(x)'
    <3>1. TopupOK(x)
      BY DEF IInv, TopupsOK
    <3>2. Moved("topup", x)' <=> Moved("topup", x) \/ x = c
      BY <1>1, <1>6, <1>7, <1>8, MovedAppended
    <3>3. CASE x = c
      <4>1. topup'[c] = "completed" /\ topupTx'[c] = "processed"
        BY <1>1, <1>2, <1>4 DEF TypeOK
      <4> QED BY <3>2, <3>3, <4>1 DEF TopupOK
    <3>4. CASE x # c
      <4>1. topup'[x] = topup[x] /\ topupTx'[x] = topupTx[x]
        BY <1>1, <1>2, <3>4 DEF TypeOK
      <4> QED BY <3>1, <3>2, <3>4, <4>1 DEF TopupOK
    <3> QED BY <3>3, <3>4
  <2> QED BY <2>1 DEF TopupsOK
<1>18. TracesOK'
  <2>1. \A key : Moved("adjust", key)' <=> Moved("adjust", key)
    BY <1>1, <1>6, <1>7, <1>8, MovedAppended
  <2>2. ASSUME NEW a \in adjusted PROVE TraceOK(a)'
    <3>1. TraceOK(a)
      BY DEF IInv, TracesOK
    <3> QED BY <1>1, <1>6, <1>7, <1>8, <3>1, TraceKept
  <2> QED BY <1>2, <2>1, <2>2 DEF IInv, TracesOK
<1> QED BY <1>13, <1>14, <1>15, <1>16, <1>17, <1>18 DEF IInv

\* The tables of top-ups change and the ledger does not.
LEMMA TopupTablesStep ==
  ASSUME IInv, TypeOK', HandlerOK',
         UNCHANGED <<status, tripOf, charged, commissioned, commission, refunded, noted>>,
         UNCHANGED <<adjusted, ledger, edited>>,
         TopupsOK'
  PROVE  IInv'
<1>1. ASSUME NEW o \in Order PROVE OrderOK(o)'
  <2>1. OrderOK(o)
    BY DEF IInv, OrdersOK
  <2> QED BY <2>1, LedgerSame, OrderSame
<1>2. ChargesOK'
  BY ChargesSame DEF IInv
<1> QED BY <1>1, <1>2, LedgerSame DEF IInv, OrdersOK

LEMMA TopupAgainKeeps ==
  ASSUME IInv, NEW w \in Worker, TopupAgain(w)
  PROVE  IInv'
<1> DEFINE c == h[w].topup
<1>1. /\ h[w].pc = "topup"
      /\ Moved("topup", c)
      /\ topup' = [topup EXCEPT ![c] = "completed"]
      /\ topupTx' = [topupTx EXCEPT ![c] = "processed"]
      /\ h' = [h EXCEPT ![w] = Idle]
      /\ UNCHANGED <<status, tripOf, charged, commissioned, commission, refunded, noted>>
      /\ adjusted' = adjusted
      /\ UNCHANGED <<balance, blocked, ledger, edited, edits>>
  BY DEF TopupAgain, Credited, Completion, MarkProcessed, orderVars, commissionVars,
         walletVars, editVars
<1>2. TypeOK /\ HandlerOK
  BY DEF IInv
<1>3. c \in Topup
  BY <1>1, <1>2 DEF HandlerOK
<1>4. TypeOK'
  BY <1>1, <1>2, <1>3, IdleFacts DEF TypeOK, WalletsTyped, TopupRow
<1>5. HandlerOK'
  BY <1>1, <1>2, IdleFacts DEF HandlerOK, TypeOK
<1>6. ASSUME NEW x \in Topup PROVE TopupOK(x)'
  <2>1. TopupOK(x)
    BY DEF IInv, TopupsOK
  <2>2. Moved("topup", x)' <=> Moved("topup", x)
    BY <1>1 DEF Moved
  <2>3. CASE x = c
    <3>1. topup'[c] = "completed" /\ topupTx'[c] = "processed"
      BY <1>1, <1>2, <1>3 DEF TypeOK
    <3> QED BY <1>1, <2>2, <2>3, <3>1 DEF TopupOK
  <2>4. CASE x # c
    <3>1. topup'[x] = topup[x] /\ topupTx'[x] = topupTx[x]
      BY <1>1, <1>2, <2>4 DEF TypeOK
    <3> QED BY <2>1, <2>2, <3>1 DEF TopupOK
  <2> QED BY <2>3, <2>4
<1> QED BY <1>1, <1>4, <1>5, <1>6, TopupTablesStep DEF TopupsOK

LEMMA CreateCashTopupKeeps ==
  ASSUME IInv, NEW c \in Topup, CreateCashTopup(c)
  PROVE  IInv'
<1>1. /\ topup[c] = "none"
      /\ topup' = [topup EXCEPT ![c] = "pending"]
      /\ topupTx' = [topupTx EXCEPT ![c] = "pending"]
      /\ UNCHANGED <<status, tripOf, charged, commissioned, commission, refunded, noted>>
      /\ adjusted' = adjusted
      /\ UNCHANGED <<balance, blocked, ledger, edited, edits, h>>
  BY DEF CreateCashTopup, CreateWalletTopupPending, CreatePending, orderVars, commissionVars,
         walletVars,
         editVars
<1>2. TypeOK /\ HandlerOK
  BY DEF IInv
<1>3. TypeOK'
  BY <1>1, <1>2 DEF TypeOK, WalletsTyped, TopupRow
<1>4. HandlerOK'
  BY <1>1, <1>2 DEF HandlerOK
<1>5. ASSUME NEW x \in Topup PROVE TopupOK(x)'
  <2>1. TopupOK(x)
    BY DEF IInv, TopupsOK
  <2>2. Moved("topup", x)' <=> Moved("topup", x)
    BY <1>1 DEF Moved
  <2>3. CASE x = c
    <3>1. topup'[c] = "pending" /\ topupTx'[c] = "pending"
      BY <1>1, <1>2 DEF TypeOK
    <3> QED BY <1>1, <2>1, <2>2, <2>3, <3>1 DEF TopupOK
  <2>4. CASE x # c
    <3>1. topup'[x] = topup[x] /\ topupTx'[x] = topupTx[x]
      BY <1>1, <1>2, <2>4 DEF TypeOK
    <3> QED BY <2>1, <2>2, <3>1 DEF TopupOK
  <2> QED BY <2>3, <2>4
<1> QED BY <1>1, <1>3, <1>4, <1>5, TopupTablesStep DEF TopupsOK

\* An adjustment leaves one trace, and the movement it calls for.
LEMMA AdjustKeeps ==
  ASSUME IInv, NEW o \in Order, NEW s \in Token, NEW delta \in Deltas,
         AdjustCommission(o, s, delta)
  PROVE  IInv'
<1> DEFINE d == DriverOf[o]
           new == balance[d] - delta
           m == Mv("adjust", <<o, s>>, d, -delta, new)
<1>0. PICK a : a = [order |-> o, seq |-> s, original |-> commission[o], delta |-> delta]
  OBVIOUS
<1>1. TypeOK /\ HandlerOK /\ ledger \in Seq(Movement)
  BY Types DEF IInv
<1>2. /\ d \in Driver /\ balance[d] \in Int /\ commission[o] \in Nat
      /\ commission[o] \in Fees \cup {0}
      /\ delta \in Int /\ -delta \in Int /\ new \in Int
  BY <1>1, Types, SettlementAssumption
<1>3. /\ \A b \in adjusted : <<b.order, b.seq>> # <<o, s>>
      /\ adjusted' = adjusted \cup {a}
      /\ UNCHANGED <<status, tripOf, charged, commissioned, commission, refunded, noted>>
      /\ blocked' = blocked
      /\ UNCHANGED <<edited, edits, topup, topupTx, h>>
  BY <1>0 DEF AdjustCommission, Adjusted, OriginalFee, commissionVars, editVars, topupVars
<1>4. /\ a \in Adjustment /\ a.order = o /\ a.seq = s
      /\ a.original = commission[o] /\ a.delta = delta
  BY <1>0, <1>2 DEF Adjustment
<1>5. ~Moved("adjust", <<o, s>>)
  BY <1>3 DEF IInv, TracesOK
<1>6. HandlerOK'
  BY <1>1, <1>3 DEF HandlerOK
<1>7. ASSUME balance' \in [Driver -> Int], ledger' \in Seq(Movement) PROVE TypeOK'
  BY <1>1, <1>3, <1>4, <1>7 DEF TypeOK, WalletsTyped
<1>8. \A b, e \in adjusted' : b.order = e.order /\ b.seq = e.seq => b = e
  <2>1. \A b \in adjusted : ~(b.order = o /\ b.seq = s)
    BY <1>3
  <2> QED BY <1>3, <1>4, <2>1 DEF IInv, TracesOK
<1>9. ASSUME \A x \in Order, t \in Token : Moved("adjust", <<x, t>>)' =>
               Moved("adjust", <<x, t>>) \/ (x = o /\ t = s)
      PROVE  \A x \in Order, t \in Token : Moved("adjust", <<x, t>>)' =>
               \E b \in adjusted' : b.order = x /\ b.seq = t
  <2> SUFFICES ASSUME NEW x \in Order, NEW t \in Token, Moved("adjust", <<x, t>>)'
               PROVE  \E b \in adjusted' : b.order = x /\ b.seq = t
    OBVIOUS
  <2>1. CASE x = o /\ t = s
    BY <1>3, <1>4, <2>1
  <2>2. CASE Moved("adjust", <<x, t>>)
    BY <1>3, <2>2 DEF IInv, TracesOK
  <2> QED BY <1>9, <2>1, <2>2
<1>10. CASE delta = 0
  <2>1. UNCHANGED <<balance, ledger>>
    BY <1>10 DEF AdjustCommission
  <2>2. TypeOK'
    BY <1>1, <1>7, <2>1 DEF TypeOK, WalletsTyped
  <2>3. \A kind, key : Moved(kind, key)' <=> Moved(kind, key)
    BY <2>1 DEF Moved
  <2>4. Unique' /\ RevertMirrorsCommission' /\ CommissionedOK'
    BY <1>3, <2>1 DEF IInv, Unique, RevertMirrorsCommission, CommissionedOK
  <2>5. ASSUME NEW x \in Order PROVE ChargeOK(x)' /\ OrderOK(x)'
    <3>1. ChargeOK(x) /\ OrderOK(x)
      BY DEF IInv, ChargesOK, OrdersOK
    <3>2. ChargeOK(x)'
      BY <1>3, <2>1, <2>3, <3>1 DEF ChargeOK
    <3>3. OrderOK(x)'
      BY <1>3, <2>3, <3>1, OrderSame
    <3> QED BY <3>2, <3>3
  <2>6. TopupsOK'
    BY <1>3, <2>3, TopupsSame DEF IInv
  <2>7. ASSUME NEW b \in adjusted' PROVE TraceOK(b)'
    <3>1. CASE b \in adjusted
      <4>1. TraceOK(b)
        BY <3>1 DEF IInv, TracesOK
      <4> QED BY <2>1, <2>3, <4>1 DEF TraceOK
    <3>2. CASE b = a
      <4>1. ~Moved("adjust", <<a.order, a.seq>>)'
        BY <1>4, <1>5, <2>3
      <4> QED BY <1>4, <1>10, <3>2, <4>1 DEF TraceOK, Moved
    <3> QED BY <1>3, <3>1, <3>2
  <2>8. TracesOK'
    BY <1>8, <1>9, <2>3, <2>7 DEF TracesOK
  <2> QED BY <1>6, <2>2, <2>4, <2>5, <2>6, <2>8 DEF IInv, ChargesOK, OrdersOK
<1>11. CASE delta # 0
  <2>1. balance' = [balance EXCEPT ![d] = new] /\ Record("adjust", <<o, s>>, d, -delta, new)
    BY <1>11 DEF AdjustCommission, AdjustWallet, SetBalance
  <2>2. m \in Movement
    BY <1>2, MvTyped
  <2>3. ledger' = Append(ledger, m)
    BY <2>1, RecordIsAppend
  <2>4. m.kind = "adjust" /\ m.key = <<o, s>> /\ m.amount = -delta
    BY MvFacts
  <2>5. balance' \in [Driver -> Int]
    BY <1>1, <1>2, <2>1 DEF TypeOK, WalletsTyped
  <2> HIDE DEF m, new
  <2>6. TypeOK'
    BY <1>1, <1>7, <2>2, <2>3, <2>5, Appended
  <2>7. Unique'
    BY <1>1, <1>5, <2>2, <2>3, <2>4, OneKept DEF IInv
  <2>8. RevertMirrorsCommission' /\ CommissionedOK' /\ ChargesOK' /\ OrdersOK'
    BY <1>3, <2>2, <2>3, <2>4, OrdersKept
  <2>9. \A kind, key : Moved(kind, key)' <=>
          Moved(kind, key) \/ (kind = "adjust" /\ key = <<o, s>>)
    BY <1>1, <2>2, <2>3, <2>4, MovedAppended
  <2>10. TopupsOK'
    BY <1>3, <2>9, TopupsSame DEF IInv
  <2>11. TraceOK(a)'
    <3>1. Moved("adjust", <<a.order, a.seq>>)'
      BY <1>4, <2>9
    <3>2. ASSUME NEW i \in DOMAIN ledger', ledger'[i].kind = "adjust",
                 ledger'[i].key = <<a.order, a.seq>>
          PROVE  /\ ledger'[i].amount = -a.delta
                 /\ a.original > 0 => \E j \in 1 .. i - 1 :
                      /\ ledger'[j].kind = "commission" /\ ledger'[j].key[1] = a.order
                      /\ ledger'[j].amount = -a.original
      <4>1. i = Len(ledger) + 1
        <5>1. i \notin DOMAIN ledger
          BY <1>1, <1>4, <1>5, <2>2, <2>3, <3>2, Appended DEF Moved
        <5> QED BY <1>1, <2>2, <2>3, <5>1, Appended
      <4>2. ledger'[i].amount = -a.delta
        BY <1>1, <1>4, <2>2, <2>3, <2>4, <4>1, Appended
      <4>3. ASSUME a.original > 0
            PROVE  \E j \in 1 .. i - 1 :
                     /\ ledger'[j].kind = "commission" /\ ledger'[j].key[1] = a.order
                     /\ ledger'[j].amount = -a.original
        <5>1. ChargeOK(o)
          BY DEF IInv, ChargesOK
        <5>2. PICK j \in DOMAIN ledger : ledger[j].kind = "commission" /\ ledger[j].key[1] = o
          BY <1>4, <4>3, <5>1 DEF ChargeOK
        <5>3. ledger[j].amount = -commission[o]
          BY <5>1, <5>2 DEF ChargeOK
        <5>4. j \in 1 .. i - 1 /\ ledger'[j] = ledger[j]
          BY <1>1, <2>2, <2>3, <4>1, <5>2, Appended
        <5> QED BY <1>4, <5>2, <5>3, <5>4
      <4> QED BY <4>2, <4>3
    <3>3. a.delta # 0
      BY <1>4, <1>11
    <3> QED BY <3>1, <3>2, <3>3 DEF TraceOK
  <2>12. ASSUME NEW b \in adjusted' PROVE TraceOK(b)'
    <3>1. CASE b \in adjusted
      <4>1. TraceOK(b)
        BY <3>1 DEF IInv, TracesOK
      <4>2. m.key # <<b.order, b.seq>>
        BY <1>3, <2>4, <3>1
      <4> QED BY <1>1, <2>2, <2>3, <4>1, <4>2, TraceKept
    <3> QED BY <1>3, <2>11, <3>1
  <2>13. TracesOK'
    BY <1>8, <1>9, <2>9, <2>12 DEF TracesOK
  <2> QED BY <1>6, <2>6, <2>7, <2>8, <2>10, <2>13 DEF IInv
<1> QED BY <1>10, <1>11

----------------------------------------------------------------------------
(* The invariant *)

LEMMA InitOK == Init => IInv
<1> SUFFICES ASSUME Init PROVE IInv
  OBVIOUS
<1>1. ledger = << >> /\ DOMAIN ledger = {} /\ ledger \in Seq(Movement)
  BY DEF Init
<1>2. \A kind, key : ~Moved(kind, key)
  BY <1>1 DEF Moved
<1>3. TypeOK
  <2>1. h \in [Worker -> Handler]
    BY IdleFacts DEF Init
  <2>2. edits \in 0 .. MaxEdits
    BY SettlementAssumption DEF Init
  <2>3. /\ status \in [Order -> OrderRow] /\ tripOf \in [Order -> Trip \cup {NoTrip}]
        /\ \A o \in Order : tripOf[o] = NoTrip /\ status[o] = "none"
        /\ commissioned = {} /\ commission \in [Order -> Fees \cup {0}]
        /\ topup \in [Topup -> TopupRow]
        /\ topupTx \in [Topup -> {"none", "pending", "processed"}]
    BY DEF Init, OrderRow, TopupRow
  <2>4. balance \in [Driver -> Int]
    BY DEF Init
  <2> QED BY <1>1, <2>1, <2>2, <2>3, <2>4 DEF Init, TypeOK, WalletsTyped
<1>4. HandlerOK
  BY IdleFacts DEF Init, HandlerOK
<1>5. Unique /\ RevertMirrorsCommission /\ CommissionedOK
  BY <1>1 DEF Unique, RevertMirrorsCommission, CommissionedOK
<1>6. ASSUME NEW o \in Order PROVE ChargeOK(o) /\ OrderOK(o)
  <2>1. /\ ~(commission[o] > 0) /\ status[o] = "none"
        /\ charged = {} /\ noted = {} /\ commissioned = {}
    BY DEF Init
  <2>2. ~Moved("revert", o)
    BY <1>2
  <2>3. ChargeOK(o)
    BY <1>1, <2>1, <2>2 DEF ChargeOK
  <2>4. OrderOK(o)
    BY <2>1, <2>2 DEF OrderOK
  <2> QED BY <2>3, <2>4
<1>7. TopupsOK
  BY <1>2 DEF Init, TopupsOK, TopupOK
<1>8. TracesOK
  BY <1>2 DEF Init, TracesOK
<1> QED BY <1>3, <1>4, <1>5, <1>6, <1>7, <1>8 DEF IInv, ChargesOK, OrdersOK

LEMMA StutterKeeps ==
  ASSUME IInv, UNCHANGED vars
  PROVE  IInv'
<1>1. /\ UNCHANGED <<status, tripOf, charged, commissioned, commission, refunded, noted>>
      /\ adjusted' = adjusted
      /\ UNCHANGED <<balance, blocked, ledger, topup, topupTx, edited, edits, h>>
  BY DEF vars, orderVars, commissionVars, walletVars, editVars, topupVars
<1>2. TypeOK /\ HandlerOK
  BY DEF IInv
<1>3. TypeOK'
  BY <1>1, <1>2 DEF TypeOK, WalletsTyped
<1>4. HandlerOK'
  BY <1>1, <1>2 DEF HandlerOK
<1> QED BY <1>1, <1>3, <1>4, TablesStep

LEMMA NextKeeps == IInv /\ [Next]_vars => IInv'
<1> SUFFICES ASSUME IInv, [Next]_vars PROVE IInv'
  OBVIOUS
<1>1. ASSUME NEW o \in Order, OrderStep(o) PROVE IInv'
  <2>1. ASSUME NEW fee \in Fees, ConfirmCashOrder(o, fee) PROVE IInv'
    BY <2>1, ConfirmKeeps
  <2>2. ASSUME NEW s \in Token, NEW delta \in Deltas, AdjustCommission(o, s, delta) PROVE IInv'
    BY <2>2, AdjustKeeps
  <2>3. ASSUME NEW t \in Trip, CreateOrder(o, t) PROVE IInv'
    BY <2>3, CreateOrderKeeps
  <2> QED BY <1>1, <2>1, <2>2, <2>3, RemoveOrderKeeps, RefundsKeep DEF OrderStep
<1>2. ASSUME NEW w \in Worker, HandlerStep(w) PROVE IInv'
  BY <1>2, EditReadKeeps, EditSelectKeeps, EditWriteKeeps, TopupReadKeeps, TopupCreditKeeps,
     TopupAgainKeeps, TopupThrowsKeeps DEF HandlerStep
<1>3. ASSUME NEW c \in Topup, CreateCashTopup(c) PROVE IInv'
  BY <1>3, CreateCashTopupKeeps
<1>4. ASSUME NEW d \in Driver, BlockDriverWallet(d) \/ UnblockDriverWallet(d) PROVE IInv'
  BY <1>4, ByHandKeeps
<1>5. CASE UNCHANGED vars
  BY <1>5, StutterKeeps
<1> QED BY <1>1, <1>2, <1>3, <1>4, <1>5 DEF Next

LEMMA Invariance == Spec => []IInv
BY InitOK, NextKeeps, PTL DEF Spec

----------------------------------------------------------------------------
(* Results *)

\* Every table and the ledger stay within their types, and the notes of refunds within
\* the orders that are refunded.
THEOREM TypesHold == Spec => []TypeOK
<1>1. IInv => TypeOK
  BY DEF IInv
<1> QED BY <1>1, Invariance, PTL

\* No transaction moves a wallet twice, and no order is charged twice unless an update has
\* been saved over it, however many operators confirm, refund and edit at the same time.
THEOREM MovementsAreUnique == Spec => []OneMovementPerTransaction
<1>1. IInv => OneMovementPerTransaction
  <2> SUFFICES ASSUME IInv, NEW i \in DOMAIN ledger, NEW j \in DOMAIN ledger,
                      ledger[i].kind = ledger[j].kind
               PROVE  /\ ledger[i].key = ledger[j].key => i = j
                      /\ ledger[i].kind = "commission" /\ ledger[i].key[1] = ledger[j].key[1] =>
                           /\ ledger[i].amount = ledger[j].amount
                           /\ i = j \/ ledger[i].key[1] \in edited
    BY DEF OneMovementPerTransaction
  <2>1. ledger[i].key = ledger[j].key => i = j
    BY DEF IInv, Unique
  <2>2. ASSUME ledger[i].kind = "commission", ledger[i].key[1] = ledger[j].key[1]
        PROVE  /\ ledger[i].amount = ledger[j].amount
               /\ i = j \/ ledger[i].key[1] \in edited
    <3>1. commissioned \subseteq Order \X Trip
      BY DEF IInv, TypeOK
    <3>2. ledger[i].key \in commissioned /\ ledger[j].key \in commissioned
      BY <2>2 DEF IInv, CommissionedOK
    <3>3. PICK o \in Order : \E t \in Trip : ledger[i].key = <<o, t>>
      BY <3>1, <3>2
    <3>4. PICK t \in Trip : ledger[i].key = <<o, t>>
      BY <3>3
    <3>5. PICK x \in Order : \E u \in Trip : ledger[j].key = <<x, u>>
      BY <3>1, <3>2
    <3>6. PICK u \in Trip : ledger[j].key = <<x, u>>
      BY <3>5
    <3>7. x = o
      BY <2>2, <3>4, <3>6
    <3>8. ChargeOK(o)
      BY DEF IInv, ChargesOK
    <3>9. ledger[i].amount = -commission[o] /\ ledger[j].amount = -commission[o]
      <4>1. ledger[i].key[1] = o /\ ledger[j].key[1] = o /\ ledger[j].kind = "commission"
        BY <2>2, <3>4, <3>6, <3>7
      <4> QED BY <2>2, <3>8, <4>1 DEF ChargeOK
    <3>10. o \in edited \/ t = u
      BY <3>2, <3>4, <3>6, <3>7, <3>8 DEF ChargeOK
    <3> QED BY <2>1, <3>4, <3>6, <3>7, <3>9, <3>10
  <2> QED BY <2>1, <2>2
<1> QED BY <1>1, Invariance, PTL

\* The records of top-ups and of adjustments say what the ledger says.
THEOREM RecordsAgree == Spec => []RecordsMatchLedger
<1>1. IInv => RecordsMatchLedger
  <2> SUFFICES ASSUME IInv PROVE RecordsMatchLedger
    OBVIOUS
  <2>1. ASSUME NEW c \in Topup
        PROVE  /\ topup[c] = "completed" <=> Moved("topup", c)
               /\ topupTx[c] = "processed" <=> Moved("topup", c)
    BY DEF IInv, TopupsOK, TopupOK
  <2>2. ASSUME NEW a \in adjusted PROVE TraceOK(a)
    BY DEF IInv, TracesOK
  <2> QED BY <2>1, <2>2 DEF RecordsMatchLedger, TraceOK
<1> QED BY <1>1, Invariance, PTL

\* What is given back for an order is what the ledger recorded as taken for it before,
\* which for the commission that blocked its wallet was never taken.
THEOREM RevertsMirror == Spec => []RevertMirrorsCommission
<1>1. IInv => RevertMirrorsCommission
  BY DEF IInv
<1> QED BY <1>1, Invariance, PTL

\* The status of an order nobody has edited answers for its commission and its note.
THEOREM CommissionsFollow == Spec => []CommissionFollowsOrder
<1>1. IInv => CommissionFollowsOrder
  BY DEF IInv, OrdersOK, OrderOK, CommissionFollowsOrder, Reverted
<1> QED BY <1>1, Invariance, PTL

----------------------------------------------------------------------------
(* Balances *)

\* The balance of a wallet that changes, and the movement that says so.
Moves ==
  \A d \in Driver : balance'[d] # balance[d] =>
    /\ Len(ledger') = Len(ledger) + 1
    /\ ledger'[Len(ledger')].amount = balance'[d] - balance[d]
    /\ ledger'[Len(ledger')].new = balance'[d]

\* A movement enters the ledger: it takes its wallet from the balance to the one it
\* records, unless its debit is written back.
Enters(d, m) ==
  /\ WalletOf(m) = d
  /\ m.new = balance[d] + m.amount
  /\ ledger' = Append(ledger, m)
  /\ balance' = IF WrittenBack(m) THEN balance ELSE [balance EXCEPT ![d] = m.new]

Entered == \E d \in Driver, m \in Movement : Enters(d, m)

\* A step that records a movement and sets the balance, or writes it back.
LEMMA SetAndRecord ==
  ASSUME TypeOK, NEW d \in Driver, NEW amount \in Int,
         NEW kind \in {"commission", "revert", "topup", "adjust"},
         NEW key \in Order \cup Topup \cup (Order \X Trip) \cup (Order \X Token),
         NEW linked \in Driver \cup {NoDriver},
         WalletOf(Mv(kind, key, linked, amount, balance[d] + amount)) = d,
         Record(kind, key, linked, amount, balance[d] + amount),
         balance' = IF kind = "commission" /\ balance[d] + amount < 0 /\ balance[d] >= 0
                    THEN balance
                    ELSE [balance EXCEPT ![d] = balance[d] + amount]
  PROVE  Entered
<1> DEFINE m == Mv(kind, key, linked, amount, balance[d] + amount)
<1>1. balance[d] \in Int /\ balance[d] + amount \in Int
  BY Types
<1>2. m \in Movement
  BY <1>1, MvTyped
<1>3. ledger' = Append(ledger, m)
  BY RecordIsAppend
<1>4. m.kind = kind /\ m.amount = amount /\ m.new = balance[d] + amount
  BY MvFacts
<1>5. WalletOf(m) = d
  OBVIOUS
<1> HIDE DEF m
<1>6. m.new - m.amount = balance[d]
  BY <1>1, <1>4
<1>7. WrittenBack(m) <=> kind = "commission" /\ balance[d] + amount < 0 /\ balance[d] >= 0
  BY <1>4, <1>6 DEF WrittenBack
<1>8. balance' = IF WrittenBack(m) THEN balance ELSE [balance EXCEPT ![d] = m.new]
  BY <1>4, <1>7
<1> QED BY <1>2, <1>3, <1>4, <1>5, <1>8 DEF Entered, Enters

LEMMA MovementsEnter == IInv /\ [Next]_vars => Entered \/ UNCHANGED <<balance, ledger>>
<1> SUFFICES ASSUME IInv, Next PROVE Entered \/ UNCHANGED <<balance, ledger>>
  BY DEF vars, walletVars
<1>1. TypeOK /\ HandlerOK
  BY DEF IInv
<1>2. ASSUME NEW o \in Order, NEW fee \in Fees, ConfirmCashOrder(o, fee) PROVE Entered
  <2> DEFINE d == DriverOf[o]
             key == <<o, tripOf[o]>>
  <2>0. key \in Order \X Trip
    BY <1>1, <1>2 DEF ConfirmCashOrder, MarkPaid, TypeOK
  <2>1. d \in Driver /\ balance[d] \in Int /\ fee \in Int /\ -fee \in Int
    BY <1>1, Types
  <2>2. balance[d] - fee = balance[d] + (-fee)
    BY <2>1
  <2>3. Record("commission", key, d, -fee, balance[d] + (-fee))
    BY <1>2, <2>2 DEF ConfirmCashOrder, Debit
  <2>4. balance' = IF balance[d] + (-fee) < 0 /\ balance[d] >= 0 THEN balance
                   ELSE [balance EXCEPT ![d] = balance[d] + (-fee)]
    BY <1>2, <2>2 DEF ConfirmCashOrder, Debit, Debited, SetBalance
  <2>5. WalletOf(Mv("commission", key, d, -fee, balance[d] + (-fee))) = d
    BY MvFacts DEF WalletOf
  <2> HIDE DEF key
  <2> QED BY <1>1, <2>0, <2>1, <2>3, <2>4, <2>5, SetAndRecord
<1>3. ASSUME NEW o \in Order, NEW linked \in Driver \cup {NoDriver}, Revert(o, linked)
      PROVE  Entered \/ UNCHANGED <<balance, ledger>>
  <2>1. DriverOf[o] \in Driver /\ commission[o] \in Int
    BY <1>1, Types
  <2>2. CASE commission[o] > 0
    <3> DEFINE d == DriverOf[o]
    <3>1. /\ balance' = [balance EXCEPT ![d] = balance[d] + commission[o]]
          /\ Record("revert", o, linked, commission[o], balance[d] + commission[o])
      BY <1>3, <2>2 DEF Revert, RevertAmount, SetBalance
    <3>2. WalletOf(Mv("revert", o, linked, commission[o], balance[d] + commission[o])) = d
      BY MvFacts DEF WalletOf
    <3> QED BY <1>1, <2>1, <3>1, <3>2, SetAndRecord
  <2>3. CASE ~(commission[o] > 0)
    BY <1>3, <2>3 DEF Revert, RevertAmount
  <2> QED BY <2>2, <2>3
<1>4. ASSUME NEW o \in Order, NEW s \in Token, NEW delta \in Deltas,
             AdjustCommission(o, s, delta)
      PROVE  Entered \/ UNCHANGED <<balance, ledger>>
  <2> DEFINE d == DriverOf[o]
  <2>1. d \in Driver /\ balance[d] \in Int /\ delta \in Int /\ -delta \in Int
    BY <1>1, Types, SettlementAssumption
  <2>2. balance[d] - delta = balance[d] + (-delta)
    BY <2>1
  <2>3. CASE delta = 0
    BY <1>4, <2>3 DEF AdjustCommission
  <2>4. CASE delta # 0
    <3>1. /\ balance' = [balance EXCEPT ![d] = balance[d] + (-delta)]
          /\ Record("adjust", <<o, s>>, d, -delta, balance[d] + (-delta))
      BY <1>4, <2>2, <2>4 DEF AdjustCommission, AdjustWallet, SetBalance
    <3>2. WalletOf(Mv("adjust", <<o, s>>, d, -delta, balance[d] + (-delta))) = d
      BY MvFacts DEF WalletOf
    <3> QED BY <1>1, <2>1, <3>1, <3>2, SetAndRecord
  <2> QED BY <2>3, <2>4
<1>5. ASSUME NEW w \in Worker, TopupCredit(w) PROVE Entered
  <2>1. h[w].topup \in Topup
    BY <1>1, <1>5 DEF HandlerOK, TopupCredit
  <2> DEFINE c == h[w].topup
             d == TopupDriver[c]
  <2>2. d \in Driver /\ Credit \in Int
    BY <1>1, <2>1, Types
  <2>3. /\ balance' = [balance EXCEPT ![d] = balance[d] + Credit]
        /\ Record("topup", c, d, Credit, balance[d] + Credit)
    BY <1>5 DEF TopupCredit, SetBalance
  <2>4. WalletOf(Mv("topup", c, d, Credit, balance[d] + Credit)) = d
    BY MvFacts DEF WalletOf
  <2> QED BY <1>1, <2>1, <2>2, <2>3, <2>4, SetAndRecord
<1>6. ASSUME NEW o \in Order, OrderStep(o) PROVE Entered \/ UNCHANGED <<balance, ledger>>
  <2>1. CASE ImmediateRefund(o) \/ NormalRefund(o)
    <3>1. DriverOf[o] \in Driver
      BY SettlementAssumption
    <3> QED BY <1>3, <2>1, <3>1 DEF ImmediateRefund, NormalRefund
  <2>2. CASE (\E t \in Trip : CreateOrder(o, t)) \/ RemoveOrder(o)
    BY <2>2 DEF CreateOrder, RemoveOrder, walletVars
  <2> QED BY <1>2, <1>4, <1>6, <2>1, <2>2 DEF OrderStep
<1>7. ASSUME NEW w \in Worker, HandlerStep(w)
      PROVE  Entered \/ UNCHANGED <<balance, ledger>>
  BY <1>5, <1>7 DEF HandlerStep, EditRead, EditSelect, EditWrite, TopupRead, TopupAgain,
         TopupThrows,
     walletVars
<1>8. ASSUME NEW c \in Topup, CreateCashTopup(c) PROVE UNCHANGED <<balance, ledger>>
  BY <1>8 DEF CreateCashTopup, walletVars
<1>9. ASSUME NEW d \in Driver, BlockDriverWallet(d) \/ UnblockDriverWallet(d)
      PROVE  UNCHANGED <<balance, ledger>>
  BY <1>9 DEF BlockDriverWallet, UnblockDriverWallet
<1> QED BY <1>6, <1>7, <1>8, <1>9 DEF Next

LEMMA BalancesMove == IInv /\ [Next]_vars => Moves
<1> SUFFICES ASSUME IInv, [Next]_vars PROVE Moves
  OBVIOUS
<1>1. TypeOK /\ ledger \in Seq(Movement)
  BY Types DEF IInv
<1>2. ASSUME Entered PROVE Moves
  <2>1. PICK d \in Driver, m \in Movement : Enters(d, m)
    BY <1>2 DEF Entered
  <2>2. Len(ledger') = Len(ledger) + 1 /\ ledger'[Len(ledger')] = m
    BY <1>1, <2>1, Appended DEF Enters
  <2>3. ASSUME NEW x \in Driver, balance'[x] # balance[x]
        PROVE  /\ m.amount = balance'[x] - balance[x]
               /\ m.new = balance'[x]
    <3>1. balance \in [Driver -> Int] /\ m.amount \in Int
      BY <1>1 DEF TypeOK, WalletsTyped, Movement
    <3>2. m.new = balance[d] + m.amount /\ balance' = [balance EXCEPT ![d] = m.new]
      BY <2>1, <2>3 DEF Enters
    <3>3. x = d /\ balance'[d] = m.new
      BY <2>3, <3>1, <3>2
    <3> QED BY <3>1, <3>2, <3>3
  <2> QED BY <2>2, <2>3 DEF Moves
<1> QED BY <1>2, MovementsEnter DEF Moves

\* No balance changes without a movement of that amount which records the balance left.
THEOREM BalancesAreAccounted == Spec => NoChangeWithoutMovement
<1>1. IInv /\ [Next]_vars => [Moves]_vars
  BY BalancesMove
<1>2. Spec => [][Moves]_vars
  BY <1>1, Invariance, PTL DEF Spec
<1> QED BY <1>2 DEF NoChangeWithoutMovement, Moves

----------------------------------------------------------------------------
(* What the ledger leaves in a wallet *)

\* A family of finite sets has a smallest one.
LEMMA SmallestOfFamily ==
  ASSUME NEW S, NEW F \in SUBSET FiniteSubsetsOf(S), F # {}
  PROVE  \E U \in F : \A V \in F : V \subseteq U => V = U
<1>1. PICK U \in F : \A V \in F : <<V, U>> \notin StrictSubsetOrdering(S)
  BY FS_StrictSubsetOrderingWellFounded, WFMin
<1>2. \A V \in F : V \in SUBSET S
  BY DEF FiniteSubsetsOf
<1> QED
  BY <1>1, <1>2 DEF StrictSubsetOrdering

\* A set of natural numbers has a least one.
LEMMA LeastNumber ==
  ASSUME NEW T \in SUBSET Nat, T # {}
  PROVE  \E n \in T : \A m \in T : n <= m
<1> DEFINE F == {1 .. n : n \in T}
<1>1. F \in SUBSET FiniteSubsetsOf(Nat) /\ F # {}
  <2>1. \A n \in T : IsFiniteSet(1 .. n) /\ 1 .. n \in SUBSET Nat
    BY FS_Interval
  <2> QED
    BY <2>1 DEF FiniteSubsetsOf
<1>2. PICK U \in F : \A V \in F : V \subseteq U => V = U
  <2> HIDE DEF F
  <2> QED
    BY <1>1, SmallestOfFamily
<1>3. PICK n \in T : U = 1 .. n
  OBVIOUS
<1>4. ASSUME NEW m \in T, ~(n <= m)
      PROVE  FALSE
  <2>1. 1 .. m \in F /\ 1 .. m \subseteq 1 .. n
    BY <1>4
  <2>2. 1 .. m = 1 .. n
    BY <1>2, <1>3, <2>1
  <2>3. n \in 1 .. n
    BY <1>4
  <2> QED
    BY <1>4, <2>2, <2>3
<1> QED
  BY <1>4

\* A set of positions has a last one.
LEMMA LastOf ==
  ASSUME NEW n \in Nat, NEW T \in SUBSET (1 .. n), T # {}
  PROVE  \E i \in T : \A j \in T : j <= i
<1> DEFINE D == {n - i : i \in T}
<1>1. D \in SUBSET Nat /\ D # {}
  <2>1. \A i \in T : n - i \in Nat
    OBVIOUS
  <2> QED BY <2>1
<1>2. PICK k \in D : \A m \in D : k <= m
  <2> HIDE DEF D
  <2> QED BY <1>1, LeastNumber
<1>3. PICK i \in T : k = n - i
  OBVIOUS
<1>4. ASSUME NEW j \in T PROVE j <= i
  <2>1. n - j \in D
    OBVIOUS
  <2>2. n - i <= n - j
    BY <1>2, <1>3, <2>1
  <2> QED BY <2>2
<1> QED BY <1>4

\* Appending changes nothing of what the movements before leave.
LEMMA LeftBefore ==
  ASSUME NEW l \in Seq(Movement), NEW m \in Movement, NEW d, NEW n \in 0 .. Len(l)
  PROVE  Left(Append(l, m), d, n) = Left(l, d, n)
<1>1. \A i \in 1 .. n : Append(l, m)[i] = l[i]
  OBVIOUS
<1> DEFINE kept(s) == {i \in 1 .. n : WalletOf(s[i]) = d /\ ~WrittenBack(s[i])}
<1>2. kept(Append(l, m)) = kept(l)
  BY <1>1
<1>3. CASE kept(l) = {}
  BY <1>2, <1>3 DEF Left
<1>4. CASE kept(l) # {}
  <2> DEFINE last == CHOOSE i \in kept(l) : \A j \in kept(l) : j <= i
  <2>1. kept(l) \subseteq 1 .. n
    OBVIOUS
  <2>2. \E i \in kept(l) : \A j \in kept(l) : j <= i
    <3> DEFINE T == kept(l)
    <3>1. n \in Nat /\ T \in SUBSET (1 .. n) /\ T # {}
      BY <1>4, <2>1
    <3> HIDE DEF T
    <3>2. \E i \in T : \A j \in T : j <= i
      BY <3>1, LastOf
    <3> QED BY <3>2 DEF T
  <2>3. last \in 1 .. n
    BY <2>1, <2>2
  <2>4. Left(Append(l, m), d, n) = Append(l, m)[last].new /\ Left(l, d, n) = l[last].new
    BY <1>2, <1>4 DEF Left
  <2> QED BY <1>1, <2>3, <2>4
<1> QED BY <1>3, <1>4

\* What is left once a movement has been appended.
LEMMA LeftAfter ==
  ASSUME NEW l \in Seq(Movement), NEW m \in Movement, NEW d
  PROVE  Left(Append(l, m), d, Len(l) + 1) =
           IF WalletOf(m) = d /\ ~WrittenBack(m) THEN m.new ELSE Left(l, d, Len(l))
<1> DEFINE n == Len(l)
           s == Append(l, m)
           keeps(i) == WalletOf(s[i]) = d /\ ~WrittenBack(s[i])
           before == {i \in 1 .. n : keeps(i)}
           after == {i \in 1 .. n + 1 : keeps(i)}
<1>1. n \in Nat /\ s[n + 1] = m
  OBVIOUS
<1>2. CASE WalletOf(m) = d /\ ~WrittenBack(m)
  <2>1. keeps(n + 1)
    BY <1>1, <1>2
  <2>2. n + 1 \in after /\ \A j \in after : j <= n + 1
    BY <1>1, <2>1
  <2>3. \A i \in after : (\A j \in after : j <= i) => i = n + 1
    BY <1>1, <2>2
  <2>4. (CHOOSE i \in after : \A j \in after : j <= i) = n + 1
    <3> HIDE DEF after, n
    <3> QED BY <2>2, <2>3
  <2>5. Left(s, d, n + 1) = s[n + 1].new
    BY <2>2, <2>4 DEF Left
  <2> QED BY <1>1, <1>2, <2>5
<1>3. CASE ~(WalletOf(m) = d /\ ~WrittenBack(m))
  <2>1. ~keeps(n + 1)
    BY <1>1, <1>3
  <2>2. 1 .. n + 1 = (1 .. n) \cup {n + 1}
    BY <1>1
  <2>3. after = before
    <3> HIDE DEF keeps
    <3> QED BY <2>1, <2>2
  <2>4. Left(s, d, n + 1) = Left(s, d, n)
    <3> DEFINE Value(K) == IF K = {} THEN 0 ELSE s[CHOOSE i \in K : \A j \in K : j <= i].new
    <3>1. Left(s, d, n + 1) = Value(after) /\ Left(s, d, n) = Value(before)
      BY DEF Left
    <3> HIDE DEF before, after, Value
    <3> QED BY <2>3, <3>1
  <2>5. Left(s, d, n) = Left(l, d, n)
    BY <1>1, LeftBefore
  <2> QED BY <1>3, <2>4, <2>5
<1> QED BY <1>2, <1>3

\* A movement that enters leaves the ledger explaining every balance.
LEMMA EnteredExplained ==
  ASSUME TypeOK, LedgerExplainsBalances, NEW d \in Driver, NEW m \in Movement, Enters(d, m)
  PROVE  LedgerExplainsBalances'
<1> DEFINE n == Len(ledger)
<1>1. ledger \in Seq(Movement) /\ balance \in [Driver -> Int]
  BY DEF TypeOK, WalletsTyped
<1>2. /\ ledger' = Append(ledger, m)
      /\ Len(ledger') = n + 1 /\ n \in Nat
      /\ DOMAIN ledger = 1 .. n /\ DOMAIN ledger' = 1 .. n + 1
      /\ \A i \in 1 .. n : ledger'[i] = ledger[i]
      /\ ledger'[n + 1] = m
  BY <1>1, Appended DEF Enters
<1>3. ASSUME NEW x \in Driver PROVE balance'[x] = Left(ledger', x, Len(ledger'))
  <2>1. balance[x] = Left(ledger, x, n)
    BY DEF LedgerExplainsBalances
  <2>2. balance'[x] = IF WalletOf(m) = x /\ ~WrittenBack(m) THEN m.new ELSE balance[x]
    BY <1>1 DEF Enters
  <2>3. Left(Append(ledger, m), x, n + 1) =
          IF WalletOf(m) = x /\ ~WrittenBack(m) THEN m.new ELSE Left(ledger, x, n)
    BY <1>1, LeftAfter
  <2> QED BY <1>2, <2>1, <2>2, <2>3
<1>4. ASSUME NEW i \in 1 .. n + 1
      PROVE  ledger'[i].new = Left(ledger', WalletOf(ledger'[i]), i - 1) + ledger'[i].amount
  <2>1. Left(Append(ledger, m), WalletOf(ledger'[i]), i - 1)
          = Left(ledger, WalletOf(ledger'[i]), i - 1)
    BY <1>1, <1>2, LeftBefore
  <2>2. CASE i \in 1 .. n
    <3>1. ledger'[i] = ledger[i]
      BY <1>2, <2>2
    <3>2. ledger[i].new = Left(ledger, WalletOf(ledger[i]), i - 1) + ledger[i].amount
      BY <1>2, <2>2 DEF LedgerExplainsBalances
    <3> QED BY <1>2, <2>1, <3>1, <3>2
  <2>3. CASE i = n + 1
    <3>1. ledger'[i] = m /\ WalletOf(m) = d /\ m.new = balance[d] + m.amount
      BY <1>2, <2>3 DEF Enters
    <3>2. balance[d] = Left(ledger, d, n) /\ i - 1 = n
      BY <1>2, <2>3 DEF LedgerExplainsBalances
    <3> QED BY <1>2, <2>1, <3>1, <3>2
  <2> QED BY <1>2, <2>2, <2>3
<1> QED BY <1>2, <1>3, <1>4 DEF LedgerExplainsBalances

\* However confirmations, refunds, adjustments and top-ups follow each other, the
\* movements of a wallet chain from nothing to its balance, and the only ones that do not
\* take part are the commissions that took a wallet below zero.
THEOREM LedgerAccounts == Spec => []LedgerExplainsBalances
<1>1. Init => LedgerExplainsBalances
  <2> SUFFICES ASSUME Init PROVE LedgerExplainsBalances
    OBVIOUS
  <2>1. ledger = << >> /\ Len(ledger) = 0 /\ DOMAIN ledger = {} /\ 1 .. 0 = {}
    BY DEF Init
  <2>2. \A d \in Driver : balance[d] = 0
    BY DEF Init
  <2>3. \A d \in Driver : Left(ledger, d, 0) = 0
    BY <2>1 DEF Left
  <2> QED BY <2>1, <2>2, <2>3 DEF LedgerExplainsBalances
<1>2. IInv /\ LedgerExplainsBalances /\ [Next]_vars => LedgerExplainsBalances'
  <2> SUFFICES ASSUME IInv, LedgerExplainsBalances, [Next]_vars PROVE LedgerExplainsBalances'
    OBVIOUS
  <2>1. CASE Entered
    BY <2>1, EnteredExplained DEF Entered, IInv
  <2>2. CASE UNCHANGED <<balance, ledger>>
    BY <2>2 DEF LedgerExplainsBalances
  <2> QED BY <2>1, <2>2, MovementsEnter
<1> QED BY <1>1, <1>2, Invariance, PTL DEF Spec
=============================================================================
