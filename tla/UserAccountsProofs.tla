------------------------- MODULE UserAccountsProofs -------------------------
(***************************************************************************)
(* Proofs about UserAccounts for any users, contacts and transactions      *)
(* under way.  The inductive invariant is IInv: a contact somebody has     *)
(* written, committed or not, is nobody else's (TxOK), which is what the   *)
(* unique columns do for the look-ups that do not see each other.          *)
(***************************************************************************)
EXTENDS UserAccounts, TLAPS

\* What a transaction knows of the rows and of the other transactions.
TxOK(w) ==
  /\ Running(w) => tx[w].user \in User
  /\ tx[w].at \in {"creds", "commit", "updated"} => tx[w].writes
  /\ tx[w].writes => /\ ~Taken(tx[w].user, tx[w].email, tx[w].phone)
                     /\ ~MustWait(w, tx[w].email, tx[w].phone)
  /\ tx[w].at \notin {"commit", "left"} => ~tx[w].aborted
  /\ faults = 0 /\ tx[w].at = "commit" => tx[w].creds /\ ~tx[w].aborted

AllTxOK == \A w \in Tx : TxOK(w)

IInv == TypeOK /\ AllTxOK /\ ContactsUnique /\ RegisteredHasCredentials

\* The rows keep their contacts, and credentials are not taken away.
SameContacts ==
  /\ users' \in [User -> UserRow]
  /\ \A u \in User : /\ users'[u].made <=> users[u].made
                     /\ users'[u].email = users[u].email
                     /\ users'[u].phone = users[u].phone
  /\ creds' \in [User -> CredentialRow]
  /\ \A u \in User : creds[u] # "none" => creds'[u] # "none"
  /\ placed' \in [User -> BOOLEAN]

----------------------------------------------------------------------------
(* Transactions *)

LEMMA UnchangedTables ==
  ASSUME TypeOK, UNCHANGED tables
  PROVE  SameContacts
BY DEF TypeOK, tables, SameContacts

\* What is written of the statements that were pending changes no contact.
LEMMA WriteFacts ==
  ASSUME TypeOK, NEW us \in [User -> UserRow], NEW cr \in [User -> CredentialRow], NEW cs,
         Write(us, cr, cs)
  PROVE  /\ users' \in [User -> UserRow]
         /\ \A u \in User : /\ users'[u].made = us[u].made
                            /\ users'[u].email = us[u].email
                            /\ users'[u].phone = us[u].phone
         /\ creds' \in [User -> CredentialRow]
         /\ \A u \in User : cr[u] # "none" => creds'[u] # "none"
         /\ placed' \in [User -> BOOLEAN]
<1> DEFINE In(what) == {c.user : c \in {d \in cs : d.what = what}}
<1>1. /\ users' = [u \in User |-> IF u \in In("remove") THEN [us[u] EXCEPT !.deleted = TRUE]
                                  ELSE us[u]]
      /\ creds' = [u \in User |-> IF u \in In("password") THEN "changed" ELSE cr[u]]
      /\ placed' = [u \in User |-> u \in In("place") \/ placed[u]]
  BY DEF Write
<1> HIDE DEF In
<1>2. ASSUME NEW u \in User
      PROVE  /\ users'[u] \in UserRow /\ users'[u].made = us[u].made
             /\ users'[u].email = us[u].email /\ users'[u].phone = us[u].phone
  <2>1. us[u] \in UserRow /\ users'[u] \in {us[u], [us[u] EXCEPT !.deleted = TRUE]}
    BY <1>1
  <2> QED BY <2>1 DEF UserRow
<1>3. users' \in [User -> UserRow]
  <2>1. users' = [u \in User |-> users'[u]]
    BY <1>1
  <2> QED BY <1>2, <2>1
<1>4. creds' \in [User -> CredentialRow]
      /\ \A u \in User : cr[u] # "none" => creds'[u] # "none"
  BY <1>1 DEF CredentialRow
<1>5. placed' \in [User -> BOOLEAN]
  BY <1>1 DEF TypeOK
<1> QED BY <1>2, <1>3, <1>4, <1>5

LEMMA WritingKeepsContacts ==
  ASSUME TypeOK, NEW cs, Write(users, creds, cs)
  PROVE  SameContacts
<1>1. users \in [User -> UserRow] /\ creds \in [User -> CredentialRow]
  BY DEF TypeOK
<1> QED BY <1>1, WriteFacts DEF SameContacts

LEMMA IdleFacts ==
  Idle \in Transaction /\ Idle.at = "idle" /\ ~Idle.writes /\ ~Idle.aborted
BY DEF Idle, Transaction, OptEmail, OptPhone

LEMMA SameContactSymmetric ==
  ASSUME NEW e1, NEW p1, NEW e2, NEW p2
  PROVE  SameContact(e1, p1, e2, p2) <=> SameContact(e2, p2, e1, p1)
BY DEF SameContact

LEMMA FaultFacts ==
  ASSUME TypeOK, faults' = faults \/ Fault
  PROVE  faults' \in 0 .. MaxFaults /\ (faults' = 0 => faults = 0)
BY AccountsAssumption DEF TypeOK, Fault

\* A transaction goes on to n, and no contact is committed.
LEMMA TxKeeps ==
  ASSUME IInv, NEW w \in Tx, NEW n \in Transaction, tx' = [tx EXCEPT ![w] = n],
         SameContacts, UNCHANGED told, faults' = faults \/ Fault,
         pend' \in [Tx -> SUBSET Change], \A v \in Tx : pend'[v] \subseteq pend[v],
         n.at \notin {"idle", "left", "lost"} => n.user \in User,
         n.at \in {"creds", "commit", "updated"} => n.writes,
         n.writes => ~Taken(n.user, n.email, n.phone) /\ ~MustWait(w, n.email, n.phone),
         n.at \notin {"commit", "left"} => ~n.aborted,
         n.at = "commit" => (n.creds /\ ~n.aborted) \/ faults' # 0,
         n.at \in {"checkEmail", "checkPhone", "save", "updated"} =>
           (Updating(w) /\ n.user = tx[w].user) \/ LockedBy(n.user) \subseteq {w}
  PROVE  IInv'
<1>1. TypeOK /\ AllTxOK
  BY DEF IInv
<1>2. tx'[w] = n /\ \A v \in Tx \ {w} : tx'[v] = tx[v]
  BY <1>1 DEF TypeOK
<1>3. faults' \in 0 .. MaxFaults /\ (faults' = 0 => faults = 0)
  BY <1>1, FaultFacts
<1>4. TypeOK'
  <2>1. ASSUME NEW u \in User, NEW x \in LockedBy(u)', NEW v \in LockedBy(u)'
        PROVE  x = v
    <3>1. ASSUME NEW y \in LockedBy(u)'
          PROVE  y \in LockedBy(u) \/ (y = w /\ LockedBy(u) \subseteq {w})
      <4>1. CASE y = w
        BY <1>2, <4>1 DEF LockedBy, Updating
      <4>2. CASE y # w
        BY <1>2, <4>2 DEF LockedBy, Updating
      <4> QED BY <4>1, <4>2
    <3>2. \A y, z \in LockedBy(u) : y = z
      BY <1>1 DEF TypeOK
    <3>3. /\ x \in LockedBy(u) \/ (x = w /\ LockedBy(u) \subseteq {w})
          /\ v \in LockedBy(u) \/ (v = w /\ LockedBy(u) \subseteq {w})
      BY <3>1
    <3> QED BY <3>2, <3>3
  <2>2. tx' \in [Tx -> Transaction]
    BY <1>1 DEF TypeOK
  <2> QED BY <1>1, <1>3, <2>1, <2>2 DEF TypeOK, SameContacts
<1>5. ASSUME NEW v \in Tx PROVE TxOK(v)'
  <2>1. \A u, e, p : Taken(u, e, p)' <=> Taken(u, e, p)
    BY DEF Taken, SameContacts
  <2>2. CASE v = w
    <3>1. MustWait(w, n.email, n.phone)' <=> MustWait(w, n.email, n.phone)
      BY <1>2 DEF MustWait
    <3> QED BY <1>2, <2>1, <2>2, <3>1 DEF TxOK, Running
  <2>3. CASE v # w
    <3>1. TxOK(v) /\ tx'[v] = tx[v]
      BY <1>1, <1>2, <2>3 DEF AllTxOK
    <3>2. ASSUME tx[v].writes PROVE ~MustWait(v, tx[v].email, tx[v].phone)'
      <4> SUFFICES ASSUME NEW x \in Tx \ {v}, tx'[x].writes,
                          SameContact(tx[v].email, tx[v].phone, tx'[x].email, tx'[x].phone)
                   PROVE  FALSE
        BY <3>1 DEF MustWait
      <4>1. CASE x = w
        <5>1. SameContact(n.email, n.phone, tx[v].email, tx[v].phone)
          BY <1>2, <4>1, SameContactSymmetric
        <5> QED BY <1>2, <2>3, <3>2, <4>1, <5>1 DEF MustWait
      <4>2. CASE x # w
        BY <1>2, <3>1, <3>2, <4>2 DEF TxOK, MustWait
      <4> QED BY <4>1, <4>2
    <3> QED BY <1>3, <2>1, <3>1, <3>2 DEF TxOK, Running
  <2> QED BY <2>2, <2>3
<1>6. ContactsUnique' /\ RegisteredHasCredentials'
  BY <1>1, <1>3 DEF IInv, TypeOK, ContactsUnique, RegisteredHasCredentials, SameContacts
<1> QED BY <1>4, <1>5, <1>6 DEF IInv, AllTxOK

\* Statements that leave what is pending alone.
LEMMA SetFacts ==
  ASSUME TypeOK, UNCHANGED pend
  PROVE  pend' \in [Tx -> SUBSET Change] /\ \A v \in Tx : pend'[v] \subseteq pend[v]
BY DEF TypeOK

LEMMA EndFacts ==
  ASSUME TypeOK, NEW w \in Tx, pend' = [pend EXCEPT ![w] = {}]
  PROVE  pend' \in [Tx -> SUBSET Change] /\ \A v \in Tx : pend'[v] \subseteq pend[v]
BY DEF TypeOK

LEMMA DoneKeeps ==
  ASSUME IInv, NEW w \in Tx, Done(w), SameContacts, UNCHANGED told, faults' = faults \/ Fault
  PROVE  IInv'
<1>1. TypeOK /\ tx' = [tx EXCEPT ![w] = Idle] /\ pend' = [pend EXCEPT ![w] = {}]
  BY DEF IInv, Done
<1>2. pend' \in [Tx -> SUBSET Change] /\ \A v \in Tx : pend'[v] \subseteq pend[v]
  BY <1>1, EndFacts
<1> QED BY <1>1, <1>2, IdleFacts, TxKeeps

LEMMA LeaveKeeps ==
  ASSUME IInv, NEW w \in Tx, NEW aborted \in BOOLEAN, Leave(w, aborted),
         UNCHANGED <<tables, told>>, faults' = faults \/ Fault
  PROVE  IInv'
<1> DEFINE n == [Idle EXCEPT !.at = "left", !.aborted = aborted]
<1>1. n \in Transaction /\ n.at = "left" /\ ~n.writes
  BY DEF Idle, Transaction, OptEmail, OptPhone
<1>2. TypeOK /\ tx' = [tx EXCEPT ![w] = n] /\ SameContacts
  BY UnchangedTables DEF IInv, Leave
<1>3. pend' = pend \/ pend' = [pend EXCEPT ![w] = {}]
  BY DEF Leave
<1> HIDE DEF n
<1>4. pend' \in [Tx -> SUBSET Change] /\ \A v \in Tx : pend'[v] \subseteq pend[v]
  BY <1>2, <1>3, SetFacts, EndFacts
<1> QED BY <1>1, <1>2, <1>4, TxKeeps

LEMMA AbortKeeps ==
  ASSUME IInv, NEW w \in Tx, Abort(w), UNCHANGED <<tables, told>>, faults' = faults \/ Fault
  PROVE  IInv'
BY LeaveKeeps, DoneKeeps, UnchangedTables DEF Abort, IInv

\* A row gets the contacts its transaction has written, which nobody else has.
LEMMA CommitKeeps ==
  ASSUME IInv, NEW w \in Tx, tx[w].writes, tx[w].user \in User,
         NEW cr \in [User -> CredentialRow],
         \A u \in User : creds[u] # "none" => cr[u] # "none",
         Write([users EXCEPT ![tx[w].user] = Written(tx[w])], cr, pend[w]),
         Done(w),
         told' \subseteq told \cup {tx[w].user},
         tx[w].user \in told' \ told => faults # 0 \/ cr[tx[w].user] # "none",
         UNCHANGED faults
  PROVE  IInv'
<1> DEFINE u == tx[w].user
           us == [users EXCEPT ![u] = Written(tx[w])]
<1>1. /\ TypeOK /\ AllTxOK /\ ContactsUnique /\ tx[w] \in Transaction
      /\ tx' = [tx EXCEPT ![w] = Idle] /\ pend' = [pend EXCEPT ![w] = {}]
  BY DEF IInv, TypeOK, Done
<1>2. /\ us \in [User -> UserRow]
      /\ us[u].made /\ us[u].email = tx[w].email /\ us[u].phone = tx[w].phone
      /\ \A x \in User \ {u} : us[x] = users[x]
  <2>1. Written(tx[w]) \in UserRow
    BY <1>1 DEF Written, UserRow, Transaction
  <2> QED BY <1>1, <2>1 DEF TypeOK, Written
<1> HIDE DEF us
<1>3. /\ users' \in [User -> UserRow] /\ placed' \in [User -> BOOLEAN]
      /\ creds' \in [User -> CredentialRow]
      /\ \A x \in User : creds[x] # "none" => creds'[x] # "none"
      /\ cr[u] # "none" => creds'[u] # "none"
      /\ users'[u].made /\ users'[u].email = tx[w].email /\ users'[u].phone = tx[w].phone
      /\ \A x \in User \ {u} : /\ users'[x].made = users[x].made
                               /\ users'[x].email = users[x].email
                               /\ users'[x].phone = users[x].phone
  <2>1. Write(us, cr, pend[w])
    BY DEF us
  <2> QED BY <1>1, <1>2, <2>1, WriteFacts
<1>4. tx'[w] = Idle /\ \A v \in Tx \ {w} : tx'[v] = tx[v]
  BY <1>1 DEF TypeOK
<1>5. ~Taken(u, tx[w].email, tx[w].phone) /\ ~MustWait(w, tx[w].email, tx[w].phone)
  BY <1>1 DEF AllTxOK, TxOK
<1>6. TypeOK'
  <2>1. tx' \in [Tx -> Transaction] /\ pend' \in [Tx -> SUBSET Change]
    BY <1>1, IdleFacts DEF TypeOK
  <2>2. told' \subseteq User
    BY <1>1 DEF TypeOK
  <2>3. \A x \in User : LockedBy(x)' \subseteq LockedBy(x)
    BY <1>1, <1>4, IdleFacts DEF TypeOK, LockedBy, Updating
  <2> QED BY <1>1, <1>3, <2>1, <2>2, <2>3 DEF TypeOK
<1>7. ASSUME NEW v \in Tx PROVE TxOK(v)'
  <2>1. CASE v = w
    BY <1>4, <2>1, IdleFacts DEF TxOK, Running
  <2>2. CASE v # w
    <3>1. TxOK(v) /\ tx'[v] = tx[v]
      BY <1>1, <1>4, <2>2 DEF AllTxOK
    <3>2. ASSUME tx[v].writes PROVE ~MustWait(v, tx[v].email, tx[v].phone)'
      <4> SUFFICES ASSUME NEW x \in Tx \ {v}, tx'[x].writes,
                          SameContact(tx[v].email, tx[v].phone, tx'[x].email, tx'[x].phone)
                   PROVE  FALSE
        BY <3>1 DEF MustWait
      <4>1. x # w
        BY <1>4, IdleFacts
      <4> QED BY <1>4, <3>1, <3>2, <4>1 DEF TxOK, MustWait
    <3>3. ASSUME tx[v].writes PROVE ~Taken(tx[v].user, tx[v].email, tx[v].phone)'
      <4> SUFFICES ASSUME NEW x \in User \ {tx[v].user}, users'[x].made,
                          SameContact(tx[v].email, tx[v].phone, users'[x].email, users'[x].phone)
                   PROVE  FALSE
        BY <3>1 DEF Taken
      <4>1. CASE x = u
        <5>1. SameContact(tx[w].email, tx[w].phone, tx[v].email, tx[v].phone)
          BY <1>3, <4>1, SameContactSymmetric
        <5> QED BY <1>5, <2>2, <3>3, <5>1 DEF MustWait
      <4>2. CASE x # u
        BY <1>3, <3>1, <3>3, <4>2 DEF TxOK, Taken
      <4> QED BY <4>1, <4>2
    <3> QED BY <3>1, <3>2, <3>3 DEF TxOK, Running
  <2> QED BY <2>1, <2>2
<1>8. ContactsUnique'
  <2> SUFFICES ASSUME NEW x \in User, NEW y \in User, users'[x].made, users'[y].made,
                      SameContact(users'[x].email, users'[x].phone,
                                  users'[y].email, users'[y].phone)
               PROVE  x = y
    BY DEF ContactsUnique
  <2>1. CASE x # u /\ y # u
    BY <1>1, <1>3, <2>1 DEF ContactsUnique
  <2>2. CASE x = u /\ y # u
    BY <1>3, <1>5, <2>2 DEF Taken
  <2>3. CASE x # u /\ y = u
    <3>1. SameContact(tx[w].email, tx[w].phone, users[x].email, users[x].phone)
      BY <1>3, <2>3, SameContactSymmetric
    <3> QED BY <1>3, <1>5, <2>3, <3>1 DEF Taken
  <2> QED BY <2>1, <2>2, <2>3
<1>9. RegisteredHasCredentials'
  <2> SUFFICES ASSUME faults' = 0, NEW x \in told'
               PROVE  users'[x].made /\ creds'[x] # "none"
    BY DEF RegisteredHasCredentials
  <2>1. CASE x \in told
    <3>1. x \in User /\ users[x].made /\ creds[x] # "none"
      BY <1>1, <2>1 DEF IInv, TypeOK, RegisteredHasCredentials
    <3>2. users'[x].made
      BY <1>3, <3>1
    <3> QED BY <1>3, <3>1, <3>2
  <2>2. CASE x \notin told
    <3>1. x = u
      BY <2>2
    <3> QED BY <1>3, <2>2, <3>1
  <2> QED BY <2>1, <2>2
<1> QED BY <1>6, <1>7, <1>8, <1>9 DEF IInv, AllTxOK

----------------------------------------------------------------------------
(* Actions *)

LEMMA TxFacts ==
  ASSUME IInv, NEW w \in Tx
  PROVE  /\ tx[w] \in Transaction /\ TxOK(w)
         /\ tx[w].email \in OptEmail /\ tx[w].phone \in OptPhone
BY DEF IInv, TypeOK, AllTxOK, Transaction

LEMMA RegisterKeeps ==
  ASSUME IInv, NEW w \in Tx, Register(w)
  PROVE  IInv'
<1>1. CASE \E aborted \in BOOLEAN : Leave(w, aborted)
  <2>1. UNCHANGED <<tables, told>> /\ (faults' = faults \/ Fault)
    BY DEF Register
  <2> QED BY <1>1, <2>1, LeaveKeeps
<1>2. CASE \E u \in User, e \in OptEmail, p \in OptPhone :
             Set(w, [Idle EXCEPT !.at = "insert", !.user = u, !.email = e, !.phone = p])
  <2>1. PICK u \in User, e \in OptEmail, p \in OptPhone :
          Set(w, [Idle EXCEPT !.at = "insert", !.user = u, !.email = e, !.phone = p])
    BY <1>2
  <2> DEFINE n == [Idle EXCEPT !.at = "insert", !.user = u, !.email = e, !.phone = p]
  <2>2. n \in Transaction /\ n.at = "insert" /\ n.user = u /\ ~n.writes /\ ~n.aborted
    BY DEF Idle, Transaction
  <2>3. /\ tx' = [tx EXCEPT ![w] = n] /\ UNCHANGED <<tables, told, pend>>
        /\ faults' = faults \/ Fault
    BY <2>1 DEF Register, Set
  <2> HIDE DEF n
  <2>4. TypeOK /\ SameContacts
    BY <2>3, UnchangedTables DEF IInv
  <2> QED BY <2>2, <2>3, <2>4, SetFacts, TxKeeps
<1>3. \/ \E aborted \in BOOLEAN : Leave(w, aborted)
      \/ \E u \in User, e \in OptEmail, p \in OptPhone :
           Set(w, [Idle EXCEPT !.at = "insert", !.user = u, !.email = e, !.phone = p])
  BY DEF Register
<1> QED BY <1>1, <1>2, <1>3

LEMMA UpdateUserKeeps ==
  ASSUME IInv, NEW w \in Tx, UpdateUser(w)
  PROVE  IInv'
<1>1. PICK u \in User, e \in OptEmail, p \in OptPhone :
        /\ Lockable(w, {u})
        /\ Set(w, [Idle EXCEPT !.at = "checkEmail", !.user = u,
                   !.email = IF e = NoContact THEN users[u].email ELSE e,
                   !.phone = IF p = NoContact THEN users[u].phone ELSE p])
  BY DEF UpdateUser
<1> DEFINE mail == IF e = NoContact THEN users[u].email ELSE e
           call == IF p = NoContact THEN users[u].phone ELSE p
           n == [Idle EXCEPT !.at = "checkEmail", !.user = u, !.email = mail, !.phone = call]
<1>2. mail \in OptEmail /\ call \in OptPhone
  BY DEF IInv, TypeOK, UserRow
<1>3. tx' = [tx EXCEPT ![w] = n] /\ UNCHANGED <<tables, told, faults>>
  BY <1>1 DEF UpdateUser, Set
<1>6. TypeOK /\ SameContacts /\ UNCHANGED pend
  BY <1>1, <1>3, UnchangedTables DEF IInv, Set
<1> HIDE DEF mail, call
<1>4. n \in Transaction /\ n.at = "checkEmail" /\ n.user = u /\ ~n.writes /\ ~n.aborted
  BY <1>2 DEF Idle, Transaction
<1>5. LockedBy(u) \subseteq {w}
  BY <1>1 DEF Lockable
<1> HIDE DEF n
<1> QED BY <1>3, <1>4, <1>5, <1>6, SetFacts, TxKeeps

\* The statements of a transaction up to its commit.
LEMMA InsertUserKeeps ==
  ASSUME IInv, NEW w \in Tx, InsertUser(w)
  PROVE  IInv'
<1>1. /\ tx[w].at = "insert" /\ ~MustWait(w, tx[w].email, tx[w].phone)
      /\ UNCHANGED <<tables, told, faults>>
  BY DEF InsertUser
<1>2. CASE Leave(w, TRUE)
  BY <1>1, <1>2, LeaveKeeps
<1>3. CASE /\ ~Taken(tx[w].user, tx[w].email, tx[w].phone)
           /\ Set(w, [tx[w] EXCEPT !.at = "creds", !.writes = TRUE])
  <2> DEFINE n == [tx[w] EXCEPT !.at = "creds", !.writes = TRUE]
  <2>1. tx[w] \in Transaction /\ tx[w].user \in User /\ ~tx[w].aborted
    BY <1>1, TxFacts DEF TxOK, Running
  <2>2. /\ n \in Transaction /\ n.at = "creds" /\ n.writes /\ ~n.aborted
        /\ n.user = tx[w].user /\ n.email = tx[w].email /\ n.phone = tx[w].phone
    BY <2>1 DEF Transaction
  <2>3. tx' = [tx EXCEPT ![w] = n] /\ UNCHANGED pend
    BY <1>3 DEF Set
  <2> HIDE DEF n
  <2> QED BY <1>1, <1>3, <2>1, <2>2, <2>3, SetFacts, UnchangedTables, TxKeeps DEF IInv
<1> QED BY <1>2, <1>3 DEF InsertUser

LEMMA CreateForUserKeeps ==
  ASSUME IInv, NEW w \in Tx, CreateForUser(w)
  PROVE  IInv'
<1>1. tx[w].at = "creds" /\ UNCHANGED <<tables, told>>
  BY DEF CreateForUser
<1>2. /\ tx[w] \in Transaction /\ tx[w].user \in User /\ tx[w].writes /\ ~tx[w].aborted
      /\ ~Taken(tx[w].user, tx[w].email, tx[w].phone)
      /\ ~MustWait(w, tx[w].email, tx[w].phone)
  BY <1>1, TxFacts DEF TxOK, Running
<1>3. CASE Set(w, [tx[w] EXCEPT !.at = "commit", !.creds = TRUE]) /\ UNCHANGED faults
  <2> DEFINE n == [tx[w] EXCEPT !.at = "commit", !.creds = TRUE]
  <2>1. /\ n \in Transaction /\ n.at = "commit" /\ n.writes /\ n.creds
        /\ n.user = tx[w].user /\ n.email = tx[w].email /\ n.phone = tx[w].phone
        /\ n.aborted = tx[w].aborted
    BY <1>2 DEF Transaction
  <2>2. tx' = [tx EXCEPT ![w] = n] /\ UNCHANGED pend
    BY <1>3 DEF Set
  <2> HIDE DEF n
  <2> QED BY <1>1, <1>2, <1>3, <2>1, <2>2, SetFacts, UnchangedTables, TxKeeps DEF IInv
<1>4. ASSUME NEW statement \in BOOLEAN, Fault,
             Set(w, [tx[w] EXCEPT !.at = "commit", !.aborted = statement])
      PROVE  IInv'
  <2> DEFINE n == [tx[w] EXCEPT !.at = "commit", !.aborted = statement]
  <2>1. /\ n \in Transaction /\ n.at = "commit" /\ n.writes
        /\ n.user = tx[w].user /\ n.email = tx[w].email /\ n.phone = tx[w].phone
    BY <1>2 DEF Transaction
  <2>2. tx' = [tx EXCEPT ![w] = n] /\ UNCHANGED pend
    BY <1>4 DEF Set
  <2>3. faults' # 0
    BY <1>4 DEF Fault, IInv, TypeOK
  <2> HIDE DEF n
  <2> QED BY <1>1, <1>2, <1>4, <2>1, <2>2, <2>3, SetFacts, UnchangedTables, TxKeeps DEF IInv
<1> QED BY <1>3, <1>4 DEF CreateForUser

\* An edit goes on under the lock of its row.
LEMMA EditKeeps ==
  ASSUME IInv, NEW w \in Tx, Updating(w), tx[w].at # "updated",
         NEW at \in {"checkPhone", "save"},
         Set(w, [tx[w] EXCEPT !.at = at]),
         UNCHANGED <<tables, told, faults>>
  PROVE  IInv'
<1>1. /\ tx[w] \in Transaction /\ tx[w].user \in User /\ ~tx[w].aborted
      /\ tx[w].writes => /\ ~Taken(tx[w].user, tx[w].email, tx[w].phone)
                         /\ ~MustWait(w, tx[w].email, tx[w].phone)
  BY TxFacts DEF TxOK, Running, Updating
<1> DEFINE n == [tx[w] EXCEPT !.at = at]
<1>2. /\ n \in Transaction /\ n.at = at /\ n.user = tx[w].user
      /\ n.email = tx[w].email /\ n.phone = tx[w].phone /\ n.writes = tx[w].writes
      /\ ~n.aborted
  BY <1>1 DEF Transaction
<1>3. tx' = [tx EXCEPT ![w] = n] /\ UNCHANGED pend
  BY DEF Set
<1> HIDE DEF n
<1> QED BY <1>1, <1>2, <1>3, SetFacts, UnchangedTables, TxKeeps DEF IInv

LEMMA ChecksKeep ==
  ASSUME IInv, NEW w \in Tx, CheckEmail(w) \/ CheckPhone(w)
  PROVE  IInv'
BY EditKeeps, DoneKeeps, UnchangedTables DEF CheckEmail, CheckPhone, Updating, IInv

LEMMA SaveUserKeeps ==
  ASSUME IInv, NEW w \in Tx, SaveUser(w)
  PROVE  IInv'
<1>1. /\ tx[w].at = "save" /\ ~MustWait(w, tx[w].email, tx[w].phone)
      /\ UNCHANGED <<tables, told, faults>>
  BY DEF SaveUser
<1>2. CASE Done(w)
  BY <1>1, <1>2, DoneKeeps, UnchangedTables DEF IInv
<1>3. CASE /\ ~Taken(tx[w].user, tx[w].email, tx[w].phone)
           /\ Set(w, [tx[w] EXCEPT !.at = "updated", !.writes = TRUE])
  <2> DEFINE n == [tx[w] EXCEPT !.at = "updated", !.writes = TRUE]
  <2>1. tx[w] \in Transaction /\ tx[w].user \in User /\ ~tx[w].aborted
    BY <1>1, TxFacts DEF TxOK, Running
  <2>2. /\ n \in Transaction /\ n.at = "updated" /\ n.writes /\ ~n.aborted
        /\ n.user = tx[w].user /\ n.email = tx[w].email /\ n.phone = tx[w].phone
    BY <2>1 DEF Transaction
  <2>3. tx' = [tx EXCEPT ![w] = n] /\ UNCHANGED pend
    BY <1>3 DEF Set
  <2>4. Updating(w)
    BY <1>1 DEF Updating
  <2> HIDE DEF n
  <2> QED BY <1>1, <1>3, <2>1, <2>2, <2>3, <2>4, SetFacts, UnchangedTables, TxKeeps DEF IInv
<1> QED BY <1>2, <1>3 DEF SaveUser

\* The commit of an aborted transaction: it was answered with success after a fault.
LEMMA RollbackKeeps ==
  ASSUME IInv, NEW w \in Tx, tx[w].user \in User, Done(w),
         told' = told \cup {tx[w].user}, faults # 0,
         UNCHANGED <<tables, faults>>
  PROVE  IInv'
<1>1. /\ TypeOK /\ AllTxOK /\ ContactsUnique /\ SameContacts
      /\ tx' = [tx EXCEPT ![w] = Idle] /\ pend' = [pend EXCEPT ![w] = {}]
  BY UnchangedTables DEF IInv, Done
<1>2. tx'[w] = Idle /\ \A v \in Tx \ {w} : tx'[v] = tx[v]
  BY <1>1 DEF TypeOK
<1>3. TypeOK'
  <2>1. tx' \in [Tx -> Transaction] /\ pend' \in [Tx -> SUBSET Change]
    BY <1>1, IdleFacts DEF TypeOK
  <2>2. \A x \in User : LockedBy(x)' \subseteq LockedBy(x)
    BY <1>1, <1>2, IdleFacts DEF TypeOK, LockedBy, Updating
  <2> QED BY <1>1, <2>1, <2>2 DEF TypeOK, tables
<1>4. ASSUME NEW v \in Tx PROVE TxOK(v)'
  <2>1. CASE v = w
    BY <1>2, <2>1, IdleFacts DEF TxOK, Running
  <2>2. CASE v # w
    <3>1. TxOK(v) /\ tx'[v] = tx[v]
      BY <1>1, <1>2, <2>2 DEF AllTxOK
    <3>2. \A e, p : MustWait(v, e, p)' => MustWait(v, e, p)
      BY <1>2, IdleFacts DEF MustWait
    <3>3. \A u, e, p : Taken(u, e, p)' <=> Taken(u, e, p)
      BY DEF Taken, tables
    <3> QED BY <3>1, <3>2, <3>3 DEF TxOK, Running
  <2> QED BY <2>1, <2>2
<1>5. ContactsUnique' /\ RegisteredHasCredentials'
  BY <1>1 DEF ContactsUnique, RegisteredHasCredentials, tables
<1> QED BY <1>3, <1>4, <1>5 DEF IInv, AllTxOK

LEMMA CommitRegistrationKeeps ==
  ASSUME IInv, NEW w \in Tx, CommitRegistration(w)
  PROVE  IInv'
<1> DEFINE u == tx[w].user
           cr == IF tx[w].creds THEN [creds EXCEPT ![u] = "registered"] ELSE creds
<1>1. /\ tx[w].at = "commit" /\ Done(w)
      /\ told' = told \cup {u} /\ UNCHANGED faults
  BY DEF CommitRegistration
<1>2. /\ u \in User /\ tx[w].writes
      /\ faults = 0 => tx[w].creds /\ ~tx[w].aborted
  BY <1>1, TxFacts DEF TxOK, Running
<1>3. TypeOK
  BY DEF IInv
<1>4. CASE ~tx[w].aborted
  <2>1. Write([users EXCEPT ![u] = Written(tx[w])], cr, pend[w])
    BY <1>4 DEF CommitRegistration
  <2>2. cr \in [User -> CredentialRow]
    BY <1>3 DEF TypeOK, CredentialRow
  <2>3. \A x \in User : creds[x] # "none" => cr[x] # "none"
    BY <1>3 DEF TypeOK
  <2>4. faults # 0 \/ cr[u] # "none"
    BY <1>2, <1>3 DEF TypeOK
  <2> HIDE DEF cr
  <2> QED BY <1>1, <1>2, <2>1, <2>2, <2>3, <2>4, CommitKeeps
<1>5. CASE tx[w].aborted
  <2>1. faults # 0 /\ UNCHANGED tables
    BY <1>2, <1>5 DEF CommitRegistration
  <2> QED BY <1>1, <1>2, <1>3, <2>1, RollbackKeeps
<1> QED BY <1>4, <1>5

LEMMA CommitUpdateKeeps ==
  ASSUME IInv, NEW w \in Tx, CommitUpdate(w)
  PROVE  IInv'
<1>1. /\ tx[w].at = "updated" /\ Done(w)
      /\ Write([users EXCEPT ![tx[w].user] = Written(tx[w])], creds, pend[w])
      /\ UNCHANGED <<told, faults>>
  BY DEF CommitUpdate
<1>2. tx[w].user \in User /\ tx[w].writes
  BY <1>1, TxFacts DEF TxOK, Running
<1>3. creds \in [User -> CredentialRow]
  BY DEF IInv, TypeOK
<1> QED BY <1>1, <1>2, <1>3, CommitKeeps

\* A transaction that was left is ended elsewhere, or keeps its connection from the pool.
LEMMA LeftKeeps ==
  ASSUME IInv, NEW w \in Tx, StartFails(w) \/ EndElsewhere(w)
  PROVE  IInv'
<1>1. CASE StartFails(w)
  <2> DEFINE n == [Idle EXCEPT !.at = "lost"]
  <2>1. n \in Transaction /\ n.at = "lost" /\ ~n.writes /\ ~n.aborted
    BY DEF Idle, Transaction, OptEmail, OptPhone
  <2>2. tx' = [tx EXCEPT ![w] = n] /\ UNCHANGED <<tables, told, faults, pend>>
    BY <1>1 DEF StartFails, Set
  <2> HIDE DEF n
  <2> QED BY <2>1, <2>2, SetFacts, UnchangedTables, TxKeeps DEF IInv
<1>2. CASE EndElsewhere(w)
  BY <1>2, DoneKeeps, UnchangedTables, WritingKeepsContacts DEF EndElsewhere, IInv
<1> QED BY <1>1, <1>2

\* Single statements write no contact and make no row; one in a transaction that was
\* left locks a row that nobody else has locked.
LEMMA StatementKeeps ==
  ASSUME IInv, NEW w \in Tx, NEW c \in Change, Statement(w, c),
         c.what # "password" => LockedBy(c.user) \subseteq {w}
  PROVE  IInv'
<1>1. TypeOK /\ AllTxOK /\ UNCHANGED <<tx, told, faults>>
  BY DEF IInv, Statement
<1>2. SameContacts
  BY <1>1, UnchangedTables, WritingKeepsContacts DEF Statement
<1>3. \/ UNCHANGED pend
      \/ pend' = [pend EXCEPT ![w] = @ \cup {c}]
  BY DEF Statement
<1>4. TypeOK'
  <2>1. pend' \in [Tx -> SUBSET Change]
    BY <1>1, <1>3 DEF TypeOK
  <2>2. ASSUME NEW u \in User, NEW x \in LockedBy(u)', NEW v \in LockedBy(u)'
        PROVE  x = v
    <3>1. ASSUME NEW y \in LockedBy(u)'
          PROVE  y \in LockedBy(u) \/ (y = w /\ LockedBy(u) \subseteq {w})
      <4>1. pend'[y] = pend[y] \/ (y = w /\ pend'[y] = pend[y] \cup {c})
        BY <1>1, <1>3 DEF TypeOK, LockedBy
      <4> QED BY <1>1, <4>1 DEF LockedBy, Updating
    <3>2. \A y, z \in LockedBy(u) : y = z
      BY <1>1 DEF TypeOK
    <3>3. /\ x \in LockedBy(u) \/ (x = w /\ LockedBy(u) \subseteq {w})
          /\ v \in LockedBy(u) \/ (v = w /\ LockedBy(u) \subseteq {w})
      BY <3>1
    <3> QED BY <3>2, <3>3
  <2> QED BY <1>1, <1>2, <2>1, <2>2 DEF TypeOK, SameContacts
<1>5. \A x, e, p : Taken(x, e, p)' <=> Taken(x, e, p)
  BY <1>2 DEF Taken, SameContacts
<1>6. \A v, e, p : MustWait(v, e, p)' <=> MustWait(v, e, p)
  BY <1>1 DEF MustWait
<1>7. AllTxOK'
  BY <1>1, <1>5, <1>6 DEF AllTxOK, TxOK, Running
<1>8. ContactsUnique' /\ RegisteredHasCredentials'
  BY <1>1, <1>2 DEF IInv, TypeOK, ContactsUnique, RegisteredHasCredentials, SameContacts
<1> QED BY <1>4, <1>7, <1>8 DEF IInv

LEMMA SinglesKeep ==
  ASSUME IInv, NEW w \in Tx, NEW u \in User,
         ChangePassword(w, u) \/ RemoveUser(w, u) \/ PingLocation(w, u)
  PROVE  IInv'
<1>1. PICK what \in {"password", "remove", "place"} :
        /\ Statement(w, [what |-> what, user |-> u])
        /\ what # "password" => LockedBy(u) \subseteq {w}
  BY DEF ChangePassword, RemoveUser, PingLocation, UpdatePassengerLocation, Lockable
<1> DEFINE c == [what |-> what, user |-> u]
<1>2. c \in Change /\ c.what = what /\ c.user = u /\ Statement(w, c)
  BY <1>1 DEF Change
<1> HIDE DEF c
<1> QED BY <1>1, <1>2, StatementKeeps

----------------------------------------------------------------------------
(* The invariant *)

LEMMA InitOK == Init => IInv
<1> SUFFICES ASSUME Init PROVE IInv
  OBVIOUS
<1>1. /\ users \in [User -> UserRow] /\ \A u \in User : ~users[u].made
      /\ tx \in [Tx -> Transaction] /\ \A w \in Tx : tx[w] = Idle
  BY IdleFacts DEF Init, NoUser, UserRow, OptEmail, OptPhone
<1>2. TypeOK
  BY <1>1, IdleFacts, AccountsAssumption DEF Init, TypeOK, CredentialRow, Updating, LockedBy
<1>3. AllTxOK
  BY <1>1, IdleFacts DEF AllTxOK, TxOK, Running
<1>4. ContactsUnique /\ RegisteredHasCredentials
  BY <1>1 DEF Init, ContactsUnique, RegisteredHasCredentials
<1> QED BY <1>2, <1>3, <1>4 DEF IInv

LEMMA NextKeeps == IInv /\ [Next]_vars => IInv'
<1> SUFFICES ASSUME IInv, [Next]_vars PROVE IInv'
  OBVIOUS
<1>1. ASSUME NEW w \in Tx, TxStep(w) PROVE IInv'
  <2>1. CASE DeadlockDetected(w)
    BY <2>1, AbortKeeps DEF DeadlockDetected
  <2> QED BY <1>1, <2>1, InsertUserKeeps, CreateForUserKeeps, CommitRegistrationKeeps,
             ChecksKeep, SaveUserKeeps, CommitUpdateKeeps DEF TxStep
<1>2. ASSUME NEW w \in Tx, StatementFails(w) PROVE IInv'
  BY <1>2, AbortKeeps DEF StatementFails
<1>3. ASSUME NEW w \in Tx, Register(w) \/ UpdateUser(w) PROVE IInv'
  BY <1>3, RegisterKeeps, UpdateUserKeeps
<1>4. ASSUME NEW w \in Tx, NEW u \in User,
             ChangePassword(w, u) \/ RemoveUser(w, u) \/ PingLocation(w, u)
      PROVE  IInv'
  BY <1>4, SinglesKeep
<1>5. ASSUME NEW w \in Tx, StartFails(w) \/ EndElsewhere(w) PROVE IInv'
  BY <1>5, LeftKeeps
<1>6. CASE UNCHANGED vars
  BY <1>6 DEF vars, tables, IInv, TypeOK, AllTxOK, TxOK, Running, ContactsUnique,
     RegisteredHasCredentials, Updating, LockedBy, Taken, MustWait
<1> QED BY <1>1, <1>2, <1>3, <1>4, <1>5, <1>6 DEF Next

LEMMA Invariance == Spec => []IInv
BY InitOK, NextKeeps, PTL DEF Spec

----------------------------------------------------------------------------
(* Results *)

\* Rows and transactions keep their types, and no row is locked twice.
THEOREM TypesHold == Spec => []TypeOK
<1>1. IInv => TypeOK
  BY DEF IInv
<1> QED BY <1>1, Invariance, PTL

\* However many registrations and edits overlap, a contact is one user's.
THEOREM NoContactTwice == Spec => []ContactsUnique
<1>1. IInv => ContactsUnique
  BY DEF IInv
<1> QED BY <1>1, Invariance, PTL

\* Without a failed statement a registration that was answered is there, with its
\* credentials.
THEOREM RegistrationsHold == Spec => []RegisteredHasCredentials
<1>1. IInv => RegisteredHasCredentials
  BY DEF IInv
<1> QED BY <1>1, Invariance, PTL
=============================================================================
