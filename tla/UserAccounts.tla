---------------------------- MODULE UserAccounts ----------------------------
(***************************************************************************)
(* The users and auth_credentials tables under registration, edits,        *)
(* password changes, deletion and passengers' pings: user/services/        *)
(* user.service.ts and passenger-location.service.ts over their            *)
(* repositories.                                                           *)
(*                                                                         *)
(* Registration and edits are transactions of several statements.  What    *)
(* one has written and not committed yet is kept in tx[w]: others do not   *)
(* read it (READ COMMITTED), but a row lock and a unique index make them   *)
(* wait for it.  A contact is the normalised e-mail address or phone       *)
(* number: both are normalised before they are compared or stored.         *)
(*                                                                         *)
(* A transaction is named by the connection it runs on.  A registration    *)
(* that is refused hands its connection back to the pool with the          *)
(* transaction still open, or aborted: the next statement that is given    *)
(* the connection runs in it.                                              *)
(***************************************************************************)
EXTENDS Naturals, FiniteSets

CONSTANTS
  User, NoOne,         \* ids
  Email, Phone, NoContact,
  Tx,                  \* the connections of the pool
  MaxFaults,           \* bound on statements that fail
  MaxPending           \* bound on statements run in a transaction that was left open

ASSUME AccountsAssumption ==
  /\ NoOne \notin User
  /\ NoContact \notin Email \cup Phone
  /\ MaxFaults \in Nat /\ MaxPending \in Nat

VARIABLES
  users,    \* the committed rows
  creds,    \* auth_credentials: none, or the password as registered or changed
  placed,   \* users with a currentLocation
  tx,       \* the transactions
  pend,     \* what single statements have written in one that was left open
  told,     \* users whose registration was answered with success
  faults

tables == <<users, creds, placed>>
vars == <<tables, tx, pend, told, faults>>

----------------------------------------------------------------------------
(* Types *)

OptEmail == Email \cup {NoContact}
OptPhone == Phone \cup {NoContact}

NoUser == [made |-> FALSE, email |-> NoContact, phone |-> NoContact, deleted |-> FALSE]
UserRow == [made : BOOLEAN, email : OptEmail, phone : OptPhone, deleted : BOOLEAN]

CredentialRow == {"none", "registered", "changed"}

Idle == [at |-> "idle", user |-> NoOne, email |-> NoContact, phone |-> NoContact,
         writes |-> FALSE, creds |-> FALSE, aborted |-> FALSE]

Transaction ==
  [at : {"idle", "insert", "creds", "commit",
         "checkEmail", "checkPhone", "save", "updated", "left", "lost"},
   user : User \cup {NoOne}, email : OptEmail, phone : OptPhone,
   writes : BOOLEAN, creds : BOOLEAN, aborted : BOOLEAN]

Running(w) == tx[w].at \notin {"idle", "left", "lost"}
Updating(w) == tx[w].at \in {"checkEmail", "checkPhone", "save", "updated"}

\* Statements that are not part of a transaction.
Change == [what : {"password", "remove", "place"}, user : User]

\* Who has a row of users locked: its editor, or the transaction that was left open
\* and in which a statement has written it.
LockedBy(u) ==
  {w \in Tx : \/ Updating(w) /\ tx[w].user = u
              \/ \E c \in pend[w] : c.user = u /\ c.what # "password"}

\* A row is locked by one transaction at a time.
TypeOK ==
  /\ users \in [User -> UserRow]
  /\ creds \in [User -> CredentialRow]
  /\ placed \in [User -> BOOLEAN]
  /\ tx \in [Tx -> Transaction]
  /\ pend \in [Tx -> SUBSET Change]
  /\ told \subseteq User
  /\ faults \in 0 .. MaxFaults
  /\ \A u \in User : \A v, w \in LockedBy(u) : v = w

Init ==
  /\ users = [u \in User |-> NoUser]
  /\ creds = [u \in User |-> "none"]
  /\ placed = [u \in User |-> FALSE]
  /\ tx = [w \in Tx |-> Idle]
  /\ pend = [w \in Tx |-> {}]
  /\ told = {}
  /\ faults = 0

----------------------------------------------------------------------------
(* Reads, locks and indexes *)

Exists(u) == users[u].made /\ ~users[u].deleted

\* A select sees what is committed, and what its own transaction has written.
Sees(w, u) == Exists(u) /\ [what |-> "remove", user |-> u] \notin pend[w]

HasEmail(w, e) == {u \in User : Sees(w, u) /\ e # NoContact /\ users[u].email = e}
HasPhone(w, p) == {u \in User : Sees(w, u) /\ p # NoContact /\ users[u].phone = p}

\* FOR UPDATE waits for whoever updates the row.
Lockable(w, us) == \A u \in us : LockedBy(u) \subseteq {w}

SameContact(e1, p1, e2, p2) ==
  \/ e1 # NoContact /\ e1 = e2
  \/ p1 # NoContact /\ p1 = p2

\* The unique columns: another row, deleted ones included, has a contact ...
Taken(u, e, p) ==
  \E v \in User \ {u} : users[v].made /\ SameContact(e, p, users[v].email, users[v].phone)

\* ... or a transaction that has written such a row must end first.
MustWait(w, e, p) ==
  \E v \in Tx \ {w} : tx[v].writes /\ SameContact(e, p, tx[v].email, tx[v].phone)

\* Ids nobody has been given.
FreeId(u) == ~users[u].made /\ u \notin told /\ \A w \in Tx : tx[w].user # u

\* The row a transaction commits.
Written(t) == [made |-> TRUE, email |-> t.email, phone |-> t.phone, deleted |-> FALSE]

Fault == faults < MaxFaults /\ faults' = faults + 1

Set(w, t) == tx' = [tx EXCEPT ![w] = t] /\ UNCHANGED pend

\* The end of a transaction: what it had pending is written, or dropped.
Done(w) == tx' = [tx EXCEPT ![w] = Idle] /\ pend' = [pend EXCEPT ![w] = {}]

Write(us, cr, cs) ==
  LET In(what) == {c.user : c \in {d \in cs : d.what = what}}
  IN /\ users' = [u \in User |-> IF u \in In("remove") THEN [us[u] EXCEPT !.deleted = TRUE]
                                 ELSE us[u]]
     /\ creds' = [u \in User |-> IF u \in In("password") THEN "changed" ELSE cr[u]]
     /\ placed' = [u \in User |-> u \in In("place") \/ placed[u]]

\* The connection goes back to the pool with its transaction open or aborted; the
\* database has undone an aborted one and released its locks.
Leave(w, aborted) ==
  /\ tx' = [tx EXCEPT ![w] = [Idle EXCEPT !.at = "left", !.aborted = aborted]]
  /\ pend' = IF aborted THEN [pend EXCEPT ![w] = {}] ELSE pend

\* A connection on which a transaction starts: a START TRANSACTION within an
\* open one is only warned of.
Startable(w) == tx[w].at = "idle" \/ (tx[w].at = "left" /\ ~tx[w].aborted)

----------------------------------------------------------------------------
(* POST /users/register *)

\* create looks for the contacts among the users there are.  On a conflict, or
\* when the look-up fails, register answers and releases the connection, and
\* neither commits nor rolls back.
Register(w) ==
  /\ Startable(w)
  /\ \/ /\ \E u \in User, e \in OptEmail, p \in OptPhone :
            /\ FreeId(u)
            /\ {e, p} # {NoContact}
            /\ IF HasEmail(w, e) \cup HasPhone(w, p) # {} THEN Leave(w, FALSE)
               ELSE Set(w, [Idle EXCEPT !.at = "insert", !.user = u, !.email = e, !.phone = p])
        /\ UNCHANGED faults
     \/ Fault /\ Leave(w, TRUE)
  /\ UNCHANGED <<tables, told>>

\* Slip: the columns are not unique in the database.
InsertUserUnindexed(w) ==
  /\ tx[w].at = "insert"
  /\ Set(w, [tx[w] EXCEPT !.at = "creds", !.writes = TRUE])
  /\ UNCHANGED <<tables, told, faults>>

\* The insertion, which the unique columns may delay, or refuse (23505): the
\* database aborts the transaction, and register leaves it so.
InsertUser(w) ==
  /\ tx[w].at = "insert"
  /\ ~MustWait(w, tx[w].email, tx[w].phone)
  /\ IF Taken(tx[w].user, tx[w].email, tx[w].phone) THEN Leave(w, TRUE)
     ELSE Set(w, [tx[w] EXCEPT !.at = "creds", !.writes = TRUE])
  /\ UNCHANGED <<tables, told, faults>>

\* Slip: the user is committed and answered before the credentials are made.
CommitUserFirst(w) ==
  /\ tx[w].at = "creds"
  /\ Write([users EXCEPT ![tx[w].user] = Written(tx[w])], creds, pend[w])
  /\ told' = told \cup {tx[w].user}
  /\ Done(w)
  /\ UNCHANGED faults

\* createForUser.  What goes wrong in it is caught and dropped: when it was a
\* statement the database has aborted the transaction.
CreateForUser(w) ==
  /\ tx[w].at = "creds"
  /\ \/ Set(w, [tx[w] EXCEPT !.at = "commit", !.creds = TRUE]) /\ UNCHANGED faults
     \/ \E statement \in BOOLEAN :
          Fault /\ Set(w, [tx[w] EXCEPT !.at = "commit", !.aborted = statement])
  /\ UNCHANGED <<tables, told>>

\* The commit; of an aborted transaction it is a rollback that reports no
\* error, and the request is answered with success all the same.
CommitRegistration(w) ==
  /\ tx[w].at = "commit"
  /\ IF tx[w].aborted THEN UNCHANGED tables
     ELSE Write([users EXCEPT ![tx[w].user] = Written(tx[w])],
                IF tx[w].creds THEN [creds EXCEPT ![tx[w].user] = "registered"] ELSE creds,
                pend[w])
  /\ told' = told \cup {tx[w].user}
  /\ Done(w)
  /\ UNCHANGED faults

\* startTransaction fails on a connection whose transaction is aborted, outside of
\* the try: the connection is never released.
StartFails(w) ==
  /\ tx[w].at = "left" /\ tx[w].aborted
  /\ Set(w, [Idle EXCEPT !.at = "lost"])
  /\ UNCHANGED <<tables, told, faults>>

\* External: a transaction of the rest of the program on this connection commits or
\* rolls back what was left, or the pool closes a connection that nobody uses.
EndElsewhere(w) ==
  /\ tx[w].at = "left"
  /\ \/ ~tx[w].aborted /\ Write(users, creds, pend[w])
     \/ UNCHANGED tables
  /\ Done(w)
  /\ UNCHANGED <<told, faults>>

----------------------------------------------------------------------------
(* PATCH /users/:id *)

\* Slip: the row is read without a lock.
UpdateUserUnlocked(w) ==
  /\ Startable(w)
  /\ \E u \in User, e \in Email :
       /\ Sees(w, u)
       /\ Set(w, [Idle EXCEPT !.at = "checkEmail", !.user = u, !.email = e,
                  !.phone = users[u].phone])
  /\ UNCHANGED <<tables, told, faults>>

\* The row is locked and read, and the contacts it is to have are computed: a
\* contact that is not given or is cleared stays as it is, for save skips
\* undefined columns.
UpdateUser(w) ==
  /\ Startable(w)
  /\ \E u \in User, e \in OptEmail, p \in OptPhone :
       /\ Sees(w, u)
       /\ Lockable(w, {u})
       /\ Set(w, [Idle EXCEPT !.at = "checkEmail", !.user = u,
                  !.email = IF e = NoContact THEN users[u].email ELSE e,
                  !.phone = IF p = NoContact THEN users[u].phone ELSE p])
  /\ UNCHANGED <<tables, told, faults>>

Others(w, us) == us \ {tx[w].user}

\* Slip: a conflict answers without a rollback, as in OrdersService.update.
CheckEmailUnended(w) ==
  /\ tx[w].at = "checkEmail"
  /\ Lockable(w, HasEmail(w, tx[w].email))
  /\ Others(w, HasEmail(w, tx[w].email)) = {}
  /\ Set(w, [tx[w] EXCEPT !.at = "checkPhone"])
  /\ UNCHANGED <<tables, told, faults>>

\* The users with the new e-mail address, and then those with the new phone
\* number, are locked and looked at; another one ends the request.
CheckEmail(w) ==
  /\ tx[w].at = "checkEmail"
  /\ Lockable(w, HasEmail(w, tx[w].email))
  /\ IF Others(w, HasEmail(w, tx[w].email)) # {} THEN Done(w)
     ELSE Set(w, [tx[w] EXCEPT !.at = "checkPhone"])
  /\ UNCHANGED <<tables, told, faults>>

CheckPhone(w) ==
  /\ tx[w].at = "checkPhone"
  /\ Lockable(w, HasPhone(w, tx[w].phone))
  /\ IF Others(w, HasPhone(w, tx[w].phone)) # {} THEN Done(w)
     ELSE Set(w, [tx[w] EXCEPT !.at = "save"])
  /\ UNCHANGED <<tables, told, faults>>

SaveUser(w) ==
  /\ tx[w].at = "save"
  /\ ~MustWait(w, tx[w].email, tx[w].phone)
  /\ IF Taken(tx[w].user, tx[w].email, tx[w].phone) THEN Done(w)
     ELSE Set(w, [tx[w] EXCEPT !.at = "updated", !.writes = TRUE])
  /\ UNCHANGED <<tables, told, faults>>

CommitUpdate(w) ==
  /\ tx[w].at = "updated"
  /\ Write([users EXCEPT ![tx[w].user] = Written(tx[w])], creds, pend[w])
  /\ Done(w)
  /\ UNCHANGED <<told, faults>>

\* Two edits wait for each other's row: PostgreSQL aborts one of them.
WaitsFor(v, w) ==
  \/ tx[v].at = "checkEmail" /\ \E u \in HasEmail(v, tx[v].email) : w \in LockedBy(u)
  \/ tx[v].at = "checkPhone" /\ \E u \in HasPhone(v, tx[v].phone) : w \in LockedBy(u)
  \/ tx[v].at \in {"insert", "save"} /\ tx[w].writes
       /\ SameContact(tx[v].email, tx[v].phone, tx[w].email, tx[w].phone)

\* A failed statement ends a request: the transaction is rolled back, but by register
\* when it was the insertion, whose error create has turned into an answer.
Abort(w) == IF tx[w].at = "insert" THEN Leave(w, TRUE) ELSE Done(w)

DeadlockDetected(w) ==
  /\ \E v \in Tx \ {w} : WaitsFor(v, w) /\ WaitsFor(w, v)
  /\ Abort(w)
  /\ UNCHANGED <<tables, told, faults>>

StatementFails(w) ==
  /\ Running(w) /\ tx[w].at # "creds"
  /\ Fault
  /\ Abort(w)
  /\ UNCHANGED <<tables, told>>

----------------------------------------------------------------------------
(* Single statements *)

\* The statement is committed at once, or becomes part of the transaction that
\* was left open on its connection; in an aborted one it fails.
Statement(w, c) ==
  /\ \/ tx[w].at = "idle" /\ Write(users, creds, {c}) /\ UNCHANGED pend
     \/ /\ tx[w].at = "left" /\ ~tx[w].aborted
        /\ Cardinality(pend[w]) < MaxPending
        /\ pend' = [pend EXCEPT ![w] = @ \cup {c}]
        /\ UNCHANGED tables
  /\ UNCHANGED <<tx, told, faults>>

\* PATCH /users/:id/password, answered with success whether there is a row.
ChangePassword(w, u) ==
  /\ creds[u] # "none"
  /\ \A v \in Tx \ {w} : [what |-> "password", user |-> u] \notin pend[v]
  /\ Statement(w, [what |-> "password", user |-> u])

\* DELETE /users/:id: the row stays, with its contacts.
RemoveUser(w, u) ==
  /\ Sees(w, u)
  /\ Lockable(w, {u})
  /\ Statement(w, [what |-> "remove", user |-> u])

UpdatePassengerLocation(w, u) ==
  /\ Sees(w, u)
  /\ Lockable(w, {u})
  /\ Statement(w, [what |-> "place", user |-> u])

\* A passenger's ping that is worth saving: the first, one after 5 minutes, or
\* one after 15 seconds and 50 metres.
PingLocation(w, u) == UpdatePassengerLocation(w, u)

TxStep(w) ==
  \/ InsertUser(w) \/ CreateForUser(w) \/ CommitRegistration(w)
  \/ CheckEmail(w) \/ CheckPhone(w) \/ SaveUser(w) \/ CommitUpdate(w)
  \/ DeadlockDetected(w)

Next ==
  \E w \in Tx :
    \/ Register(w) \/ UpdateUser(w) \/ TxStep(w) \/ StatementFails(w)
    \/ StartFails(w) \/ EndElsewhere(w)
    \/ \E u \in User : ChangePassword(w, u) \/ RemoveUser(w, u) \/ PingLocation(w, u)

Spec == Init /\ [][Next]_vars

\* PostgreSQL detects deadlocks and serves the waiters of a lock in turn, so a
\* transaction that is let through again and again goes on in the end.
LiveSpec == Spec /\ \A w \in Tx : SF_vars(TxStep(w))

----------------------------------------------------------------------------
(* Properties *)

\* No two users ever have the same address or number, however registrations
\* and edits overlap: the look-ups are not enough, the unique columns decide.
ContactsUnique ==
  \A u, v \in User :
    users[u].made /\ users[v].made
      /\ SameContact(users[u].email, users[u].phone, users[v].email, users[v].phone)
    => u = v

\* Unless a statement failed, whoever was told that he is registered is a user
\* with credentials, for good.
RegisteredHasCredentials ==
  faults = 0 => \A u \in told : users[u].made /\ creds[u] # "none"

\* Locks are released and cycles of waits are broken: every request ends, unless a
\* refused registration has left a transaction open in which a statement has since
\* locked a row, and nothing ever ends that transaction.
EveryRequestEnds ==
  <>[](\A w \in Tx : pend[w] = {}) => \A w \in Tx : Running(w) ~> ~Running(w)

=============================================================================
