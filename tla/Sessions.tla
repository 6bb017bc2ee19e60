------------------------------ MODULE Sessions ------------------------------
(***************************************************************************)
(* Logins, the rotation of refresh tokens, logouts, and the sockets that   *)
(* hang on a session: auth/services/auth.service.ts over the sessions      *)
(* table, the handshakes of realtime/gateways, and the listeners that cut  *)
(* the sockets of a session when it is refreshed or revoked.               *)
(*                                                                         *)
(* A token is the jti that an access token and its refresh token share; a  *)
(* row's hash is always that of the token its jti names, so comparing it   *)
(* again finds nothing.  Refresh and logout read the row, kept in h[w],    *)
(* and later save the entity they changed, without a lock or a version:    *)
(* the save selects the row once more and then updates the columns in      *)
(* which the two differ.  Other requests fall in between both times.       *)
(***************************************************************************)
EXTENDS Naturals, FiniteSets

CONSTANTS
  User, NoUser,
  FirstRoles,          \* what users may be registered as
  Handler,             \* requests being served at the same time
  Conn,                \* sockets
  MaxSessions, MaxTokens,  \* bounds on what is ever created
  MaxChanges           \* bound on changes of users, expiries and crashes

ASSUME SessionsAssumption ==
  /\ NoUser \notin User
  /\ FirstRoles \subseteq {"driver", "passenger"}
  /\ MaxSessions \in Nat
  /\ MaxTokens \in Nat
  /\ MaxChanges \in Nat

Session == 1 .. MaxSessions
Token == 1 .. MaxTokens
NoToken == 0

VARIABLES
  role,     \* users.userType
  gone,     \* users that are soft-deleted
  row,      \* the sessions table
  holder,   \* the sub and the audience a token was signed with
  issued,   \* tokens signed so far
  stale,    \* the access tokens up to this one have expired: all live equally long
  dead,     \* the refresh tokens up to this one have, which live longer
  told,     \* tokens a client has received
  h,        \* the requests in flight
  cuts,     \* SessionRefreshed events on their way to the listener
  conn,     \* the sockets
  changes,
  \* what has happened, for the properties only
  replaced, \* tokens a save has taken out of their row
  lost,     \* those among them that the save did not know of
  revived,  \* tokens a logout or a revocation wrote into a row that was live again
  quiet,    \* tokens whose session was revoked without an event that names them
  mixed,    \* logouts that some rotation of their session has overlapped
  closed    \* sessions logged out by one that none has overlapped

tableVars == <<role, gone, row>>
tokenVars == <<holder, issued, stale, dead, told>>
wireVars  == <<cuts, conn>>
pastVars  == <<replaced, lost, revived, quiet, mixed, closed>>
vars == <<tableVars, tokenVars, h, wireVars, pastVars, changes>>

----------------------------------------------------------------------------
(* Types *)

\* AUDIENCE_TO_USER_TYPE: each audience is for one role, and is named by it.
UserType == {"driver", "passenger"}

NoSession == [user |-> NoUser, jti |-> NoToken, aud |-> "none", revoked |-> FALSE]
SessionRow ==
  [user : User \cup {NoUser}, jti : Token \cup {NoToken},
   aud : UserType \cup {"none"}, revoked : BOOLEAN]

Columns == {"jti", "revoked"}   \* the columns that ever change

\* What a request that is about to save does next, once the save has selected the row.
Saving == [rotate |-> "rotating", revoke |-> "revoking", logout |-> "ending"]

Idle == [at |-> "idle", s |-> 0, read |-> NoSession, new |-> NoToken, diff |-> {}]
Request ==
  [at : {"idle", "login", "told", "ended"} \cup DOMAIN Saving
          \cup {"rotating", "revoking", "ending"},
   s : Session \cup {0}, read : SessionRow, new : Token \cup {NoToken}, diff : SUBSET Columns]

Off == [at |-> "off", sid |-> NoToken, ns |-> "none", late |-> FALSE]
Socket == [at : {"off", "checked", "on"}, sid : Token \cup {NoToken},
           ns : UserType \cup {"none"}, late : BOOLEAN]

Rows == {s \in Session : row[s] # NoSession}

\* jti names one session at most: it is what every request looks up.
TypeOK ==
  /\ role \in [User -> UserType]
  /\ gone \in [User -> BOOLEAN]
  /\ row \in [Session -> SessionRow]
  /\ \A s, r \in Rows : row[s].jti # NoToken /\ (row[s].jti = row[r].jti => s = r)
  /\ holder \in [Token -> User \cup {NoUser}]
  /\ issued \in 0 .. MaxTokens
  /\ dead \in 0 .. stale /\ stale \in 0 .. issued
  /\ told \subseteq Token
  /\ h \in [Handler -> Request]
  /\ cuts \subseteq Token
  /\ conn \in [Conn -> Socket]
  /\ changes \in 0 .. MaxChanges
  /\ replaced \subseteq Token /\ lost \subseteq replaced
  /\ revived \subseteq Token /\ quiet \subseteq Token
  /\ mixed \subseteq Handler /\ closed \subseteq Session

Init ==
  /\ role \in [User -> FirstRoles]
  /\ gone = [u \in User |-> FALSE]
  /\ row = [s \in Session |-> NoSession]
  /\ holder = [t \in Token |-> NoUser]
  /\ issued = 0
  /\ stale = 0 /\ dead = 0
  /\ told = {}
  /\ h = [w \in Handler |-> Idle]
  /\ cuts = {}
  /\ conn = [c \in Conn |-> Off]
  /\ changes = 0
  /\ replaced = {} /\ lost = {} /\ revived = {} /\ quiet = {} /\ mixed = {} /\ closed = {}

----------------------------------------------------------------------------
(* Tokens and lookups *)

\* Slip: the id of a token is not new.
LastToken == issued

\* createRefreshToken: a new jti, which createAccessToken puts in sid.
NewToken == issued + 1

Sign(u) ==
  /\ issued < MaxTokens
  /\ issued' = issued + 1
  /\ holder' = [holder EXCEPT ![issued + 1] = u]

\* findOne by jti, with the user of the session.
FindByJti(t) == {s \in Rows : row[s].jti = t}

Live(t) == \E s \in FindByJti(t) : ~row[s].revoked

\* Where requests look: who may still use a row to get new tokens.
MayRotate(r) == ~gone[r.user] /\ role[r.user] = r.aud

\* What a client may present: a refresh token that has not expired ...
Refreshable == {t \in told : t > dead}

\* ... and an access token that has not.
Usable == {t \in told : t > stale}

\* The entity as the request has changed it: with its new token, or revoked.
Wanted(w) ==
  IF h[w].new # NoToken THEN [h[w].read EXCEPT !.jti = h[w].new]
  ELSE [h[w].read EXCEPT !.revoked = TRUE]

\* save(session), first half: the row is selected by its id and compared.
SaveSelects(w) ==
  /\ h[w].at \in DOMAIN Saving
  /\ h' = [h EXCEPT ![w].at = Saving[h[w].at],
                    ![w].diff = {c \in Columns : row[h[w].s][c] # Wanted(w)[c]}]
  /\ UNCHANGED <<tableVars, tokenVars, wireVars, pastVars, changes>>

\* Second half: only those columns are written, over whatever the row has become.
After(w) ==
  [row[h[w].s] EXCEPT
     !.jti = IF "jti" \in h[w].diff THEN Wanted(w).jti ELSE @,
     !.revoked = IF "revoked" \in h[w].diff THEN Wanted(w).revoked ELSE @]

Save(w) ==
  LET was == row[h[w].s]
      over == {was.jti} \ {After(w).jti}
  IN /\ row' = [row EXCEPT ![h[w].s] = After(w)]
     /\ replaced' = replaced \cup over
     /\ lost' = lost \cup (over \ {h[w].read.jti})

\* The token of a row that this save revokes.
Revokes(w) == IF After(w).revoked /\ ~row[h[w].s].revoked THEN {After(w).jti} ELSE {}

\* The token this save writes into a row that it was to revoke and that is live.
Revives(w) ==
  IF After(w).revoked THEN {} ELSE {After(w).jti} \ {row[h[w].s].jti}

\* disconnectSockets of the room session:sid; the publishers hold the server
\* of the /drivers namespace only.  A socket still in its handshake is in no
\* room yet.
Cut(t) ==
  conn' = [c \in Conn |->
    CASE conn[c].sid # t \/ conn[c].ns # "driver" -> conn[c]
      [] conn[c].at = "on" -> Off
      [] OTHER -> [at |-> conn[c].at, sid |-> t, ns |-> conn[c].ns, late |-> TRUE]]

Put(w, at, s, read, new) ==
  h' = [h EXCEPT ![w] = [at |-> at, s |-> s, read |-> read, new |-> new, diff |-> {}]]

Done(w) == h' = [h EXCEPT ![w] = Idle]

----------------------------------------------------------------------------
(* Login *)

\* validateUserCredentials and the check of the role, in the transaction; the
\* password is right, or nothing is written (a failed attempt is counted in
\* the transaction that is then rolled back).
LoginRead(w) ==
  /\ h[w].at = "idle"
  /\ \E u \in User :
       /\ ~gone[u]
       /\ Sign(u)
       /\ Put(w, "login", 0,
              [user |-> u, jti |-> NewToken, aud |-> role[u], revoked |-> FALSE], NewToken)
  /\ UNCHANGED <<tableVars, stale, dead, told, wireVars, pastVars, changes>>

\* The new session is committed; the event and the answer follow.
LoginCommit(w) ==
  /\ h[w].at = "login"
  /\ \E s \in Session :
       /\ row[s] = NoSession
       /\ \A r \in Session : r < s => row[r] # NoSession
       /\ row' = [row EXCEPT ![s] = h[w].read]
       /\ Put(w, "told", s, NoSession, h[w].new)
  /\ UNCHANGED <<role, gone, tokenVars, wireVars, pastVars, changes>>

----------------------------------------------------------------------------
(* Refresh *)

Rotating(s) == \E w \in Handler : h[w].at \in {"rotate", "rotating"} /\ h[w].s = s
LoggingOut(s) == {w \in Handler : h[w].at \in {"logout", "ending"} /\ h[w].s = s}

\* A session that may be rotated gets a token, any other is to be revoked.
Judge(w, s, read) ==
  IF MayRotate(row[s])
  THEN /\ Sign(row[s].user) /\ Put(w, "rotate", s, read, NewToken)
       /\ mixed' = mixed \cup LoggingOut(s)
  ELSE UNCHANGED <<issued, holder, mixed>> /\ Put(w, "revoke", s, read, NoToken)

\* Slip: a revoked session is taken up again.
RefreshReadAny(w) ==
  /\ h[w].at = "idle"
  /\ \E t \in Refreshable : \E s \in FindByJti(t) : Judge(w, s, [row[s] EXCEPT !.revoked = FALSE])
  /\ UNCHANGED <<tableVars, stale, dead, told, wireVars, changes>>
  /\ UNCHANGED <<replaced, lost, revived, quiet, closed>>

\* The row is read and judged: rotated for a user who still has the role of the
\* session, else revoked.  Without a live row the answer is 401.
RefreshRead(w) ==
  /\ h[w].at = "idle"
  /\ \E t \in Refreshable : \E s \in FindByJti(t) : ~row[s].revoked /\ Judge(w, s, row[s])
  /\ UNCHANGED <<tableVars, stale, dead, told, wireVars, changes>>
  /\ UNCHANGED <<replaced, lost, revived, quiet, closed>>

\* The new jti, hash and expiries are saved ...
RefreshSave(w) ==
  /\ h[w].at = "rotating"
  /\ Save(w)
  /\ Put(w, "told", h[w].s, h[w].read, h[w].new)
  /\ UNCHANGED <<role, gone, tokenVars, wireVars, revived, quiet, mixed, closed, changes>>

\* ... or the session is revoked; nobody is told of it.
RefreshRevoke(w) ==
  /\ h[w].at = "revoking"
  /\ Save(w)
  /\ revived' = revived \cup Revives(w)
  /\ quiet' = quiet \cup Revokes(w)
  /\ Done(w)
  /\ UNCHANGED <<role, gone, tokenVars, wireVars, mixed, closed, changes>>

\* Slip: the event names the session by its new jti.
TellNewSid(w) ==
  /\ h[w].at = "told"
  /\ \E arrives \in BOOLEAN : told' = told \cup (IF arrives THEN {h[w].new} ELSE {})
  /\ cuts' = cuts \cup (IF h[w].read = NoSession THEN {} ELSE {h[w].new})
  /\ Done(w)
  /\ UNCHANGED <<tableVars, holder, issued, stale, dead, conn, pastVars, changes>>

\* The end of a login or a refresh: SessionRefreshed is emitted for a listener
\* that runs later, and the tokens are sent; the answer may be lost.
Tell(w) ==
  /\ h[w].at = "told"
  /\ \E arrives \in BOOLEAN : told' = told \cup (IF arrives THEN {h[w].new} ELSE {})
  /\ cuts' = cuts \cup ({h[w].read.jti} \ {NoToken})
  /\ Done(w)
  /\ UNCHANGED <<tableVars, holder, issued, stale, dead, conn, pastVars, changes>>

\* onSessionRefreshed: the sockets of the old sid are disconnected.
SessionRefreshed(t) ==
  /\ t \in cuts
  /\ cuts' = cuts \ {t}
  /\ Cut(t)
  /\ UNCHANGED <<tableVars, tokenVars, h, pastVars, changes>>

----------------------------------------------------------------------------
(* Logout *)

\* The row is looked up, revoked or not; a token that cannot be verified or
\* names no row changes nothing.
LogoutRead(w) ==
  /\ h[w].at = "idle"
  /\ \E t \in Refreshable : \E s \in FindByJti(t) :
       /\ Put(w, "logout", s, row[s], NoToken)
       /\ mixed' = IF Rotating(s) THEN mixed \cup {w} ELSE mixed \ {w}
  /\ UNCHANGED <<tableVars, tokenVars, wireVars, replaced, lost, revived, quiet, closed, changes>>

Unmixed(w) == IF w \in mixed THEN {} ELSE {h[w].s}

\* Slip: the row is written back whole as it was read, without being marked.
LogoutSaveUnmarked(w) ==
  /\ h[w].at = "ending"
  /\ row' = [row EXCEPT ![h[w].s] = h[w].read]
  /\ replaced' = replaced \cup ({row[h[w].s].jti} \ {h[w].read.jti})
  /\ lost' = lost \cup ({row[h[w].s].jti} \ {h[w].read.jti})
  /\ UNCHANGED <<revived, quiet, closed, mixed>>
  /\ Put(w, "ended", h[w].s, h[w].read, NoToken)
  /\ UNCHANGED <<role, gone, tokenVars, wireVars, changes>>

LogoutSave(w) ==
  /\ h[w].at = "ending"
  /\ Save(w)
  /\ revived' = revived \cup Revives(w)
  /\ quiet' = quiet \cup (Revokes(w) \ {h[w].read.jti})
  /\ closed' = closed \cup Unmixed(w)
  /\ Put(w, "ended", h[w].s, h[w].read, NoToken)
  /\ UNCHANGED <<role, gone, tokenVars, wireVars, mixed, changes>>

\* SessionRevoked: the listener disconnects the session's sockets at once.
SessionRevoked(w) ==
  /\ h[w].at = "ended"
  /\ Cut(h[w].read.jti)
  /\ Done(w)
  /\ UNCHANGED <<tableVars, tokenVars, cuts, pastVars, changes>>

\* A statement of a request fails: it ends without having changed anything.
RequestFails(w) ==
  /\ h[w].at \notin {"idle", "told", "ended"}
  /\ Done(w)
  /\ UNCHANGED <<tableVars, tokenVars, wireVars, pastVars, changes>>

----------------------------------------------------------------------------
(* Sockets *)

\* What a handshake requires of the token and the session it names, and the
\* guard of the /drivers messages requires again.
Admits(t, ns) ==
  /\ t \in Usable
  /\ ~gone[holder[t]]
  /\ role[holder[t]] = ns
  /\ Live(t)

\* handleConnection: the checks, and, after an await, the rooms.
Connect(c) ==
  /\ conn[c].at = "off"
  /\ \E t \in told, ns \in UserType :
       /\ Admits(t, ns)
       /\ conn' = [conn EXCEPT ![c] = [at |-> "checked", sid |-> t, ns |-> ns, late |-> FALSE]]
  /\ UNCHANGED <<tableVars, tokenVars, h, cuts, pastVars, changes>>

Join(c) ==
  /\ conn[c].at = "checked"
  /\ conn' = [conn EXCEPT ![c] =
       [at |-> "on", sid |-> conn[c].sid, ns |-> conn[c].ns, late |-> conn[c].late]]
  /\ UNCHANGED <<tableVars, tokenVars, h, cuts, pastVars, changes>>

Leave(c) ==
  /\ conn[c].at # "off"
  /\ conn' = [conn EXCEPT ![c] = Off]
  /\ UNCHANGED <<tableVars, tokenVars, h, cuts, pastVars, changes>>

----------------------------------------------------------------------------
(* Users, time and crashes *)

Changing == changes < MaxChanges /\ changes' = changes + 1

\* PATCH /users/:id may change the role.
ChangeRole(u) ==
  /\ Changing
  /\ ~gone[u]
  /\ \E r \in UserType \ {role[u]} : role' = [role EXCEPT ![u] = r]
  /\ UNCHANGED <<gone, row, tokenVars, h, wireVars, pastVars>>

\* DELETE /users/:id: the sessions stay.
RemoveUser(u) ==
  /\ Changing
  /\ ~gone[u]
  /\ gone' = [gone EXCEPT ![u] = TRUE]
  /\ UNCHANGED <<role, row, tokenVars, h, wireVars, pastVars>>

\* The expiry of the oldest access or refresh token that is still good.
AccessExpires ==
  /\ Changing
  /\ stale < issued
  /\ stale' = stale + 1
  /\ UNCHANGED <<tableVars, holder, issued, dead, told, h, wireVars, pastVars>>

RefreshExpires ==
  /\ Changing
  /\ dead < stale
  /\ dead' = dead + 1
  /\ UNCHANGED <<tableVars, holder, issued, stale, told, h, wireVars, pastVars>>

\* The process stops: requests, pending events and sockets are gone.
Crash ==
  /\ Changing
  /\ h' = [w \in Handler |-> Idle]
  /\ cuts' = {}
  /\ conn' = [c \in Conn |-> Off]
  /\ UNCHANGED <<tableVars, tokenVars, pastVars>>

Next ==
  \/ \E w \in Handler :
       \/ LoginRead(w) \/ LoginCommit(w)
       \/ RefreshRead(w) \/ RefreshSave(w) \/ RefreshRevoke(w) \/ Tell(w)
       \/ LogoutRead(w) \/ SaveSelects(w) \/ LogoutSave(w) \/ SessionRevoked(w)
       \/ RequestFails(w)
  \/ \E t \in Token : SessionRefreshed(t)
  \/ AccessExpires
  \/ RefreshExpires
  \/ \E c \in Conn : Connect(c) \/ Join(c) \/ Leave(c)
  \/ \E u \in User : ChangeRole(u) \/ RemoveUser(u)
  \/ Crash

Spec == Init /\ [][Next]_vars

----------------------------------------------------------------------------
(* Properties *)

\* A token that a rotation or a stale save has taken out of its session is the token of
\* a live session again only if a logout or a revocation wrote it back: one that found
\* the row revoked when it compared, and wrote the token alone after a rotation, begun
\* before, had brought the row back to life.  (The property is not that a refresh token
\* is good for one rotation: of two refreshes that overlap both rotate and both answer,
\* and the token of the one that saves first is replaced at once.)
ReplacedStaysReplaced ==
  \A s \in Rows : ~row[s].revoked => row[s].jti \notin replaced \ revived

\* A logout that no rotation of its session overlapped is final.  (A rotation that had
\* read the session before saves it back to life, and a second logout that compares
\* with the row of the first before that finds nothing to mark.)
LogoutHolds == \A s \in closed : row[s].revoked

\* A driver's socket outlives the token it was opened with only if the token was cut
\* before the handshake was through, a stale save overwrote it, or its session was
\* revoked by a request that knew another token of it or by a refresh, which emits no
\* event; otherwise an event that will cut it is still on its way.
SocketsFollowSessions ==
  \A c \in Conn :
    LET t == conn[c].sid
    IN conn[c].at = "on" /\ conn[c].ns = "driver" /\ ~conn[c].late =>
         \/ Live(t)
         \/ t \in cuts
         \/ \E w \in Handler : h[w].at \in {"told", "ended"} /\ h[w].read.jti = t
         \/ t \in lost \cup quiet

=============================================================================
