--------------------------- MODULE SessionsProofs ---------------------------
(***************************************************************************)
(* Proofs about Sessions, for any numbers of users, requests, sockets,     *)
(* sessions and tokens.                                                    *)
(***************************************************************************)
EXTENDS Sessions, TLAPS

\* The requests that will save the row they have read, and those with a token
\* nobody has seen.
Rotate == {"rotate", "rotating"}
Revoke == {"revoke", "revoking", "logout", "ending"}
USE DEF Rotate, Revoke
Using(w) == h[w].at \in Rotate \cup Revoke
Pending(w) == h[w].at \in Rotate \cup {"login"}

HandlerOK(w) ==
  /\ h[w].new <= issued
  /\ h[w].at \in Rotate \cup {"login", "told"} => h[w].new # NoToken
  /\ h[w].at \in Revoke => h[w].new = NoToken
  /\ h[w].at = "login" => h[w].read.jti = h[w].new
  /\ h[w].at \in Rotate => ~h[w].read.revoked
  /\ h[w].at = "rotating" => "jti" \in h[w].diff
  /\ Using(w) => h[w].s \in Rows /\ h[w].read.jti \in 1 .. issued

\* Tokens are known only once they are issued.
IssuedOK ==
  /\ \A s \in Rows : row[s].jti <= issued
  /\ \A t \in replaced : t <= issued
  /\ \A w \in Handler : HandlerOK(w)

\* A new token is in no row, was in none, and no other request has it.
FreshOK ==
  \A w \in Handler : Pending(w) =>
    /\ h[w].new \notin replaced
    /\ \A s \in Rows : row[s].jti # h[w].new
    /\ \A v \in Handler : v # w => h[v].new # h[w].new
    /\ \A v \in Handler : Using(v) => h[v].read.jti # h[w].new

\* The tokens a session has, or would have after a save; they are of no other.
Of(t, s) ==
  \/ s \in Rows /\ row[s].jti = t
  \/ \E w \in Handler : Using(w) /\ h[w].s = s /\ t \in {h[w].read.jti, h[w].new}

OwnersOK == \A t \in Token, s, r \in Session : Of(t, s) /\ Of(t, r) => s = r

\* No rotation is to save a session that a logout which is final has closed, ...
ClosedOK == \A s \in closed : s \in Rows /\ row[s].revoked /\ ~Rotating(s)

\* ... or that is being closed by one that none has overlapped; such a logout found
\* the row unmarked, unless it still is marked.
LogoutsOK ==
  \A w \in Handler : h[w].at \in {"logout", "ending"} /\ w \notin mixed =>
    /\ ~Rotating(h[w].s)
    /\ h[w].at = "ending" => "revoked" \in h[w].diff \/ row[h[w].s].revoked

\* SocketsFollowSessions for the sockets that are still in their handshake too.
Covered(t) ==
  \/ Live(t)
  \/ t \in cuts
  \/ \E w \in Handler : h[w].at \in {"told", "ended"} /\ h[w].read.jti = t
  \/ t \in lost \cup quiet

SocketsOK ==
  \A c \in Conn : conn[c].at # "off" /\ conn[c].ns = "driver" /\ ~conn[c].late =>
    conn[c].sid \in Token /\ Covered(conn[c].sid)

IInv ==
  /\ TypeOK /\ IssuedOK /\ FreshOK /\ OwnersOK
  /\ ReplacedStaysReplaced /\ ClosedOK /\ LogoutsOK /\ SocketsOK

----------------------------------------------------------------------------
(* The sessions and the requests *)

LEMMA SavingFacts == DOMAIN Saving = {"rotate", "revoke", "logout"}
BY DEF Saving

LEMMA IdleFacts ==
  /\ Idle \in Request /\ Idle.at = "idle" /\ Idle.new = NoToken /\ Idle.read = NoSession
  /\ NoSession \in SessionRow /\ NoSession.jti = NoToken
BY DEF Idle, Request, NoSession, SessionRow

LEMMA RowFacts ==
  ASSUME TypeOK, NEW s \in Rows
  PROVE  s \in Session /\ row[s] \in SessionRow /\ row[s].jti \in Token
BY DEF TypeOK, Rows, SessionRow

\* What the invariants of the table and of the requests are together.
Tables == TypeOK /\ IssuedOK /\ FreshOK /\ OwnersOK /\ ReplacedStaysReplaced

\* What a request may become when it saves nothing: itself, over, or a request
\* that has read a row to revoke it.
Reads(w, s, at) ==
  /\ at \in {"revoke", "logout"}
  /\ s \in Rows
  /\ h' = [h EXCEPT ![w] = [at |-> at, s |-> s, read |-> row[s], new |-> NoToken, diff |-> {}]]

\* Requests that end take nothing away.
LEMMA EndingKeeps ==
  ASSUME Tables, UNCHANGED <<row, issued, replaced, revived>>, TypeOK',
         \A v \in Handler : h'[v] = h[v] \/ h'[v] = Idle
  PROVE  Tables'
<1> USE DEF Tables
<1>1. \A v \in Handler : /\ Using(v)' => Using(v) /\ h'[v] = h[v]
                         /\ Pending(v)' => Pending(v) /\ h'[v] = h[v]
  BY IdleFacts DEF Using, Pending
<1>2. Rows' = Rows
  BY DEF Rows
<1>3. IssuedOK'
  BY <1>1, <1>2, IdleFacts DEF IssuedOK, HandlerOK, TypeOK, NoToken
<1>4. FreshOK'
  <2> SUFFICES ASSUME NEW w \in Handler, Pending(w)'
               PROVE  /\ h'[w].new \notin replaced
                      /\ \A s \in Rows : row[s].jti # h'[w].new
                      /\ \A v \in Handler : v # w => h'[v].new # h'[w].new
                      /\ \A v \in Handler : Using(v)' => h'[v].read.jti # h'[w].new
    BY <1>2 DEF FreshOK
  <2>1. Pending(w) /\ h'[w] = h[w] /\ h[w].new # NoToken
    BY <1>1 DEF IssuedOK, HandlerOK, Pending
  <2> QED BY <1>1, <2>1, IdleFacts DEF FreshOK
<1>5. \A t \in Token, s \in Session : Of(t, s)' => Of(t, s)
  BY <1>1, <1>2 DEF Of
<1>6. OwnersOK'
  BY <1>5 DEF OwnersOK
<1>7. ReplacedStaysReplaced'
  BY <1>2 DEF ReplacedStaysReplaced
<1> QED BY <1>3, <1>4, <1>6, <1>7

\* A request that has read a row knows a token of that row's session.
LEMMA ReadingKeeps ==
  ASSUME Tables, UNCHANGED <<row, issued, replaced, revived>>, TypeOK',
         NEW w \in Handler, NEW s, NEW at, Reads(w, s, at)
  PROVE  Tables'
<1> USE DEF Tables
<1>1. /\ h'[w].at = at /\ h'[w].s = s /\ h'[w].read = row[s] /\ h'[w].new = NoToken
      /\ at \in {"revoke", "logout"} /\ s \in Rows /\ row[s].jti \in Token
      /\ \A v \in Handler : v # w => h'[v] = h[v]
  BY RowFacts DEF TypeOK, Reads
<1>2. /\ Using(w)' /\ ~Pending(w)'
      /\ \A v \in Handler : v # w => (Using(v)' <=> Using(v)) /\ (Pending(v)' <=> Pending(v))
  BY <1>1 DEF Using, Pending
<1>3. Rows' = Rows
  BY DEF Rows
<1>4. IssuedOK'
  <2>1. HandlerOK(w)'
    BY <1>1, <1>3 DEF IssuedOK, HandlerOK, TypeOK, Token, NoToken
  <2>2. \A v \in Handler : v # w => HandlerOK(v)'
    BY <1>1, <1>2, <1>3 DEF IssuedOK, HandlerOK
  <2> QED BY <1>3, <2>1, <2>2 DEF IssuedOK
<1>5. FreshOK'
  <2> SUFFICES ASSUME NEW x \in Handler, Pending(x)'
               PROVE  /\ h'[x].new \notin replaced
                      /\ \A r \in Rows : row[r].jti # h'[x].new
                      /\ \A v \in Handler : v # x => h'[v].new # h'[x].new
                      /\ \A v \in Handler : Using(v)' => h'[v].read.jti # h'[x].new
    BY <1>3 DEF FreshOK
  <2>1. x # w /\ Pending(x) /\ h'[x] = h[x] /\ h[x].new # NoToken
    BY <1>1, <1>2 DEF IssuedOK, HandlerOK, Pending
  <2> QED BY <1>1, <1>2, <2>1 DEF FreshOK
<1>6. ASSUME NEW t \in Token, NEW r \in Session, Of(t, r)' PROVE Of(t, r)
  <2>1. CASE r \in Rows /\ row[r].jti = t
    BY <2>1 DEF Of
  <2>2. CASE \E v \in Handler : Using(v)' /\ h'[v].s = r /\ t \in {h'[v].read.jti, h'[v].new}
    BY <1>1, <1>2, <2>2 DEF Of, Token, NoToken
  <2> QED BY <1>3, <1>6, <2>1, <2>2 DEF Of
<1>7. OwnersOK'
  BY <1>6 DEF OwnersOK
<1>8. ReplacedStaysReplaced'
  BY <1>3 DEF ReplacedStaysReplaced
<1> QED BY <1>4, <1>5, <1>7, <1>8

\* A token that has just been issued is nowhere else.
LEMMA SigningKeeps ==
  ASSUME Tables, UNCHANGED <<row, replaced, revived>>, issued' = issued + 1, TypeOK',
         NEW w \in Handler, NEW at, NEW s, NEW read,
         h' = [h EXCEPT ![w] = [at |-> at, s |-> s, read |-> read, new |-> issued + 1,
                               diff |-> {}]],
         \/ at = "login" /\ read.jti = issued + 1
         \/ at = "rotate" /\ s \in Rows /\ read = row[s] /\ ~read.revoked
  PROVE  Tables'
<1> USE DEF Tables
<1>1. /\ h'[w].at = at /\ h'[w].s = s /\ h'[w].read = read /\ h'[w].new = issued + 1
      /\ issued \in Nat
      /\ \A v \in Handler : v # w => h'[v] = h[v]
  BY DEF TypeOK
<1>2. Rows' = Rows
  BY DEF Rows
<1>3. /\ \A v \in Handler : v # w => (Using(v)' <=> Using(v)) /\ (Pending(v)' <=> Pending(v))
      /\ Using(w)' => s \in Rows /\ read = row[s] /\ row[s].jti \in Token /\ row[s].jti <= issued
  BY <1>1, RowFacts DEF Using, Pending, IssuedOK
<1>4. IssuedOK'
  <2>1. HandlerOK(w)'
    BY <1>1, <1>2, <1>3 DEF HandlerOK, Token, NoToken, Using
  <2>2. ASSUME NEW v \in Handler, v # w PROVE HandlerOK(v)'
    <3>1. HandlerOK(v) /\ h[v] \in Request /\ h[v].new \in Nat
      BY DEF IssuedOK, TypeOK, Request, Token, NoToken
    <3> QED BY <1>1, <1>2, <1>3, <2>2, <3>1 DEF HandlerOK
  <2>3. \A r \in Rows : row[r].jti <= issued + 1
    BY <1>1, RowFacts DEF IssuedOK, Token
  <2>4. \A t \in replaced : t <= issued + 1
    BY <1>1 DEF IssuedOK, TypeOK, Token
  <2> QED BY <1>2, <2>1, <2>2, <2>3, <2>4 DEF IssuedOK
<1>5. FreshOK'
  <2> SUFFICES ASSUME NEW x \in Handler, Pending(x)'
               PROVE  /\ h'[x].new \notin replaced
                      /\ \A r \in Rows : row[r].jti # h'[x].new
                      /\ \A v \in Handler : v # x => h'[v].new # h'[x].new
                      /\ \A v \in Handler : Using(v)' => h'[v].read.jti # h'[x].new
    BY <1>2 DEF FreshOK
  <2>1. CASE x = w
    <3>1. \A v \in Handler : v # w => h[v].new <= issued
      BY DEF IssuedOK, HandlerOK
    <3>2. \A v \in Handler : v # w => h[v].new # issued + 1
      BY <1>1, <3>1 DEF TypeOK, Request, Token, NoToken
    <3>3. \A v \in Handler : Using(v) => h[v].read.jti <= issued /\ h[v].read.jti \in Nat
      BY <1>1 DEF IssuedOK, HandlerOK
    <3>4. \A v \in Handler : Using(v)' => h'[v].read.jti # issued + 1
      BY <1>1, <1>3, <3>3 DEF Token
    <3>5. \A r \in Rows : row[r].jti # issued + 1
      BY <1>1, RowFacts DEF IssuedOK, Token
    <3>6. issued + 1 \notin replaced
      BY <1>1 DEF IssuedOK
    <3> QED BY <1>1, <2>1, <3>2, <3>4, <3>5, <3>6
  <2>2. CASE x # w
    <3>1. Pending(x) /\ h'[x] = h[x] /\ h[x].new <= issued /\ h[x].new \in Nat
      BY <1>1, <1>3, <2>2 DEF IssuedOK, HandlerOK, TypeOK, Request, Token, NoToken
    <3> QED BY <1>1, <1>3, <2>2, <3>1 DEF FreshOK
  <2> QED BY <2>1, <2>2
<1>6. ASSUME NEW t \in Token, NEW r \in Session, Of(t, r)' PROVE Of(t, r) \/ (t = issued + 1 /\ r = s)
  <2>1. CASE r \in Rows /\ row[r].jti = t
    BY <2>1 DEF Of
  <2>2. CASE \E v \in Handler : Using(v)' /\ h'[v].s = r /\ t \in {h'[v].read.jti, h'[v].new}
    BY <1>1, <1>3, <2>2 DEF Of
  <2> QED BY <1>2, <1>6, <2>1, <2>2 DEF Of
<1>7. \A r \in Session : ~Of(issued + 1, r)
  <2>1. \A r \in Rows : row[r].jti # issued + 1
    BY <1>1, RowFacts DEF IssuedOK, Token
  <2>2. \A v \in Handler : Using(v) => h[v].read.jti # issued + 1 /\ h[v].new # issued + 1
    BY <1>1 DEF IssuedOK, HandlerOK, TypeOK, Request, Token, NoToken
  <2> QED BY <2>1, <2>2 DEF Of
<1>8. OwnersOK'
  BY <1>6, <1>7 DEF OwnersOK
<1>9. ReplacedStaysReplaced'
  BY <1>2 DEF ReplacedStaysReplaced
<1> QED BY <1>4, <1>5, <1>8, <1>9

\* A login's session has a token that was in no row.
LEMMA CommitKeeps ==
  ASSUME Tables, UNCHANGED <<issued, replaced, revived>>, TypeOK',
         NEW w \in Handler, h[w].at = "login",
         NEW s \in Session, row[s] = NoSession, row' = [row EXCEPT ![s] = h[w].read],
         h' = [h EXCEPT ![w] = [at |-> "told", s |-> s, read |-> NoSession, new |-> h[w].new,
                               diff |-> {}]]
  PROVE  Tables'
<1> USE DEF Tables
<1>1. /\ h'[w].at = "told" /\ h'[w].new = h[w].new
      /\ \A v \in Handler : v # w => h'[v] = h[v]
      /\ row'[s] = h[w].read /\ \A r \in Session : r # s => row'[r] = row[r]
  BY DEF TypeOK
<1>2. /\ Pending(w) /\ h[w].read.jti = h[w].new /\ h[w].new \in Token /\ h[w].new <= issued
      /\ h[w].new # NoToken
  BY DEF Pending, IssuedOK, HandlerOK, TypeOK, Request
<1>3. Rows' = Rows \cup {s} /\ s \notin Rows
  BY <1>1, <1>2, IdleFacts DEF Rows
<1>4. /\ ~Using(w)' /\ ~Pending(w)'
      /\ \A v \in Handler : v # w => (Using(v)' <=> Using(v)) /\ (Pending(v)' <=> Pending(v))
  BY <1>1 DEF Using, Pending
<1>5. IssuedOK'
  <2>1. \A r \in Rows' : row'[r].jti <= issued
    BY <1>1, <1>2, <1>3 DEF IssuedOK, Rows
  <2>2. HandlerOK(w)'
    BY <1>1, <1>2, <1>4 DEF HandlerOK
  <2>3. \A v \in Handler : v # w => HandlerOK(v)'
    BY <1>1, <1>3, <1>4 DEF IssuedOK, HandlerOK, Rows
  <2> QED BY <2>1, <2>2, <2>3 DEF IssuedOK
<1>6. FreshOK'
  <2> SUFFICES ASSUME NEW x \in Handler, Pending(x)'
               PROVE  /\ h'[x].new \notin replaced
                      /\ \A r \in Rows' : row'[r].jti # h'[x].new
                      /\ \A v \in Handler : v # x => h'[v].new # h'[x].new
                      /\ \A v \in Handler : Using(v)' => h'[v].read.jti # h'[x].new
    BY DEF FreshOK
  <2>1. x # w /\ Pending(x) /\ h'[x] = h[x] /\ h[w].new # h[x].new
    BY <1>1, <1>4 DEF FreshOK
  <2>2. \A r \in Rows' : row'[r].jti # h[x].new
    BY <1>1, <1>2, <1>3, <2>1 DEF FreshOK, Rows
  <2> QED BY <1>1, <1>4, <2>1, <2>2 DEF FreshOK
<1>7. ASSUME NEW t \in Token, NEW r \in Session, Of(t, r)' PROVE Of(t, r) \/ (t = h[w].new /\ r = s)
  <2>1. CASE r \in Rows' /\ row'[r].jti = t
    BY <1>1, <1>2, <1>3, <2>1 DEF Of, Rows
  <2>2. CASE \E v \in Handler : Using(v)' /\ h'[v].s = r /\ t \in {h'[v].read.jti, h'[v].new}
    BY <1>1, <1>4, <2>2 DEF Of
  <2> QED BY <1>7, <2>1, <2>2 DEF Of
<1>8. \A r \in Session : ~Of(h[w].new, r)
  <2>1. \A v \in Handler : Using(v) => v # w
    BY DEF Using
  <2> QED BY <1>2, <2>1 DEF Of, FreshOK
<1>9. OwnersOK'
  BY <1>7, <1>8 DEF OwnersOK
<1>10. ReplacedStaysReplaced'
  BY <1>1, <1>2, <1>3 DEF ReplacedStaysReplaced, FreshOK, Rows
<1> QED BY <1>5, <1>6, <1>9, <1>10

\* What a request makes of the row it saves: a rotation gives it the new token, any
\* other leaves its token or writes the one that was read, and revives nothing.
Saves(w, n) ==
  LET was == row[h[w].s]
  IN /\ h[w].at \in {"rotating", "revoking", "ending"}
     /\ n \in SessionRow
     /\ n.jti \in IF h[w].at = "rotating" THEN {h[w].new} ELSE {h[w].read.jti, was.jti}
     /\ h[w].at # "rotating" /\ was.revoked => n.revoked
     /\ row' = [row EXCEPT ![h[w].s] = n]
     /\ replaced' = replaced \cup ({was.jti} \ {n.jti})
     /\ lost' = lost \cup ({was.jti} \ {n.jti, h[w].read.jti})

LEMMA SaveFacts ==
  ASSUME Tables, NEW w \in Handler, NEW n, Saves(w, n)
  PROVE  /\ h[w].s \in Rows /\ h[w].s \in Session /\ n.jti \in Token /\ n.jti <= issued
         /\ row'[h[w].s] = n /\ \A r \in Session : r # h[w].s => row'[r] = row[r]
         /\ Rows' = Rows
         /\ Of(n.jti, h[w].s)
         /\ replaced' = replaced \cup ({row[h[w].s].jti} \ {n.jti})
         /\ row[h[w].s].jti \in Token
<1>1. /\ h[w].s \in Rows /\ h[w].s \in Session /\ n.jti \in Token /\ n.jti <= issued
      /\ row[h[w].s].jti \in Token /\ h[w].read.jti \in Token
  <2>1. /\ Using(w) /\ h[w].s \in Rows /\ h[w].read.jti \in 1 .. issued /\ h[w].new <= issued
        /\ h[w].at = "rotating" => h[w].new # NoToken
    BY DEF Saves, Using, Tables, IssuedOK, HandlerOK
  <2>2. /\ h[w] \in Request /\ h[w].new \in Token \cup {NoToken}
        /\ issued \in 0 .. MaxTokens /\ MaxTokens \in Nat
    BY SessionsAssumption DEF Tables, TypeOK, Request
  <2>3. h[w].read.jti \in Token /\ h[w].read.jti <= issued
    BY <2>1, <2>2 DEF Token
  <2>4. h[w].s \in Session /\ row[h[w].s].jti \in Token
    BY <2>1, RowFacts DEF Tables
  <2>5. CASE n.jti = h[w].new /\ h[w].at = "rotating"
    BY <2>1, <2>2, <2>3, <2>4, <2>5
  <2>6. CASE n.jti \in {h[w].read.jti, row[h[w].s].jti}
    <3>1. row[h[w].s].jti <= issued
      BY <2>1 DEF Tables, IssuedOK
    <3> QED BY <2>1, <2>3, <2>4, <2>6, <3>1
  <2> QED BY <2>5, <2>6 DEF Saves
<1>2. /\ row'[h[w].s] = n /\ \A r \in Session : r # h[w].s => row'[r] = row[r]
      /\ replaced' = replaced \cup ({row[h[w].s].jti} \ {n.jti})
  BY <1>1 DEF Saves, Tables, TypeOK
<1>3. n # NoSession
  BY <1>1, IdleFacts DEF Token, NoToken
<1>4. Rows' = Rows
  BY <1>1, <1>2, <1>3 DEF Rows
<1>5. Of(n.jti, h[w].s)
  BY <1>1 DEF Of, Saves, Using
<1> QED BY <1>1, <1>2, <1>4, <1>5

LEMMA SaveTypes ==
  ASSUME Tables, NEW w \in Handler, NEW n, Saves(w, n)
  PROVE  /\ row' \in [Session -> SessionRow]
         /\ \A s, r \in Rows' : row'[s].jti # NoToken /\ (row'[s].jti = row'[r].jti => s = r)
         /\ replaced' \subseteq Token /\ lost' \subseteq replaced'
<1>1. row' \in [Session -> SessionRow]
  BY DEF Saves, Tables, TypeOK
<1>2. ASSUME NEW s \in Rows', NEW r \in Rows'
      PROVE  row'[s].jti # NoToken /\ (row'[s].jti = row'[r].jti => s = r)
  <2>1. /\ s \in Rows /\ r \in Rows /\ s \in Session /\ r \in Session
        /\ row[s].jti \in Token /\ row[r].jti \in Token
    BY <1>2, SaveFacts, RowFacts DEF Tables
  <2>2. Of(row[s].jti, s) /\ Of(row[r].jti, r)
    BY <2>1 DEF Of
  <2>3. Of(row'[s].jti, s) /\ Of(row'[r].jti, r) /\ row'[s].jti \in Token /\ row'[r].jti \in Token
    BY <2>1, <2>2, SaveFacts
  <2> QED BY <2>1, <2>3 DEF Tables, OwnersOK, Token, NoToken
<1>3. replaced' \subseteq Token /\ lost' \subseteq replaced'
  <2>1. replaced \subseteq Token /\ lost \subseteq replaced
    BY DEF Tables, TypeOK
  <2>2. \A t \in lost' : t \in lost \/ (t = row[h[w].s].jti /\ t # n.jti)
    BY DEF Saves
  <2>3. \A t : t \in replaced' <=> t \in replaced \/ (t = row[h[w].s].jti /\ t # n.jti)
    BY SaveFacts
  <2> QED BY <2>1, <2>2, <2>3, SaveFacts
<1> QED BY <1>1, <1>2, <1>3

LEMMA SavingKeeps ==
  ASSUME Tables, UNCHANGED issued, TypeOK', NEW w \in Handler, NEW n, Saves(w, n),
         NEW x, h' = [h EXCEPT ![w] = x],
         x.at \in {"told", "ended", "idle"}, x.new \in {NoToken, h[w].new},
         x.at = "told" => x.new # NoToken,
         revived \subseteq revived',
         n.revoked \/ n.jti \in revived' \cup {h[w].new, row[h[w].s].jti}
  PROVE  Tables'
<1>1. /\ h'[w] = x /\ \A v \in Handler : v # w => h'[v] = h[v]
      /\ ~Using(w)' /\ ~Pending(w)'
      /\ \A v \in Handler : v # w => (Using(v)' <=> Using(v)) /\ (Pending(v)' <=> Pending(v))
  BY DEF Tables, TypeOK, Using, Pending
<1>2. h[w].new <= issued /\ issued \in Nat
  BY DEF Tables, IssuedOK, HandlerOK, TypeOK
<1>3. IssuedOK'
  <2>1. \A r \in Rows' : row'[r].jti <= issued
    BY SaveFacts DEF Tables, IssuedOK, Rows
  <2>2. \A t \in replaced' : t <= issued
    BY SaveFacts DEF Tables, IssuedOK
  <2>3. HandlerOK(w)'
    BY <1>1, <1>2 DEF HandlerOK, NoToken
  <2>4. \A v \in Handler : v # w => HandlerOK(v)'
    BY <1>1, SaveFacts DEF Tables, IssuedOK, HandlerOK
  <2> QED BY <2>1, <2>2, <2>3, <2>4 DEF IssuedOK
<1>4. FreshOK'
  <2> SUFFICES ASSUME NEW y \in Handler, Pending(y)'
               PROVE  /\ h'[y].new \notin replaced'
                      /\ \A r \in Rows' : row'[r].jti # h'[y].new
                      /\ \A v \in Handler : v # y => h'[v].new # h'[y].new
                      /\ \A v \in Handler : Using(v)' => h'[v].read.jti # h'[y].new
    BY DEF FreshOK
  <2>1. y # w /\ Pending(y) /\ h'[y] = h[y] /\ h[y].new # NoToken
    BY <1>1 DEF Tables, IssuedOK, HandlerOK, Pending
  <2>2. n.jti # h[y].new
    <3>1. /\ h[w].new # h[y].new /\ h[w].read.jti # h[y].new
          /\ row[h[w].s].jti # h[y].new
      <4>1. Using(w) /\ h[w].s \in Rows
        BY SaveFacts DEF Saves, Using
      <4> QED BY <2>1, <4>1 DEF Tables, FreshOK
    <3> QED BY <3>1 DEF Saves
  <2>3. \A r \in Rows' : row'[r].jti # h[y].new
    BY <2>1, <2>2, SaveFacts DEF Tables, FreshOK, Rows
  <2>4. h[y].new \notin replaced'
    BY <2>1, SaveFacts DEF Tables, FreshOK
  <2> QED BY <1>1, <2>1, <2>3, <2>4 DEF Tables, FreshOK
<1>5. ASSUME NEW t \in Token, NEW r \in Session, Of(t, r)' PROVE Of(t, r)
  <2>1. CASE r \in Rows' /\ row'[r].jti = t
    BY <2>1, SaveFacts DEF Of
  <2>2. CASE \E v \in Handler : Using(v)' /\ h'[v].s = r /\ t \in {h'[v].read.jti, h'[v].new}
    BY <1>1, <2>2 DEF Of
  <2> QED BY <1>5, <2>1, <2>2 DEF Of
<1>6. OwnersOK'
  BY <1>5 DEF Tables, OwnersOK
<1>7. ReplacedStaysReplaced'
  <2> SUFFICES ASSUME NEW r \in Rows', ~row'[r].revoked PROVE row'[r].jti \notin replaced' \ revived'
    BY DEF ReplacedStaysReplaced
  <2>1. r \in Rows /\ r \in Session /\ h[w].s \in Rows
    BY SaveFacts DEF Rows
  <2>2. CASE r = h[w].s
    <3>1. row'[r] = n /\ ~n.revoked
      BY <2>2, SaveFacts
    <3>2. CASE h[w].at = "rotating"
      <4>1. n.jti = h[w].new /\ h[w].new \notin replaced
        BY <3>2 DEF Saves, Tables, FreshOK, Pending, Rotate
      <4> QED BY <3>1, <4>1, SaveFacts
    <3>3. CASE h[w].at # "rotating"
      <4>1. ~row[r].revoked /\ row[r].jti \notin replaced \ revived
        BY <2>1, <2>2, <3>1, <3>3 DEF Saves, Tables, ReplacedStaysReplaced
      <4>2. CASE n.jti = row[r].jti
        BY <2>2, <3>1, <4>1, <4>2, SaveFacts
      <4>3. CASE n.jti # row[r].jti
        <5>1. h[w].at \in {"revoking", "ending"} /\ n.jti \in Token
          BY <3>3, SaveFacts DEF Saves
        <5>2. h[w].new = NoToken /\ n.jti # NoToken
          BY <5>1 DEF Tables, IssuedOK, HandlerOK, Token, NoToken
        <5> QED BY <2>2, <3>1, <4>3, <5>2
      <4> QED BY <4>2, <4>3
    <3> QED BY <3>2, <3>3
  <2>3. CASE r # h[w].s
    <3>1. row'[r] = row[r] /\ row[r].jti \notin replaced \ revived
      BY <2>1, <2>3, SaveFacts DEF Tables, ReplacedStaysReplaced
    <3>2. row[r].jti # row[h[w].s].jti
      BY <2>1, <2>3 DEF Tables, TypeOK
    <3> QED BY <3>1, <3>2, SaveFacts
  <2> QED BY <2>2, <2>3
<1> QED BY <1>3, <1>4, <1>6, <1>7 DEF Tables

----------------------------------------------------------------------------
(* Logouts and sockets *)

LEMMA CoveredStays ==
  ASSUME UNCHANGED row, cuts \subseteq cuts', lost \subseteq lost', quiet \subseteq quiet',
         \A v \in Handler : h[v].at \in {"told", "ended"} => h'[v] = h[v]
  PROVE  \A t : Covered(t) => Covered(t)'
BY DEF Covered, Live, FindByJti, Rows

LEMMA SocketsStay ==
  ASSUME SocketsOK, UNCHANGED conn, \A t \in Token : Covered(t) => Covered(t)'
  PROVE  SocketsOK'
BY DEF SocketsOK

\* A cut spares none of a driver's sockets of that token, but for those that are late.
LEMMA CutKeeps ==
  ASSUME TypeOK, SocketsOK, NEW t, Cut(t),
         \A x \in Token : x # t /\ Covered(x) => Covered(x)'
  PROVE  conn' \in [Conn -> Socket] /\ SocketsOK'
<1>1. ASSUME NEW c \in Conn
      PROVE  /\ conn'[c] \in Socket
             /\ conn'[c].at # "off" /\ conn'[c].ns = "driver" /\ ~conn'[c].late
                => conn'[c] = conn[c] /\ conn[c].sid # t
  <2>1. conn[c] \in Socket /\ Off \in Socket /\ Off.at = "off"
    BY DEF TypeOK, Socket, Off
  <2>2. CASE conn[c].sid # t \/ conn[c].ns # "driver"
    BY <2>1, <2>2 DEF Cut
  <2>3. CASE conn[c].sid = t /\ conn[c].ns = "driver" /\ conn[c].at = "on"
    BY <2>1, <2>3 DEF Cut
  <2>4. CASE conn[c].sid = t /\ conn[c].ns = "driver" /\ conn[c].at # "on"
    <3>1. conn'[c] = [at |-> conn[c].at, sid |-> t, ns |-> conn[c].ns, late |-> TRUE]
      BY <2>4 DEF Cut
    <3>2. conn[c].at \in {"off", "checked", "on"} /\ t \in Token \cup {NoToken}
      BY <2>1, <2>4 DEF Socket
    <3> QED BY <2>1, <2>4, <3>1, <3>2 DEF Socket
  <2> QED BY <2>1, <2>2, <2>3, <2>4
<1>2. conn' \in [Conn -> Socket]
  <2>1. conn' = [c \in Conn |-> conn'[c]]
    BY DEF Cut
  <2> QED BY <1>1, <2>1
<1> QED BY <1>1, <1>2 DEF SocketsOK

\* A save that takes a token out of its row, or revokes the row, is one the token's
\* sockets will hear of, or is among those that leave them.
LEMMA SavingCovers ==
  ASSUME Tables, NEW w \in Handler, NEW n, Saves(w, n), UNCHANGED cuts, quiet \subseteq quiet',
         NEW x, h' = [h EXCEPT ![w] = x],
         n.revoked /\ ~row[h[w].s].revoked =>
           (x.at = "ended" /\ x.read = h[w].read /\ x.read.jti = n.jti) \/ n.jti \in quiet',
         h[w].at = "rotating" => x.at = "told" /\ x.read = h[w].read
  PROVE  \A t \in Token : Covered(t) => Covered(t)'
<1> SUFFICES ASSUME NEW t \in Token, Covered(t) PROVE Covered(t)'
  OBVIOUS
<1> DEFINE old == row[h[w].s].jti
<1>1. /\ h'[w] = x /\ \A v \in Handler : v # w => h'[v] = h[v]
      /\ h[w].at \notin {"told", "ended"}
      /\ h[w].s \in Rows
  BY SaveFacts DEF Tables, TypeOK, Saves
<1>2. lost' = lost \cup ({old} \ {n.jti, h[w].read.jti})
  BY DEF Saves
<1>3. CASE t \in cuts \cup lost \cup quiet
  BY <1>2, <1>3 DEF Covered
<1>4. CASE \E v \in Handler : h[v].at \in {"told", "ended"} /\ h[v].read.jti = t
  BY <1>1, <1>4 DEF Covered
<1>5. CASE Live(t)
  <2>1. PICK s \in Rows : row[s].jti = t /\ ~row[s].revoked
    BY <1>5 DEF Live, FindByJti
  <2>2. s \in Session /\ Rows' = Rows
    BY <2>1, SaveFacts DEF Rows
  <2>3. CASE s # h[w].s
    BY <2>1, <2>2, <2>3, SaveFacts DEF Covered, Live, FindByJti
  <2>4. CASE s = h[w].s /\ n.jti # t
    <3>1. CASE h[w].read.jti # t
      BY <1>2, <2>1, <2>4, <3>1 DEF Covered
    <3>2. CASE h[w].read.jti = t
      <4>1. h[w].at = "rotating"
        BY <2>1, <2>4, <3>2 DEF Saves
      <4> QED BY <1>1, <3>2, <4>1 DEF Covered
    <3> QED BY <3>1, <3>2
  <2>5. CASE s = h[w].s /\ n.jti = t /\ ~n.revoked
    BY <2>2, <2>5, SaveFacts DEF Covered, Live, FindByJti
  <2>6. CASE s = h[w].s /\ n.jti = t /\ n.revoked
    BY <1>1, <2>1, <2>6 DEF Covered
  <2> QED BY <2>3, <2>4, <2>5, <2>6
<1> QED BY <1>3, <1>4, <1>5 DEF Covered

LEMMA ClosedStays ==
  ASSUME ClosedOK, closed' = closed, UNCHANGED row,
         \A v \in Handler : h'[v].at \in Rotate =>
           \/ h[v].at \in Rotate /\ h'[v].s = h[v].s
           \/ h'[v].s \notin closed
  PROVE  ClosedOK'
BY DEF ClosedOK, Rows, Rotating, Rotate

\* Requests that end, and rows that are new, disturb no logout.
LEMMA LogoutsStay ==
  ASSUME LogoutsOK, IssuedOK, UNCHANGED mixed,
         \A r \in Rows : row'[r] = row[r],
         \A v \in Handler : h'[v] = h[v] \/ h'[v].at \in {"idle", "told"}
  PROVE  LogoutsOK'
<1> SUFFICES ASSUME NEW w \in Handler, h'[w].at \in {"logout", "ending"}, w \notin mixed
             PROVE  /\ ~Rotating(h[w].s)'
                    /\ h'[w].at = "ending" => "revoked" \in h'[w].diff \/ row'[h'[w].s].revoked
  BY DEF LogoutsOK
<1>1. h'[w] = h[w] /\ ~Rotating(h[w].s) /\ h[w].s \in Rows
  BY DEF LogoutsOK, IssuedOK, HandlerOK, Using, Revoke
<1> QED BY <1>1 DEF LogoutsOK, Rotating

----------------------------------------------------------------------------
(* The invariant, action by action *)

LEMMA InitHolds == Init => IInv
<1> SUFFICES ASSUME Init PROVE IInv
  OBVIOUS
<1>1. Rows = {} /\ \A w \in Handler : h[w] = Idle
  BY DEF Init, Rows
<1>2. TypeOK
  <2>1. role \in [User -> UserType]
    BY SessionsAssumption DEF Init, UserType
  <2> QED BY <1>1, <2>1, IdleFacts, SessionsAssumption DEF Init, TypeOK, Off, Socket
<1>3. IssuedOK /\ FreshOK /\ OwnersOK
  BY <1>1, IdleFacts DEF Init, IssuedOK, HandlerOK, FreshOK, OwnersOK, Of, Using, Pending, NoToken
<1>4. ReplacedStaysReplaced /\ ClosedOK /\ LogoutsOK /\ SocketsOK
  BY <1>1, IdleFacts DEF Init, LogoutsOK, ReplacedStaysReplaced, ClosedOK, SocketsOK, Off
<1> QED BY <1>2, <1>3, <1>4 DEF IInv

\* A login, and the first step of a refresh that will rotate.
LEMMA SignStep ==
  ASSUME IInv, NEW w \in Handler, h[w].at = "idle", NEW u \in User \cup {NoUser}, Sign(u),
         NEW at, NEW s \in Session \cup {0}, NEW read \in SessionRow,
         Put(w, at, s, read, NewToken),
         \/ at = "login" /\ read.jti = NewToken
         \/ at = "rotate" /\ s \in Rows /\ read = row[s] /\ ~read.revoked,
         mixed \subseteq mixed' /\ mixed' \subseteq Handler,
         at = "rotate" => LoggingOut(s) \subseteq mixed',
         UNCHANGED <<tableVars, stale, dead, told, wireVars, changes>>,
         UNCHANGED <<replaced, lost, revived, quiet, closed>>
  PROVE  IInv'
<1>1. issued \in Nat /\ issued' = issued + 1 /\ issued + 1 \in Token
  BY SessionsAssumption DEF IInv, TypeOK, Sign, Token
<1> DEFINE x == [at |-> at, s |-> s, read |-> read, new |-> issued + 1, diff |-> {}]
<1>2. h' = [h EXCEPT ![w] = x] /\ x \in Request
  BY <1>1, SavingFacts DEF Put, NewToken, Request
<1>3. TypeOK'
  <2>1. h' \in [Handler -> Request]
    BY <1>2 DEF IInv, TypeOK
  <2>2. holder' \in [Token -> User \cup {NoUser}]
    BY DEF IInv, TypeOK, Sign
  <2>3. issued' \in 0 .. MaxTokens /\ dead' \in 0 .. stale' /\ stale' \in 0 .. issued'
    BY <1>1, SessionsAssumption DEF IInv, TypeOK, Sign
  <2> QED BY <2>1, <2>2, <2>3 DEF IInv, TypeOK, Rows, tableVars, wireVars
<1>4. Tables'
  <2>1. UNCHANGED <<row, replaced, revived>>
    BY DEF tableVars
  <2>2. \/ at = "login" /\ read.jti = issued + 1
        \/ at = "rotate" /\ s \in Rows /\ read = row[s] /\ ~read.revoked
    BY DEF NewToken
  <2>3. h' = [h EXCEPT ![w] = [at |-> at, s |-> s, read |-> read, new |-> issued + 1, diff |-> {}]]
    BY <1>2
  <2> HIDE DEF x
  <2> QED BY <1>1, <1>3, <2>1, <2>2, <2>3, SigningKeeps DEF IInv, Tables
<1>5. h'[w] = x /\ \A v \in Handler : v # w => h'[v] = h[v]
  BY <1>2 DEF IInv, TypeOK
<1>6. ClosedOK'
  <2>1. at = "rotate" => s \notin closed
    BY DEF IInv, ClosedOK
  <2> QED BY <1>5, <2>1, ClosedStays DEF IInv, tableVars, Rotate
<1>7. SocketsOK'
  BY <1>5, CoveredStays, SocketsStay DEF IInv, tableVars, wireVars
<1>8. LogoutsOK'
  <2> SUFFICES ASSUME NEW v \in Handler, h'[v].at \in {"logout", "ending"}, v \notin mixed'
               PROVE  /\ ~Rotating(h[v].s)'
                      /\ h'[v].at = "ending" => "revoked" \in h'[v].diff \/ row'[h'[v].s].revoked
    BY DEF LogoutsOK
  <2>1. v # w /\ h'[v] = h[v] /\ v \notin mixed /\ x.at = at /\ x.s = s
    BY <1>5
  <2>2. ~Rotating(h[v].s) /\ (at = "rotate" => h[v].s # s)
    BY <2>1 DEF IInv, LogoutsOK, LoggingOut
  <2> QED BY <1>5, <2>1, <2>2 DEF IInv, LogoutsOK, Rotating, tableVars
<1> QED BY <1>3, <1>4, <1>6, <1>7, <1>8 DEF IInv, Tables

\* The other first steps, which have read a row to revoke it.
LEMMA ReadStep ==
  ASSUME IInv, NEW w \in Handler, h[w].at = "idle", NEW s \in Rows,
         NEW at \in {"revoke", "logout"}, Put(w, at, s, row[s], NoToken),
         mixed' \subseteq Handler,
         \A v \in Handler : v # w => (v \in mixed' <=> v \in mixed),
         at = "logout" /\ w \notin mixed' => ~Rotating(s),
         UNCHANGED <<tableVars, tokenVars, wireVars, changes>>,
         UNCHANGED <<replaced, lost, revived, quiet, closed>>
  PROVE  IInv'
<1> DEFINE x == [at |-> at, s |-> s, read |-> row[s], new |-> NoToken, diff |-> {}]
<1>1. h' = [h EXCEPT ![w] = x] /\ x \in Request
  BY RowFacts, SavingFacts DEF Put, Request, IInv
<1>2. TypeOK'
  BY <1>1 DEF IInv, TypeOK, Rows, tableVars, tokenVars, wireVars
<1>3. Tables'
  BY <1>1, <1>2, ReadingKeeps DEF Reads, IInv, Tables, tableVars, tokenVars
<1>4. h'[w] = x /\ \A v \in Handler : v # w => h'[v] = h[v]
  BY <1>1 DEF IInv, TypeOK
<1>5. ClosedOK'
  BY <1>4, ClosedStays DEF IInv, tableVars, Rotate
<1>6. SocketsOK'
  BY <1>4, CoveredStays, SocketsStay DEF IInv, tableVars, wireVars
<1>7. LogoutsOK'
  <2>1. \A r : Rotating(r)' => Rotating(r)
    BY <1>4 DEF Rotating
  <2> QED BY <1>4, <2>1 DEF IInv, LogoutsOK, tableVars
<1> QED BY <1>2, <1>3, <1>5, <1>6, <1>7 DEF IInv, Tables

LEMMA BeginKeeps ==
  ASSUME IInv, NEW w \in Handler, LoginRead(w) \/ RefreshRead(w) \/ LogoutRead(w)
  PROVE  IInv'
<1>1. CASE LoginRead(w)
  <2>1. PICK u \in User :
          /\ Sign(u)
          /\ Put(w, "login", 0,
                 [user |-> u, jti |-> NewToken, aud |-> role[u], revoked |-> FALSE], NewToken)
    BY <1>1 DEF LoginRead
  <2> DEFINE read == [user |-> u, jti |-> NewToken, aud |-> role[u], revoked |-> FALSE]
  <2>2. NewToken \in Token
    BY <2>1, SessionsAssumption DEF IInv, TypeOK, Sign, NewToken, Token
  <2>3. read \in SessionRow /\ read.jti = NewToken
    BY <2>2 DEF IInv, TypeOK, SessionRow
  <2> HIDE DEF read
  <2>4. Put(w, "login", 0, read, NewToken)
    BY <2>1 DEF read
  <2> QED BY <1>1, <2>1, <2>3, <2>4, SignStep DEF LoginRead, pastVars, IInv, TypeOK
<1>2. CASE RefreshRead(w)
  <2>1. PICK s \in Rows :
          /\ ~row[s].revoked
          /\ IF MayRotate(row[s])
             THEN /\ Sign(row[s].user) /\ Put(w, "rotate", s, row[s], NewToken)
                  /\ mixed' = mixed \cup LoggingOut(s)
             ELSE UNCHANGED <<issued, holder, mixed>> /\ Put(w, "revoke", s, row[s], NoToken)
    BY <1>2 DEF RefreshRead, Judge, FindByJti
  <2>2. s \in Session /\ row[s] \in SessionRow
    BY RowFacts DEF IInv
  <2>3. CASE MayRotate(row[s])
    <3>1. row[s].user \in User \cup {NoUser}
      BY <2>2 DEF SessionRow
    <3>2. mixed \subseteq mixed' /\ mixed' \subseteq Handler /\ LoggingOut(s) \subseteq mixed'
      BY <2>1, <2>3 DEF IInv, TypeOK, LoggingOut
    <3> QED BY <1>2, <2>1, <2>2, <2>3, <3>1, <3>2, SignStep DEF RefreshRead
  <2>4. CASE ~MayRotate(row[s])
    BY <1>2, <2>1, <2>4, ReadStep DEF RefreshRead, tokenVars, IInv, TypeOK
  <2> QED BY <2>3, <2>4
<1>3. CASE LogoutRead(w)
  <2>1. PICK s \in Rows :
          /\ Put(w, "logout", s, row[s], NoToken)
          /\ mixed' = IF Rotating(s) THEN mixed \cup {w} ELSE mixed \ {w}
    BY <1>3 DEF LogoutRead, FindByJti
  <2>2. /\ mixed' \subseteq Handler
        /\ \A v \in Handler : v # w => (v \in mixed' <=> v \in mixed)
        /\ w \notin mixed' => ~Rotating(s)
    BY <2>1 DEF IInv, TypeOK
  <2> QED BY <1>3, <2>1, <2>2, ReadStep DEF LogoutRead
<1> QED BY <1>1, <1>2, <1>3

\* The commit of a login.
LEMMA LoginCommitKeeps ==
  ASSUME IInv, NEW w \in Handler, LoginCommit(w)
  PROVE  IInv'
<1>1. PICK s \in Session :
        /\ row[s] = NoSession
        /\ row' = [row EXCEPT ![s] = h[w].read]
        /\ Put(w, "told", s, NoSession, h[w].new)
  BY DEF LoginCommit
<1>2. /\ h[w].at = "login" /\ UNCHANGED <<role, gone, tokenVars, wireVars, pastVars, changes>>
      /\ h[w] \in Request /\ h[w].read.jti = h[w].new /\ h[w].new \in Token
      /\ \A r \in Rows : row[r].jti # h[w].new
  BY DEF LoginCommit, IInv, TypeOK, Request, IssuedOK, HandlerOK, FreshOK, Pending, Rotate
<1> DEFINE x == [at |-> "told", s |-> s, read |-> NoSession, new |-> h[w].new, diff |-> {}]
<1>3. h' = [h EXCEPT ![w] = x] /\ x \in Request
  BY <1>1, <1>2, IdleFacts DEF Put, Request
<1>4. h'[w] = x /\ \A v \in Handler : v # w => h'[v] = h[v]
  BY <1>3 DEF IInv, TypeOK
<1>5. TypeOK'
  <2>1. h' \in [Handler -> Request]
    BY <1>3 DEF IInv, TypeOK
  <2>2. row' \in [Session -> SessionRow]
    BY <1>1, <1>2 DEF IInv, TypeOK, Request
  <2>3. row'[s] = h[w].read /\ \A r \in Session : r # s => row'[r] = row[r]
    BY <1>1 DEF IInv, TypeOK
  <2>4. \A q, r \in Rows' : row'[q].jti # NoToken /\ (row'[q].jti = row'[r].jti => q = r)
    BY <1>2, <2>3 DEF IInv, TypeOK, Rows, Token, NoToken
  <2> QED BY <1>2, <2>1, <2>2, <2>4 DEF IInv, TypeOK, tokenVars, wireVars, pastVars
<1>6. Tables'
  <2> HIDE DEF x
  <2>1. h' = [h EXCEPT ![w] = [at |-> "told", s |-> s, read |-> NoSession, new |-> h[w].new, diff |-> {}]]
    BY <1>3 DEF x
  <2> QED BY <1>1, <1>2, <1>5, <2>1, CommitKeeps DEF IInv, Tables, tokenVars, pastVars
<1>7. ClosedOK'
  <2>1. s \notin closed /\ \A r \in Session : r # s => row'[r] = row[r]
    BY <1>1 DEF IInv, TypeOK, ClosedOK, Rows
  <2> QED BY <1>2, <1>4, <2>1 DEF IInv, ClosedOK, Rotating, Rows, pastVars
<1>8. SocketsOK'
  <2>1. \A r \in Rows : r # s /\ r \in Rows' /\ row'[r] = row[r]
    BY <1>1 DEF IInv, TypeOK, Rows
  <2>2. \A t \in Token : Live(t) => Live(t)'
    BY <2>1 DEF Live, FindByJti
  <2>3. \A t \in Token : Covered(t) => Covered(t)'
    BY <1>2, <1>4, <2>2 DEF Covered, wireVars, pastVars
  <2> QED BY <1>2, <2>3, SocketsStay DEF IInv, wireVars
<1>9. LogoutsOK'
  <2>1. \A r \in Rows : row'[r] = row[r]
    BY <1>1 DEF IInv, TypeOK, Rows
  <2>2. h'[w].at = "told"
    BY <1>4
  <2> QED BY <1>2, <1>4, <2>1, <2>2, LogoutsStay DEF IInv, pastVars
<1> QED BY <1>5, <1>6, <1>7, <1>8, <1>9 DEF IInv, Tables

\* What a save compares and writes.
LEMMA AfterFacts ==
  ASSUME IInv, NEW w \in Handler, h[w].at \in {"rotating", "revoking", "ending"}, Save(w)
  PROVE  /\ Saves(w, After(w))
         /\ h[w].at = "ending" /\ (w \notin mixed \/ h[w].s \in closed) => After(w).revoked
         /\ h[w].at = "rotating" => After(w).jti = h[w].new
<1> DEFINE was == row[h[w].s]
           n == After(w)
<1>1. /\ was \in SessionRow /\ h[w].read \in SessionRow
      /\ h[w].new \in Token \cup {NoToken} /\ h[w].s \in Rows
  BY RowFacts DEF IInv, IssuedOK, HandlerOK, Using, TypeOK, Request
<1>2. /\ h[w].at = "rotating" => h[w].new # NoToken /\ "jti" \in h[w].diff
      /\ h[w].at # "rotating" => h[w].new = NoToken
  BY DEF IInv, IssuedOK, HandlerOK
<1>3. /\ Wanted(w) \in SessionRow
      /\ h[w].at = "rotating" => Wanted(w).jti = h[w].new
      /\ h[w].at # "rotating" => Wanted(w).jti = h[w].read.jti /\ Wanted(w).revoked
  BY <1>1, <1>2 DEF Wanted, SessionRow
<1>4. /\ n \in SessionRow
      /\ n.jti = IF "jti" \in h[w].diff THEN Wanted(w).jti ELSE was.jti
      /\ n.revoked = IF "revoked" \in h[w].diff THEN Wanted(w).revoked ELSE was.revoked
  BY <1>1, <1>3 DEF After, SessionRow
<1>5. /\ row' = [row EXCEPT ![h[w].s] = n]
      /\ replaced' = replaced \cup ({was.jti} \ {n.jti})
      /\ lost' = lost \cup ({was.jti} \ {n.jti, h[w].read.jti})
  BY DEF Save
<1>6. h[w].at = "ending" /\ (w \notin mixed \/ h[w].s \in closed) => n.revoked
  <2>1. h[w].at = "ending" /\ h[w].s \in closed => was.revoked
    BY DEF IInv, ClosedOK
  <2>2. h[w].at = "ending" /\ w \notin mixed => "revoked" \in h[w].diff \/ was.revoked
    BY DEF IInv, LogoutsOK
  <2> QED BY <1>3, <1>4, <2>1, <2>2
<1>7. h[w].at = "rotating" => n.jti = h[w].new
  BY <1>2, <1>3, <1>4
<1>8. n.jti \in IF h[w].at = "rotating" THEN {h[w].new} ELSE {h[w].read.jti, was.jti}
  BY <1>3, <1>4, <1>7
<1>9. h[w].at # "rotating" /\ was.revoked => n.revoked
  BY <1>3, <1>4
<1> HIDE DEF n
<1> QED BY <1>4, <1>5, <1>6, <1>7, <1>8, <1>9 DEF Saves, n

\* A save, whatever it is of: the row and the requests first.
LEMMA SaveStep ==
  ASSUME IInv, NEW w \in Handler, NEW n, Saves(w, n), NEW x \in Request,
         h' = [h EXCEPT ![w] = x], x.at \in {"told", "ended", "idle"},
         x.new \in {NoToken, h[w].new}, x.at = "told" => x.new # NoToken,
         revived \subseteq revived', revived' \subseteq Token,
         n.revoked \/ n.jti \in revived' \cup {h[w].new, row[h[w].s].jti},
         quiet \subseteq quiet', quiet' \subseteq Token,
         closed' \subseteq Session,
         \A s \in closed' : s \in closed \/ (s = h[w].s /\ ~Rotating(s)),
         h[w].s \in closed' => n.revoked,
         n.revoked /\ ~row[h[w].s].revoked =>
           (x.at = "ended" /\ x.read = h[w].read /\ x.read.jti = n.jti) \/ n.jti \in quiet',
         h[w].at = "rotating" => x.at = "told" /\ x.read = h[w].read,
         UNCHANGED <<role, gone, tokenVars, wireVars, mixed, changes>>
  PROVE  IInv'
<1>1. TypeOK'
  <2>1. h' \in [Handler -> Request]
    BY DEF IInv, TypeOK
  <2>2. /\ row' \in [Session -> SessionRow]
        /\ \A s, r \in Rows' : row'[s].jti # NoToken /\ (row'[s].jti = row'[r].jti => s = r)
        /\ replaced' \subseteq Token /\ lost' \subseteq replaced'
    BY SaveTypes DEF IInv, Tables
  <2> QED BY <2>1, <2>2 DEF IInv, TypeOK, tokenVars, wireVars
<1>2. Tables'
  BY <1>1, SavingKeeps DEF IInv, Tables, tokenVars
<1>3. SocketsOK'
  BY SavingCovers, SocketsStay DEF IInv, Tables, wireVars
<1>4. /\ h'[w] = x /\ \A v \in Handler : v # w => h'[v] = h[v]
      /\ \A s : Rotating(s)' => Rotating(s)
  BY DEF IInv, TypeOK, Rotating
<1>5. ClosedOK'
  <2> SUFFICES ASSUME NEW s \in closed' PROVE s \in Rows' /\ row'[s].revoked /\ ~Rotating(s)'
    BY DEF ClosedOK
  <2>1. ~Rotating(s)' /\ s \in Rows' /\ s \in Session
    BY <1>4, SaveFacts DEF IInv, Tables, ClosedOK
  <2>2. CASE s = h[w].s
    BY <2>1, <2>2, SaveFacts DEF IInv, Tables
  <2>3. CASE s # h[w].s
    BY <2>1, <2>3, SaveFacts DEF IInv, Tables, ClosedOK
  <2> QED BY <2>2, <2>3
<1>6. LogoutsOK'
  <2> SUFFICES ASSUME NEW v \in Handler, h'[v].at \in {"logout", "ending"}, v \notin mixed
               PROVE  /\ ~Rotating(h[v].s)'
                      /\ h'[v].at = "ending" => "revoked" \in h'[v].diff \/ row'[h'[v].s].revoked
    BY DEF LogoutsOK
  <2>1. v # w /\ h'[v] = h[v] /\ ~Rotating(h[v].s) /\ h[v].s \in Session
    BY <1>4, RowFacts DEF IInv, LogoutsOK, IssuedOK, HandlerOK, Using, Revoke
  <2>2. CASE h[v].s = h[w].s
    <3>1. h[w].at # "rotating"
      BY <2>1, <2>2 DEF Rotating
    <3>2. row[h[v].s].revoked => row'[h[v].s].revoked
      BY <2>2, <3>1, SaveFacts DEF Saves, IInv, Tables
    <3> QED BY <1>4, <2>1, <3>2 DEF IInv, LogoutsOK
  <2>3. CASE h[v].s # h[w].s
    <3>1. row'[h[v].s] = row[h[v].s]
      BY <2>1, <2>3, SaveFacts DEF IInv, Tables
    <3> QED BY <1>4, <2>1, <3>1 DEF IInv, LogoutsOK
  <2> QED BY <2>2, <2>3
<1> QED BY <1>1, <1>2, <1>3, <1>5, <1>6 DEF IInv, Tables

\* The selection before a save only notes what differs.
LEMMA SelectsKeep ==
  ASSUME IInv, NEW w \in Handler, SaveSelects(w)
  PROVE  IInv'
<1> DEFINE d == {c \in Columns : row[h[w].s][c] # Wanted(w)[c]}
           x == [h[w] EXCEPT !.at = Saving[h[w].at], !.diff = d]
<1>1. h[w] \in Request /\ h[w].at \in {"rotate", "revoke", "logout"} /\ d \subseteq Columns
  BY DEF SaveSelects, Saving, IInv, TypeOK
<1>2. /\ h[w].at = "rotate" => Saving[h[w].at] = "rotating"
      /\ h[w].at = "revoke" => Saving[h[w].at] = "revoking"
      /\ h[w].at = "logout" => Saving[h[w].at] = "ending"
  BY DEF Saving
<1>3. h' = [h EXCEPT ![w] = x]
  BY DEF SaveSelects, IInv, TypeOK
<1>4. /\ h[w].at = "rotate" => "jti" \in d
      /\ h[w].at = "logout" => "revoked" \in d \/ row[h[w].s].revoked
  <2>1. h[w].s \in Rows /\ h[w].read \in SessionRow /\ row[h[w].s] \in SessionRow
    BY <1>1, RowFacts DEF IInv, IssuedOK, HandlerOK, Using, Request
  <2>2. h[w].at = "rotate" => Wanted(w).jti = h[w].new /\ row[h[w].s].jti # h[w].new
    BY <2>1 DEF IInv, IssuedOK, HandlerOK, FreshOK, Pending, Rotate, Wanted, SessionRow
  <2>3. h[w].at = "logout" => Wanted(w).revoked = TRUE
    BY <2>1 DEF IInv, IssuedOK, HandlerOK, Revoke, Wanted, SessionRow
  <2> QED BY <2>1, <2>2, <2>3 DEF Columns, SessionRow
<1> HIDE DEF d
<1>5. /\ x \in Request /\ x.at = Saving[h[w].at] /\ x.diff = d /\ x.s = h[w].s
      /\ x.read = h[w].read /\ x.new = h[w].new
      /\ x.at \in Rotate <=> h[w].at \in Rotate
      /\ x.at \in Revoke <=> h[w].at \in Revoke
      /\ x.at \in {"rotating", "revoking", "ending"}
      /\ x.at = "rotating" <=> h[w].at = "rotate"
      /\ x.at = "ending" <=> h[w].at = "logout"
  BY <1>1, <1>2 DEF Request, Saving
<1> HIDE DEF x
<1>6. /\ h'[w] = x /\ \A v \in Handler : v # w => h'[v] = h[v]
      /\ UNCHANGED <<tableVars, tokenVars, wireVars, pastVars, changes>>
  BY <1>3 DEF IInv, TypeOK, SaveSelects
<1>7. TypeOK'
  <2>1. h' \in [Handler -> Request]
    BY <1>3, <1>5 DEF IInv, TypeOK
  <2> QED BY <1>6, <2>1 DEF IInv, TypeOK, Rows, tableVars, tokenVars, wireVars, pastVars
<1>8. /\ \A v \in Handler : /\ Using(v)' <=> Using(v)
                            /\ Pending(v)' <=> Pending(v)
                            /\ h'[v].s = h[v].s /\ h'[v].read = h[v].read /\ h'[v].new = h[v].new
      /\ Rows' = Rows
  BY <1>1, <1>5, <1>6 DEF Using, Pending, Rows, tableVars
<1>9. IssuedOK'
  <2>1. HandlerOK(w)'
    BY <1>1, <1>4, <1>5, <1>6, <1>8 DEF IInv, IssuedOK, HandlerOK, tokenVars
  <2>2. \A v \in Handler : v # w => HandlerOK(v)'
    BY <1>6, <1>8 DEF IInv, IssuedOK, HandlerOK, tokenVars
  <2> QED BY <1>6, <1>8, <2>1, <2>2 DEF IInv, IssuedOK, tableVars, tokenVars, pastVars
<1>10. FreshOK'
  BY <1>6, <1>8 DEF IInv, FreshOK, tableVars, pastVars
<1>11. OwnersOK'
  <2>1. \A t \in Token, s \in Session : Of(t, s)' => Of(t, s)
    BY <1>6, <1>8 DEF Of, tableVars
  <2> QED BY <2>1 DEF IInv, OwnersOK
<1>12. ReplacedStaysReplaced'
  BY <1>6, <1>8 DEF IInv, ReplacedStaysReplaced, tableVars, pastVars
<1>13. \A s : Rotating(s)' => Rotating(s)
  BY <1>5, <1>6 DEF Rotating, Rotate
<1>14. ClosedOK'
  BY <1>6, <1>8, <1>13 DEF IInv, ClosedOK, tableVars, pastVars
<1>15. LogoutsOK'
  <2> SUFFICES ASSUME NEW v \in Handler, h'[v].at \in {"logout", "ending"}, v \notin mixed'
               PROVE  /\ ~Rotating(h[v].s)'
                      /\ h'[v].at = "ending" => "revoked" \in h'[v].diff \/ row'[h'[v].s].revoked
    BY DEF LogoutsOK
  <2>1. CASE v = w
    BY <1>1, <1>4, <1>5, <1>6, <1>13, <2>1 DEF IInv, LogoutsOK, tableVars, pastVars
  <2>2. CASE v # w
    BY <1>6, <1>13, <2>2 DEF IInv, LogoutsOK, tableVars, pastVars
  <2> QED BY <2>1, <2>2
<1>16. SocketsOK'
  <2>1. \A v \in Handler : h[v].at \in {"told", "ended"} => h'[v] = h[v]
    BY <1>1, <1>6
  <2> QED BY <1>6, <2>1, CoveredStays, SocketsStay DEF IInv, tableVars, wireVars, pastVars
<1> QED BY <1>7, <1>9, <1>10, <1>11, <1>12, <1>14, <1>15, <1>16 DEF IInv

LEMMA SavesKeep ==
  ASSUME IInv, NEW w \in Handler, RefreshSave(w) \/ RefreshRevoke(w) \/ LogoutSave(w)
  PROVE  IInv'
<1> DEFINE n == After(w)
<1>1. h[w].at \in {"rotating", "revoking", "ending"} /\ Save(w)
  BY DEF RefreshSave, RefreshRevoke, LogoutSave
<1>2. /\ Saves(w, n)
      /\ h[w].at = "ending" /\ (w \notin mixed \/ h[w].s \in closed) => n.revoked
      /\ h[w].at = "rotating" => n.jti = h[w].new
  BY <1>1, AfterFacts
<1>3. /\ h[w] \in Request /\ h[w].read \in SessionRow /\ h[w].s \in Session /\ n.jti \in Token
      /\ closed \subseteq Session /\ quiet \subseteq Token /\ revived \subseteq Token
      /\ mixed \subseteq Handler
  BY <1>2, SaveFacts DEF IInv, Tables, TypeOK, Request
<1>4. /\ Revives(w) = IF n.revoked THEN {} ELSE {n.jti} \ {row[h[w].s].jti}
      /\ Revokes(w) = IF n.revoked /\ ~row[h[w].s].revoked THEN {n.jti} ELSE {}
  BY DEF Revives, Revokes
<1>5. h[w].s \in closed /\ h[w].at # "rotating" => n.revoked
  BY <1>2 DEF Saves, IInv, ClosedOK
<1> HIDE DEF n
<1>6. CASE RefreshSave(w)
  <2> DEFINE x == [at |-> "told", s |-> h[w].s, read |-> h[w].read, new |-> h[w].new, diff |-> {}]
  <2>1. h[w].new \in Token /\ h[w].at = "rotating" /\ n.jti = h[w].new /\ h[w].new # NoToken
    BY <1>2, <1>3, <1>6 DEF RefreshSave, Token, NoToken
  <2>2. x \in Request /\ x.at = "told" /\ x.read = h[w].read /\ x.new = h[w].new
    BY <1>3, <2>1 DEF Request
  <2>3. h' = [h EXCEPT ![w] = x] /\ UNCHANGED <<role, gone, tokenVars, wireVars, mixed, changes>>
    BY <1>6 DEF RefreshSave, Put
  <2>4. UNCHANGED <<revived, quiet, closed>> /\ h[w].s \notin closed
    BY <1>6, <2>1 DEF RefreshSave, IInv, ClosedOK, Rotating
  <2>5. ~(n.revoked /\ ~row[h[w].s].revoked)
    <3>1. ~h[w].read.revoked /\ h[w].new # NoToken
      BY <2>1 DEF IInv, IssuedOK, HandlerOK, Rotate
    <3>2. Wanted(w).revoked = FALSE /\ row[h[w].s] \in SessionRow
      BY <1>2, <1>3, <3>1, SaveFacts, RowFacts DEF Wanted, SessionRow, IInv, Tables
    <3> QED BY <3>2 DEF n, After, SessionRow
  <2> HIDE DEF x
  <2>6. \A s \in closed' : s \in closed
    BY <2>4
  <2> QED BY <1>2, <1>3, <2>1, <2>2, <2>3, <2>4, <2>5, <2>6, SaveStep
<1>7. CASE RefreshRevoke(w)
  <2>1. h[w].at = "revoking" /\ UNCHANGED closed
        /\ revived' = revived \cup Revives(w) /\ quiet' = quiet \cup Revokes(w)
    BY <1>7 DEF RefreshRevoke
  <2>2. h' = [h EXCEPT ![w] = Idle] /\ UNCHANGED <<role, gone, tokenVars, wireVars, mixed, changes>>
    BY <1>7 DEF RefreshRevoke, Done
  <2>3. revived \subseteq revived' /\ revived' \subseteq Token
        /\ (n.revoked \/ n.jti \in revived' \cup {row[h[w].s].jti})
    BY <1>3, <1>4, <2>1
  <2>4. quiet \subseteq quiet' /\ quiet' \subseteq Token
        /\ (n.revoked /\ ~row[h[w].s].revoked => n.jti \in quiet')
    BY <1>3, <1>4, <2>1
  <2>5. Idle \in Request /\ Idle.at = "idle" /\ Idle.new = NoToken
    BY IdleFacts
  <2>6. closed' \subseteq Session /\ (h[w].s \in closed' => n.revoked) /\ \A s \in closed' : s \in closed
    BY <1>3, <1>5, <2>1
  <2> QED BY <1>2, <2>1, <2>2, <2>3, <2>4, <2>5, <2>6, SaveStep
<1>8. CASE LogoutSave(w)
  <2> DEFINE x == [at |-> "ended", s |-> h[w].s, read |-> h[w].read, new |-> NoToken, diff |-> {}]
  <2>1. /\ h[w].at = "ending" /\ closed' = closed \cup Unmixed(w)
        /\ revived' = revived \cup Revives(w)
        /\ quiet' = quiet \cup (Revokes(w) \ {h[w].read.jti})
    BY <1>8 DEF LogoutSave
  <2>2. h' = [h EXCEPT ![w] = x] /\ UNCHANGED <<role, gone, tokenVars, wireVars, mixed, changes>>
    BY <1>8 DEF LogoutSave, Put
  <2>3. revived \subseteq revived' /\ revived' \subseteq Token
        /\ (n.revoked \/ n.jti \in revived' \cup {row[h[w].s].jti})
    BY <1>3, <1>4, <2>1
  <2>4. quiet \subseteq quiet' /\ quiet' \subseteq Token
        /\ (n.revoked /\ ~row[h[w].s].revoked => n.jti = h[w].read.jti \/ n.jti \in quiet')
    BY <1>3, <1>4, <2>1
  <2>5. x \in Request /\ x.at = "ended" /\ x.read = h[w].read /\ x.new = NoToken
    BY <1>3 DEF Request
  <2>6. closed' \subseteq Session /\ (h[w].s \in closed' => n.revoked)
        /\ \A s \in closed' : s \in closed \/ (s = h[w].s /\ ~Rotating(s))
    <3>1. w \notin mixed => ~Rotating(h[w].s)
      BY <2>1 DEF IInv, LogoutsOK
    <3> QED BY <1>2, <1>3, <2>1, <3>1 DEF Unmixed
  <2> HIDE DEF x
  <2> QED BY <1>2, <2>1, <2>2, <2>3, <2>4, <2>5, <2>6, SaveStep
<1> QED BY <1>6, <1>7, <1>8

\* Requests that end, with or without an answer.
LEMMA EndsKeep ==
  ASSUME IInv, NEW w \in Handler, Tell(w) \/ SessionRevoked(w) \/ RequestFails(w)
  PROVE  IInv'
<1>1. /\ h' = [h EXCEPT ![w] = Idle]
      /\ UNCHANGED <<tableVars, holder, issued, stale, dead, pastVars, changes>>
  BY DEF Tell, SessionRevoked, RequestFails, Done, tokenVars
<1>2. h'[w] = Idle /\ \A v \in Handler : v # w => h'[v] = h[v]
  BY <1>1 DEF IInv, TypeOK
<1>3. h' \in [Handler -> Request]
  BY <1>1, IdleFacts DEF IInv, TypeOK
<1>4. h[w] \in Request /\ h[w].read.jti \in Token \cup {NoToken} /\ h[w].new \in Token \cup {NoToken}
  BY DEF IInv, TypeOK, Request, SessionRow
<1>5. ClosedOK'
  BY <1>1, <1>2, IdleFacts, ClosedStays DEF IInv, tableVars, pastVars, Rotate
<1>6. TypeOK' => Tables'
  BY <1>1, <1>2, EndingKeeps DEF IInv, Tables, tableVars, pastVars
<1>10. LogoutsOK'
  BY <1>1, <1>2, IdleFacts, LogoutsStay DEF IInv, tableVars, pastVars
<1>7. CASE Tell(w)
  <2>1. /\ h[w].at = "told" /\ UNCHANGED conn
        /\ cuts' = cuts \cup ({h[w].read.jti} \ {NoToken})
        /\ told' \subseteq told \cup {h[w].new}
    BY <1>7 DEF Tell
  <2>2. h[w].new \in Token
    BY <1>4, <2>1 DEF IInv, IssuedOK, HandlerOK
  <2>3. told' \subseteq Token /\ cuts' \subseteq Token
    BY <1>4, <2>1, <2>2 DEF IInv, TypeOK
  <2>4. TypeOK'
    BY <1>1, <1>3, <2>1, <2>3 DEF IInv, TypeOK, Rows, tableVars, pastVars
  <2>5. ASSUME NEW t \in Token, Covered(t) PROVE Covered(t)'
    <3>1. Live(t) => Live(t)'
      BY <1>1 DEF Live, FindByJti, Rows, tableVars
    <3>2. t # NoToken
      BY DEF Token, NoToken
    <3> QED BY <1>1, <1>2, <2>1, <2>5, <3>1, <3>2 DEF Covered, pastVars
  <2>6. SocketsOK'
    BY <2>1, <2>5, SocketsStay DEF IInv
  <2> QED BY <1>5, <1>6, <1>10, <2>4, <2>6 DEF IInv, Tables
<1>8. CASE SessionRevoked(w)
  <2>1. Cut(h[w].read.jti) /\ UNCHANGED <<told, cuts>>
    BY <1>8 DEF SessionRevoked, tokenVars
  <2>2. ASSUME NEW t \in Token, t # h[w].read.jti, Covered(t) PROVE Covered(t)'
    <3>1. Live(t) => Live(t)'
      BY <1>1 DEF Live, FindByJti, Rows, tableVars
    <3> QED BY <1>1, <1>2, <2>1, <2>2, <3>1 DEF Covered, pastVars
  <2>3. conn' \in [Conn -> Socket] /\ SocketsOK'
    BY <2>1, <2>2, CutKeeps DEF IInv
  <2>4. TypeOK'
    BY <1>1, <1>3, <2>1, <2>3 DEF IInv, TypeOK, Rows, tableVars, pastVars
  <2> QED BY <1>5, <1>6, <1>10, <2>3, <2>4 DEF IInv, Tables
<1>9. CASE RequestFails(w)
  <2>1. UNCHANGED <<told, cuts, conn>> /\ h[w].at \notin {"told", "ended"}
    BY <1>9 DEF RequestFails, tokenVars, wireVars
  <2>2. TypeOK'
    BY <1>1, <1>3, <2>1 DEF IInv, TypeOK, Rows, tableVars, pastVars
  <2>3. SocketsOK'
    BY <1>1, <1>2, <2>1, CoveredStays, SocketsStay DEF IInv, tableVars, pastVars
  <2> QED BY <1>5, <1>6, <1>10, <2>2, <2>3 DEF IInv, Tables
<1> QED BY <1>7, <1>8, <1>9

\* What only concerns the sockets.
LEMMA SocketStepsKeep ==
  ASSUME IInv,
         \/ \E t \in Token : SessionRefreshed(t)
         \/ \E c \in Conn : Connect(c) \/ Join(c) \/ Leave(c)
  PROVE  IInv'
<1>1. UNCHANGED <<tableVars, tokenVars, h, pastVars, changes>>
  BY DEF SessionRefreshed, Connect, Join, Leave
<1>2. ASSUME cuts' \subseteq Token, conn' \in [Conn -> Socket], SocketsOK' PROVE IInv'
  <2>1. TypeOK'
    BY <1>1, <1>2 DEF IInv, TypeOK, Rows, tableVars, tokenVars, pastVars
  <2>2. Tables'
    BY <1>1, <2>1, EndingKeeps DEF IInv, Tables, tableVars, tokenVars, pastVars
  <2>3. ClosedOK' /\ LogoutsOK'
    BY <1>1, ClosedStays, LogoutsStay DEF IInv, tableVars, pastVars
  <2> QED BY <1>2, <2>1, <2>2, <2>3 DEF IInv, Tables
<1>3. ASSUME NEW t \in Token, SessionRefreshed(t) PROVE IInv'
  <2>1. cuts' = cuts \ {t} /\ Cut(t)
    BY <1>3 DEF SessionRefreshed
  <2>2. ASSUME NEW x \in Token, x # t, Covered(x) PROVE Covered(x)'
    BY <1>1, <2>1, <2>2 DEF Covered, Live, FindByJti, Rows, tableVars, pastVars
  <2>3. conn' \in [Conn -> Socket] /\ SocketsOK'
    BY <2>1, <2>2, CutKeeps DEF IInv
  <2> QED BY <1>2, <2>1, <2>3 DEF IInv, TypeOK
<1>4. ASSUME NEW c \in Conn, NEW x \in Socket, conn' = [conn EXCEPT ![c] = x], UNCHANGED cuts,
             x.at # "off" /\ x.ns = "driver" /\ ~x.late =>
               x.sid \in Token /\ Covered(x.sid)
      PROVE  IInv'
  <2>1. \A t : Covered(t) => Covered(t)'
    BY <1>1, <1>4, CoveredStays DEF tableVars, pastVars
  <2>2. conn' \in [Conn -> Socket]
    BY <1>4 DEF IInv, TypeOK
  <2>3. conn'[c] = x /\ \A d \in Conn : d # c => conn'[d] = conn[d]
    BY <1>4 DEF IInv, TypeOK
  <2>4. SocketsOK'
    BY <1>4, <2>1, <2>3 DEF IInv, SocketsOK
  <2> QED BY <1>2, <1>4, <2>2, <2>4 DEF IInv, TypeOK
<1>5. ASSUME NEW c \in Conn, Connect(c) PROVE IInv'
  <2>1. PICK t \in told, ns \in UserType :
          /\ Admits(t, ns)
          /\ conn' = [conn EXCEPT ![c] = [at |-> "checked", sid |-> t, ns |-> ns, late |-> FALSE]]
    BY <1>5 DEF Connect
  <2> DEFINE x == [at |-> "checked", sid |-> t, ns |-> ns, late |-> FALSE]
  <2>2. t \in Token /\ Covered(t)
    BY <2>1 DEF IInv, TypeOK, Admits, Covered
  <2>3. x \in Socket /\ x.sid = t
    BY <2>2 DEF Socket
  <2> HIDE DEF x
  <2>4. conn' = [conn EXCEPT ![c] = x] /\ UNCHANGED cuts
    BY <1>5, <2>1 DEF Connect, x
  <2> QED BY <1>4, <2>2, <2>3, <2>4
<1>6. ASSUME NEW c \in Conn, Join(c) PROVE IInv'
  <2> DEFINE x == [at |-> "on", sid |-> conn[c].sid, ns |-> conn[c].ns, late |-> conn[c].late]
  <2>1. conn[c] \in Socket /\ conn[c].at # "off"
    BY <1>6 DEF IInv, TypeOK, Join
  <2>2. x \in Socket /\ x.sid = conn[c].sid /\ x.ns = conn[c].ns /\ x.late = conn[c].late
    BY <2>1 DEF Socket
  <2> HIDE DEF x
  <2>3. conn' = [conn EXCEPT ![c] = x] /\ UNCHANGED cuts
    BY <1>6 DEF Join, x
  <2> QED BY <1>4, <2>1, <2>2, <2>3 DEF IInv, SocketsOK
<1>7. ASSUME NEW c \in Conn, Leave(c) PROVE IInv'
  <2>1. Off \in Socket /\ Off.at = "off"
    BY DEF Off, Socket
  <2> QED BY <1>4, <1>7, <2>1 DEF Leave
<1> QED BY <1>3, <1>5, <1>6, <1>7

\* Users, the clock and crashes.
LEMMA OutsideKeeps ==
  ASSUME IInv,
         \/ AccessExpires \/ RefreshExpires \/ Crash
         \/ \E u \in User : ChangeRole(u) \/ RemoveUser(u)
  PROVE  IInv'
<1>1. /\ UNCHANGED <<row, holder, issued, told, pastVars>>
      /\ \A v \in Handler : h'[v] = h[v] \/ h'[v] = Idle
      /\ h' \in [Handler -> Request] /\ changes' \in 0 .. MaxChanges
  <2>1. UNCHANGED h \/ h' = [w \in Handler |-> Idle]
    BY DEF AccessExpires, RefreshExpires, Crash, ChangeRole, RemoveUser
  <2>2. changes \in 0 .. MaxChanges /\ (UNCHANGED changes \/ Changing)
    BY DEF IInv, TypeOK, AccessExpires, RefreshExpires, Crash, ChangeRole, RemoveUser
  <2>3. changes' \in 0 .. MaxChanges
    BY <2>2, SessionsAssumption DEF Changing
  <2>4. UNCHANGED <<row, holder, issued, told, pastVars>>
    BY DEF AccessExpires, RefreshExpires, Crash, ChangeRole, RemoveUser, tableVars, tokenVars
  <2>5. h' \in [Handler -> Request]
    BY <2>1, IdleFacts DEF IInv, TypeOK
  <2> QED BY <2>1, <2>3, <2>4, <2>5
<1>2. /\ dead' \in 0 .. stale' /\ stale' \in 0 .. issued'
      /\ role' \in [User -> UserType] /\ gone' \in [User -> BOOLEAN]
  <2>1. /\ dead \in Nat /\ stale \in Nat /\ issued \in Nat /\ dead <= stale /\ stale <= issued
        /\ role \in [User -> UserType] /\ gone \in [User -> BOOLEAN]
    BY SessionsAssumption DEF IInv, TypeOK
  <2>2. CASE AccessExpires \/ RefreshExpires
    BY <2>1, <2>2 DEF AccessExpires, RefreshExpires, tableVars
  <2>3. CASE Crash
    BY <2>1, <2>3 DEF Crash, tableVars, tokenVars
  <2>4. ASSUME NEW u \in User, ChangeRole(u) \/ RemoveUser(u)
        PROVE  /\ UNCHANGED <<dead, stale, issued>>
               /\ role' \in [User -> UserType] /\ gone' \in [User -> BOOLEAN]
    BY <2>1, <2>4 DEF ChangeRole, RemoveUser, tokenVars
  <2> QED BY <2>1, <2>2, <2>3, <2>4
<1>3. \/ UNCHANGED <<h, wireVars>>
      \/ cuts' = {} /\ conn' = [c \in Conn |-> Off]
  BY DEF AccessExpires, RefreshExpires, Crash, ChangeRole, RemoveUser
<1>4. cuts' \subseteq Token /\ conn' \in [Conn -> Socket] /\ SocketsOK'
  <2>1. CASE UNCHANGED <<h, wireVars>>
    BY <1>1, <2>1, CoveredStays, SocketsStay DEF IInv, TypeOK, wireVars, pastVars
  <2>2. CASE cuts' = {} /\ conn' = [c \in Conn |-> Off]
    BY <2>2 DEF SocketsOK, Off, Socket
  <2> QED BY <1>3, <2>1, <2>2
<1>5. TypeOK'
  BY <1>1, <1>2, <1>4 DEF IInv, TypeOK, Rows, pastVars
<1>6. Tables'
  BY <1>1, <1>5, EndingKeeps DEF IInv, Tables, pastVars
<1>7. ClosedOK' /\ LogoutsOK'
  BY <1>1, IdleFacts, ClosedStays, LogoutsStay DEF IInv, pastVars, Rotate
<1> QED BY <1>4, <1>5, <1>6, <1>7 DEF IInv, Tables

LEMMA Invariance == Spec => []IInv
<1>1. IInv /\ [Next]_vars => IInv'
  <2> SUFFICES ASSUME IInv, [Next]_vars PROVE IInv'
    OBVIOUS
  <2>1. CASE UNCHANGED vars
    <3>1. UNCHANGED <<tableVars, tokenVars, h, wireVars, pastVars, changes>>
      BY <2>1 DEF vars
    <3>2. TypeOK'
      BY <3>1 DEF IInv, TypeOK, Rows, tableVars, tokenVars, wireVars, pastVars
    <3>3. Tables'
      BY <3>1, <3>2, EndingKeeps DEF IInv, Tables, tableVars, tokenVars, pastVars
    <3>4. ClosedOK' /\ LogoutsOK'
      BY <3>1, ClosedStays, LogoutsStay DEF IInv, tableVars, pastVars
    <3>5. SocketsOK'
      BY <3>1, CoveredStays, SocketsStay DEF IInv, tableVars, wireVars, pastVars
    <3> QED BY <3>2, <3>3, <3>4, <3>5 DEF IInv, Tables
  <2>2. ASSUME NEW w \in Handler,
               \/ LoginRead(w) \/ LoginCommit(w)
               \/ RefreshRead(w) \/ RefreshSave(w) \/ RefreshRevoke(w) \/ Tell(w)
               \/ LogoutRead(w) \/ SaveSelects(w) \/ LogoutSave(w) \/ SessionRevoked(w)
               \/ RequestFails(w)
        PROVE  IInv'
    BY <2>2, BeginKeeps, LoginCommitKeeps, SelectsKeep, SavesKeep, EndsKeep
  <2> QED BY <2>1, <2>2, SocketStepsKeep, OutsideKeeps DEF Next
<1> QED BY <1>1, InitHolds, PTL DEF Spec

----------------------------------------------------------------------------
(* Results *)

\* Sessions, requests and sockets keep their types, and no token is the token of two
\* sessions, stale saves included.
THEOREM TypesHold == Spec => []TypeOK
<1>1. IInv => TypeOK
  BY DEF IInv
<1> QED BY <1>1, Invariance, PTL

\* A token that a rotation or a stale save took out of its session is the token of a
\* live session again only if a logout or a revocation that had compared before wrote it
\* back, however many refreshes and logouts select, compare and save in whatever order.
THEOREM ReplacedTokensStayOut == Spec => []ReplacedStaysReplaced
<1>1. IInv => ReplacedStaysReplaced
  BY DEF IInv
<1> QED BY <1>1, Invariance, PTL

\* A logout that no rotation of its session overlapped is final.
THEOREM LogoutsAreFinal == Spec => []LogoutHolds
<1>1. IInv => LogoutHolds
  BY DEF IInv, ClosedOK, LogoutHolds
<1> QED BY <1>1, Invariance, PTL

\* A driver's socket is on a live session or will be cut, but for the gaps it names.
THEOREM SocketsAreCut == Spec => []SocketsFollowSessions
<1>1. IInv => SocketsFollowSessions
  BY DEF IInv, SocketsOK, Covered, SocketsFollowSessions
<1> QED BY <1>1, Invariance, PTL

=============================================================================
