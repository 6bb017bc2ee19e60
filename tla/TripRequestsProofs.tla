------------------------- MODULE TripRequestsProofs -------------------------
(***************************************************************************)
(* Proofs about TripRequests for any sets of keys, passengers, trips and   *)
(* requests in flight.  The inductive invariant is IInv.  Its core is      *)
(* FirstAttemptOK: what is true of a key until it is renewed.              *)
(***************************************************************************)
EXTENDS TripRequests, TLAPS

Owning == {"check", "create", "succeed", "fail"}

\* What a request in flight knows about the tables.
HandlerOK == \A w \in Worker :
  /\ h[w].pc # "idle" => h[w].passenger \in Passenger
  /\ h[w].pc \in {"claim", "insert", "renew", "fail"} => h[w].key \in Key
  /\ h[w].pc \in Owning \cup {"renew"} /\ h[w].key \in Key => row[h[w].key] # NoRow
  /\ h[w].pc = "renew" => h[w].seen \in 1 .. MaxAttempts - 1
  /\ h[w].pc = "succeed" =>
       h[w].trip \in Trip /\ trips[h[w].trip] # NotCreated /\ trips[h[w].trip].key = h[w].key

\* The clock of a key stops at its last attempt, which is therefore never renewed.
LapsedOK == \A k \in Key :
  row[k] # NoRow /\ row[k].attempts = MaxAttempts =>
    row[k].window /\ (row[k].status = "in_progress" => row[k].lease)

\* The stored response of a success is a trip of the key.
StoredOK == \A k \in Key : row[k].status = "succeeded" => row[k].body \in Made(k)

\* Until k is renewed it has one owner at most, which has made no trip or the only one.
KeyOK(k) ==
  /\ row[k] = NoRow => Made(k) = {}
  /\ row[k].attempts = 1 =>
       /\ \A v, w \in Owners(k) : v = w
       /\ \A t, u \in Made(k) : t = u
       /\ \A w \in Owners(k) :
            /\ row[k].status = "in_progress"
            /\ h[w].pc \in {"check", "create"} => Made(k) = {}
            /\ h[w].pc = "succeed" => Made(k) \subseteq {h[w].trip}
            /\ h[w].pc = "fail" /\ faults = 0 => Made(k) = {}
       /\ row[k].status = "failed" /\ faults = 0 => Made(k) = {}

FirstAttemptOK == \A k \in Key : KeyOK(k)

IInv ==
  /\ TypeOK
  /\ HandlerOK
  /\ LapsedOK
  /\ StoredOK
  /\ ToldTripsExist
  /\ FirstAttemptOK

----------------------------------------------------------------------------
(* Small facts *)

\* The fields of a key's row, and how the missing row differs from the others.
LEMMA RowFacts ==
  ASSUME TypeOK, NEW k \in Key
  PROVE  /\ row[k] \in Row \cup {NoRow}
         /\ row[k] = NoRow <=> row[k].status = "none"
         /\ row[k] = NoRow <=> row[k].attempts = 0
         /\ row[k] # NoRow => /\ row[k] \in Row
                              /\ row[k].status \in {"in_progress", "succeeded", "failed"}
                              /\ row[k].attempts \in 1 .. MaxAttempts
                              /\ row[k].body \in Trip \cup {NoTrip}
                              /\ row[k].lease \in BOOLEAN
                              /\ row[k].window \in BOOLEAN
<1>1. row[k] \in Row \cup {NoRow}
  BY DEF TypeOK
<1>2. NoRow.status = "none" /\ NoRow.attempts = 0
  BY DEF NoRow
<1>3. ASSUME NEW r \in Row
      PROVE  /\ r.status \in {"in_progress", "succeeded", "failed"}
             /\ r.attempts \in 1 .. MaxAttempts
             /\ r.body \in Trip \cup {NoTrip}
             /\ r.lease \in BOOLEAN
             /\ r.window \in BOOLEAN
  BY DEF Row
<1>4. CASE row[k] = NoRow
  BY <1>1, <1>2, <1>4
<1>5. CASE row[k] \in Row
  <2>1. row[k].status # "none" /\ row[k].attempts # 0
    BY <1>3, <1>5, RequestsAssumption
  <2> QED BY <1>1, <1>2, <1>3, <1>5, <2>1
<1> QED BY <1>1, <1>4, <1>5

\* A claim fills the row afresh and keeps only the stored body; a finished row keeps
\* its attempt and its window.
LEMMA ClaimedFacts ==
  ASSUME NEW r \in Row \cup {NoRow}, NEW n \in 1 .. MaxAttempts
  PROVE  /\ Claimed(r, n) \in Row
         /\ Claimed(r, n).status = "in_progress"
         /\ Claimed(r, n).attempts = n
         /\ Claimed(r, n).lease
         /\ Claimed(r, n).window
<1>1. r.body \in Trip \cup {NoTrip}
  <2>1. CASE r \in Row
    BY <2>1 DEF Row
  <2>2. CASE r = NoRow
    BY <2>2 DEF NoRow
  <2> QED BY <2>1, <2>2
<1> QED BY <1>1 DEF Claimed, Row

\* fail changes the status and ends the lease.
LEMMA FailedFacts ==
  ASSUME NEW r \in Row
  PROVE  /\ Failed(r) \in Row
         /\ Failed(r).status = "failed"
         /\ Failed(r).body = r.body
         /\ Failed(r).attempts = r.attempts
         /\ Failed(r).window = r.window
<1>1. /\ r.body \in Trip \cup {NoTrip}
      /\ r.window \in BOOLEAN
      /\ r.attempts \in 1 .. MaxAttempts
  BY DEF Row
<1> QED BY <1>1 DEF Failed, Row

\* succeed also stores the response.
LEMMA SucceededFacts ==
  ASSUME NEW r \in Row, NEW t \in Trip
  PROVE  /\ Succeeded(r, t) \in Row
         /\ Succeeded(r, t).status = "succeeded"
         /\ Succeeded(r, t).body = t
         /\ Succeeded(r, t).attempts = r.attempts
         /\ Succeeded(r, t).window = r.window
<1>1. r.window \in BOOLEAN /\ r.attempts \in 1 .. MaxAttempts
  BY DEF Row
<1> QED BY <1>1 DEF Succeeded, Row

\* Time changes nothing but the lease and the window.
LEMMA LapsedFacts ==
  ASSUME NEW r \in Row, NEW window \in BOOLEAN
  PROVE  /\ Lapsed(r, window) \in Row
         /\ Lapsed(r, window).status = r.status
         /\ Lapsed(r, window).body = r.body
         /\ Lapsed(r, window).attempts = r.attempts
<1>1. /\ r.status \in {"in_progress", "succeeded", "failed"}
      /\ r.body \in Trip \cup {NoTrip}
      /\ r.attempts \in 1 .. MaxAttempts
  BY DEF Row
<1> QED BY <1>1 DEF Lapsed, Row

\* A trip is created exactly when it has a passenger.
LEMMA TripFacts ==
  ASSUME TypeOK, NEW t \in Trip
  PROVE  /\ trips[t] \in Created \cup {NotCreated}
         /\ trips[t] # NotCreated <=> trips[t].passenger \in Passenger
         /\ trips[t] # NotCreated => trips[t] \in Created
BY RequestsAssumption DEF TypeOK, Created, NotCreated

Pcs == {"idle", "claim", "insert", "renew", "check", "create", "succeed", "fail"}

\* A request's record and step are of their types, and the idle record is one of them.
LEMMA RequestFacts ==
  ASSUME TypeOK, NEW w \in Worker
  PROVE  /\ h[w] \in Request
         /\ h[w].pc \in Pcs
         /\ h[w].key \in Key \cup {NoKey}
         /\ Idle \in Request
         /\ Idle.pc = "idle" /\ Idle.key = NoKey
BY RequestsAssumption DEF TypeOK, Request, Idle, Pcs

\* Moving a request on changes its pc alone; a request that is done is idle.
LEMMA GotoFacts ==
  ASSUME TypeOK, NEW w \in Worker, NEW pc \in Pcs, Goto(w, pc)
  PROVE  /\ h' \in [Worker -> Request]
         /\ h'[w].pc = pc
         /\ h'[w].key = h[w].key
         /\ h'[w].passenger = h[w].passenger
         /\ h'[w].trip = h[w].trip
         /\ h'[w].seen = h[w].seen
         /\ \A v \in Worker : v # w => h'[v] = h[v]
<1>1. h[w] \in Request /\ h \in [Worker -> Request]
  BY DEF TypeOK
<1>2. [h[w] EXCEPT !.pc = pc] \in Request
  BY <1>1 DEF Request, Pcs
<1>3. h' = [h EXCEPT ![w] = [h[w] EXCEPT !.pc = pc]]
  BY DEF Goto
<1>4. h'[w] = [h[w] EXCEPT !.pc = pc]
  BY <1>1, <1>3
<1> QED BY <1>1, <1>2, <1>3, <1>4 DEF Request

\* A request that is done leaves the idle record behind; the others stay.
LEMMA DoneFacts ==
  ASSUME TypeOK, NEW w \in Worker, Done(w)
  PROVE  /\ h' \in [Worker -> Request]
         /\ h'[w] = Idle
         /\ \A v \in Worker : v # w => h'[v] = h[v]
BY RequestFacts DEF Done, TypeOK

\* After an error a request without a key is done, one with a key goes to mark it failed.
LEMMA FailingFacts ==
  ASSUME TypeOK, NEW w \in Worker, Failing(w)
  PROVE  \/ h[w].key = NoKey /\ Done(w)
         \/ h[w].key \in Key /\ Goto(w, "fail")
BY RequestFacts DEF Failing

----------------------------------------------------------------------------
(* What the remaining steps do to the records of the requests *)

\* A request arrives for its key and passenger.
LEMMA ArriveFacts ==
  ASSUME TypeOK, NEW w \in Worker, NEW k \in Key \cup {NoKey}, NEW p \in Passenger, Arrive(w, k, p)
  PROVE  /\ h' \in [Worker -> Request]
         /\ h'[w].pc = IF k = NoKey THEN "check" ELSE "claim"
         /\ h'[w].key = k
         /\ h'[w].passenger = p
         /\ \A v \in Worker : v # w => h'[v] = h[v]
<1> DEFINE q == [pc |-> IF k = NoKey THEN "check" ELSE "claim", key |-> k, passenger |-> p,
                 trip |-> NoTrip, seen |-> 0]
<1>1. h \in [Worker -> Request]
  BY DEF TypeOK
<1>2. q \in Request
  BY RequestsAssumption DEF Request
<1>3. h' = [h EXCEPT ![w] = q]
  BY DEF Arrive
<1>4. h'[w] = q
  BY <1>1, <1>3
<1> QED BY <1>1, <1>2, <1>3, <1>4

\* A step and the number of attempts seen may change together.
LEMMA SeenFacts ==
  ASSUME TypeOK, NEW w \in Worker, NEW pc \in Pcs, NEW n \in 0 .. MaxAttempts,
         h' = [h EXCEPT ![w].pc = pc, ![w].seen = n]
  PROVE  /\ h' \in [Worker -> Request]
         /\ h'[w].pc = pc
         /\ h'[w].key = h[w].key
         /\ h'[w].passenger = h[w].passenger
         /\ h'[w].seen = n
         /\ \A v \in Worker : v # w => h'[v] = h[v]
<1> DEFINE q == [pc |-> pc, key |-> h[w].key, passenger |-> h[w].passenger,
                 trip |-> h[w].trip, seen |-> n]
<1>1. h[w] \in Request /\ h \in [Worker -> Request]
  BY DEF TypeOK
<1>2. h'[w] = q
  BY <1>1 DEF Request
<1>3. q \in Request
  BY <1>1 DEF Request, Pcs
<1>4. \A v \in Worker : v # w => h'[v] = h[v]
  BY <1>1
<1>5. h' \in [Worker -> Request]
  BY <1>1, <1>2, <1>3, <1>4
<1> QED BY <1>2, <1>4, <1>5

\* A request put up for renewal remembers the attempts of the row it has read.
LEMMA ToRenewal ==
  ASSUME TypeOK, NEW w \in Worker, h[w].key \in Key, row[h[w].key] # NoRow,
         h' = [h EXCEPT ![w].pc = "renew", ![w].seen = row[h[w].key].attempts]
  PROVE  /\ h'[w].pc = "renew"
         /\ h'[w].key = h[w].key
         /\ h'[w].passenger = h[w].passenger
         /\ h'[w].seen = row[h[w].key].attempts
         /\ \A v \in Worker : v # w => h'[v] = h[v]
<1> DEFINE q == [pc |-> "renew", key |-> h[w].key, passenger |-> h[w].passenger,
                 trip |-> h[w].trip, seen |-> row[h[w].key].attempts]
<1>1. h[w] \in Request /\ h \in [Worker -> Request]
  BY DEF TypeOK
<1>2. h'[w] = q
  BY <1>1 DEF Request
<1> QED BY <1>1, <1>2

\* The transaction creates one trip, for the key and passenger of the request.
LEMMA CreateFacts ==
  ASSUME TypeOK, NEW w \in Worker, NEW t \in Trip, h[w].passenger \in Passenger, Create(w, t)
  PROVE  /\ h' \in [Worker -> Request]
         /\ h'[w].pc = "succeed"
         /\ h'[w].key = h[w].key
         /\ h'[w].passenger = h[w].passenger
         /\ h'[w].trip = t
         /\ \A v \in Worker : v # w => h'[v] = h[v]
         /\ trips' \in [Trip -> Created \cup {NotCreated}]
         /\ trips'[t] # NotCreated /\ trips'[t].key = h[w].key
         /\ \A u \in Trip : u # t => trips'[u] = trips[u]
<1> DEFINE q == [pc |-> "succeed", key |-> h[w].key, passenger |-> h[w].passenger,
                 trip |-> t, seen |-> h[w].seen]
           c == [key |-> h[w].key, passenger |-> h[w].passenger, active |-> TRUE]
<1>1. h[w] \in Request /\ h \in [Worker -> Request]
  BY DEF TypeOK
<1>2. h'[w] = q
  BY <1>1 DEF Request, Create
<1>3. q \in Request
  BY <1>1 DEF Request
<1>4. \A v \in Worker : v # w => h'[v] = h[v]
  BY <1>1 DEF Create
<1>5. h' \in [Worker -> Request]
  BY <1>1, <1>2, <1>3, <1>4 DEF Create
<1>6. c \in Created /\ c # NotCreated
  BY <1>1, RequestsAssumption DEF Request, Created, NotCreated
<1>7. trips' = [trips EXCEPT ![t] = c] /\ trips \in [Trip -> Created \cup {NotCreated}]
  BY DEF Create, TypeOK
<1>8. /\ trips' \in [Trip -> Created \cup {NotCreated}]
      /\ trips'[t] = c
      /\ \A u \in Trip : u # t => trips'[u] = trips[u]
  BY <1>6, <1>7
<1> QED BY <1>2, <1>4, <1>5, <1>6, <1>8

\* A trip that ends stays created, for the same key.
LEMMA TripEndsFacts ==
  ASSUME TypeOK, NEW t \in Trip, TripEnds(t)
  PROVE  /\ trips' \in [Trip -> Created \cup {NotCreated}]
         /\ \A u \in Trip : /\ trips'[u] # NotCreated <=> trips[u] # NotCreated
                            /\ trips'[u].key = trips[u].key
<1> DEFINE c == [trips[t] EXCEPT !.active = FALSE]
<1>1. trips \in [Trip -> Created \cup {NotCreated}]
  BY DEF TypeOK
<1>2. trips[t] \in Created /\ trips[t] # NotCreated
  <2>1. trips[t] # NotCreated
    BY DEF TripEnds, NotCreated
  <2> QED BY <1>1, <2>1
<1>3. /\ c \in Created
      /\ c.key = trips[t].key
      /\ c.passenger = trips[t].passenger
  BY <1>2 DEF Created
<1>4. c # NotCreated
  BY <1>2, <1>3, RequestsAssumption DEF Created, NotCreated
<1>5. trips' = [trips EXCEPT ![t] = c]
  BY DEF TripEnds
<1> HIDE DEF c
<1>6. trips'[t] = c /\ \A u \in Trip : u # t => trips'[u] = trips[u]
  BY <1>1, <1>5
<1> QED BY <1>1, <1>2, <1>3, <1>4, <1>5, <1>6

----------------------------------------------------------------------------
(* Types *)

\* The empty tables and idle requests are well typed.
LEMMA InitTypeOK == Init => TypeOK
BY RequestsAssumption DEF Init, TypeOK, Request, Idle

\* Every step keeps the types.
LEMMA TypeStep ==
  ASSUME TypeOK, HandlerOK, StoredOK, Next
  PROVE  TypeOK'
<1> DEFINE Rows == [Key -> Row \cup {NoRow}]
<1>0. row \in Rows /\ faults \in 0 .. MaxFaults
  BY DEF TypeOK
<1>1. ASSUME NEW w \in Worker, Step(w)
      PROVE  TypeOK'
  <2> DEFINE k == h[w].key
  <2>1. CASE ClaimRead(w)
    <3>1. k \in Key
      BY <2>1 DEF ClaimRead, HandlerOK
    <3>2. CASE Goto(w, "insert") /\ UNCHANGED told
      BY <2>1, <3>2, GotoFacts DEF ClaimRead, TypeOK, Pcs
    <3>3. CASE /\ Stored(row[k])
               /\ told' = told \cup {<<k, h[w].passenger, row[k].body>>}
               /\ Done(w)
      <4>1. row[k].body \in Trip
        BY <3>1, <3>3 DEF StoredOK, Stored, Made
      <4>2. h[w].passenger \in Passenger
        BY <2>1 DEF ClaimRead, HandlerOK
      <4>3. h' \in [Worker -> Request]
        BY <3>3, DoneFacts
      <4>4. told' \subseteq (Key \cup {NoKey}) \X Passenger \X Trip
        BY <3>1, <3>3, <4>1, <4>2 DEF TypeOK
      <4> QED BY <2>1, <4>3, <4>4 DEF ClaimRead, TypeOK
    <3>4. CASE Done(w) /\ UNCHANGED told
      BY <2>1, <3>4, DoneFacts DEF ClaimRead, TypeOK
    <3>5. CASE /\ h' = [h EXCEPT ![w].pc = "renew", ![w].seen = row[k].attempts]
               /\ row[k] # NoRow
               /\ UNCHANGED told
      <4>1. row[k].attempts \in 0 .. MaxAttempts
        BY <3>1, <3>5, RowFacts, RequestsAssumption
      <4>2. h' \in [Worker -> Request]
        BY <3>5, <4>1, SeenFacts DEF Pcs
      <4> QED BY <2>1, <3>5, <4>2 DEF ClaimRead, TypeOK
    <3> QED BY <2>1, <3>2, <3>3, <3>4, <3>5 DEF ClaimRead
  <2>2. CASE Insert(w)
    <3>1. Claimed(NoRow, 1) \in Row
      <4>1. 1 \in 1 .. MaxAttempts /\ NoRow \in Row \cup {NoRow}
        BY RequestsAssumption
      <4> QED BY <4>1, ClaimedFacts
    <3>2. row' \in Rows
      BY <1>0, <2>2, <3>1 DEF Insert
    <3>3. h' \in [Worker -> Request]
      BY <2>2, GotoFacts DEF Insert, Pcs
    <3> QED BY <2>2, <3>2, <3>3 DEF Insert, TypeOK
  <2>3. CASE Renew(w)
    <3>1. k \in Key /\ h[w].seen \in 1 .. MaxAttempts - 1
      BY <2>3 DEF Renew, HandlerOK
    <3>2. Claimed(row[k], h[w].seen + 1) \in Row
      <4>1. h[w].seen + 1 \in 1 .. MaxAttempts /\ row[k] \in Row \cup {NoRow}
        BY <1>0, <3>1, RequestsAssumption
      <4> QED BY <4>1, ClaimedFacts
    <3>3. row' \in Rows
      BY <1>0, <2>3, <3>2 DEF Renew
    <3>4. h' \in [Worker -> Request]
      <4>1. 0 \in 0 .. MaxAttempts /\ "check" \in Pcs
        BY RequestsAssumption DEF Pcs
      <4> QED BY <2>3, <4>1, SeenFacts DEF Renew
    <3> QED BY <2>3, <3>3, <3>4 DEF Renew, TypeOK
  <2>4. CASE CheckActive(w)
    <3>1. h' \in [Worker -> Request]
      BY <2>4, GotoFacts, DoneFacts, FailingFacts DEF CheckActive, Pcs
    <3> QED BY <2>4, <3>1 DEF CheckActive, TypeOK
  <2>5. CASE CreateFails(w)
    <3>1. h' \in [Worker -> Request]
      BY <2>5, GotoFacts, DoneFacts, FailingFacts DEF CreateFails, Pcs
    <3> QED BY <2>5, <3>1 DEF CreateFails, TypeOK
  <2>6. ASSUME NEW t \in Trip, Create(w, t)
        PROVE  TypeOK'
    <3>1. h[w].passenger \in Passenger
      BY <2>6 DEF Create, HandlerOK
    <3>2. h' \in [Worker -> Request] /\ trips' \in [Trip -> Created \cup {NotCreated}]
      BY <2>6, <3>1, CreateFacts
    <3> QED BY <2>6, <3>2 DEF Create, TypeOK
  <2>7. CASE Succeed(w)
    <3>1. /\ h[w].trip \in Trip
          /\ h[w].passenger \in Passenger
          /\ k \in Key \cup {NoKey}
          /\ k \in Key => row[k] # NoRow
      BY <2>7, RequestFacts DEF Succeed, HandlerOK, Owning
    <3>2. row' \in Rows
      <4>1. CASE k = NoKey
        BY <1>0, <2>7, <4>1 DEF Succeed
      <4>2. CASE k \in Key
        <5>1. Succeeded(row[k], h[w].trip) \in Row
          BY <1>0, <3>1, <4>2, SucceededFacts
        <5> QED BY <1>0, <2>7, <4>2, <5>1, RequestsAssumption DEF Succeed
      <4> QED BY <3>1, <4>1, <4>2
    <3>3. h' \in [Worker -> Request]
      BY <2>7, DoneFacts DEF Succeed
    <3>4. told' \subseteq (Key \cup {NoKey}) \X Passenger \X Trip
      BY <2>7, <3>1 DEF Succeed, TypeOK
    <3> QED BY <2>7, <3>2, <3>3, <3>4 DEF Succeed, TypeOK
  <2>8. CASE SucceedFails(w)
    <3>1. h' \in [Worker -> Request]
      BY <2>8, GotoFacts, DoneFacts, FailingFacts DEF SucceedFails, Pcs
    <3> QED BY <1>0, <2>8, <3>1, RequestsAssumption DEF SucceedFails, TypeOK
  <2>9. CASE Fail(w)
    <3>1. k \in Key /\ row[k] \in Row
      BY <2>9, <1>0 DEF Fail, HandlerOK, Owning
    <3>2. Failed(row[k]) \in Row
      BY <3>1, FailedFacts
    <3>3. row' \in Rows
      BY <1>0, <2>9, <3>1, <3>2 DEF Fail
    <3>4. h' \in [Worker -> Request]
      BY <2>9, DoneFacts DEF Fail
    <3> QED BY <2>9, <3>3, <3>4 DEF Fail, TypeOK
  <2>10. CASE KeyStatementFails(w)
    <3>1. h' \in [Worker -> Request]
      BY <2>10, DoneFacts DEF KeyStatementFails
    <3> QED BY <1>0, <2>10, <3>1, RequestsAssumption DEF KeyStatementFails, TypeOK
  <2> QED BY <1>1, <2>1, <2>2, <2>3, <2>4, <2>5, <2>6, <2>7, <2>8, <2>9, <2>10 DEF Step
<1>2. ASSUME NEW w \in Worker, NEW k \in Key \cup {NoKey}, NEW p \in Passenger, Arrive(w, k, p)
      PROVE  TypeOK'
  BY <1>2, ArriveFacts DEF Arrive, TypeOK
<1>3. ASSUME NEW k \in Key, LeaseElapses(k) \/ WindowElapses(k)
      PROVE  TypeOK'
  <2>1. row[k] \in Row
    <3>1. NoRow.lease = FALSE /\ NoRow.window = FALSE
      BY DEF NoRow
    <3>2. row[k] # NoRow
      BY <1>3, <3>1 DEF LeaseElapses, WindowElapses
    <3> QED BY <1>0, <3>2
  <2>2. row[k].window \in BOOLEAN
    BY <2>1 DEF Row
  <2>3. Lapsed(row[k], row[k].window) \in Row /\ Lapsed(row[k], FALSE) \in Row
    BY <2>1, <2>2, LapsedFacts
  <2>4. row' \in Rows
    BY <1>0, <1>3, <2>3 DEF LeaseElapses, WindowElapses
  <2> QED BY <1>3, <2>4 DEF LeaseElapses, WindowElapses, TypeOK
<1>4. ASSUME NEW t \in Trip, TripEnds(t)
      PROVE  TypeOK'
  BY <1>4, TripEndsFacts DEF TripEnds, TypeOK
<1>5. CASE Crash
  <2>1. h' \in [Worker -> Request]
    <3>1. Idle \in Request
      BY RequestsAssumption DEF Request, Idle
    <3> QED BY <1>5, <3>1 DEF Crash
  <2> QED BY <1>0, <1>5, <2>1, RequestsAssumption DEF Crash, TypeOK
<1> QED BY <1>1, <1>2, <1>3, <1>4, <1>5 DEF Next

----------------------------------------------------------------------------
(* Steps, seen from one key *)

\* Nothing that matters to key k moves on: its row may lapse and its owners may fail.
Quiet(k) ==
  /\ row'[k].status = row[k].status
  /\ row'[k].attempts = row[k].attempts
  /\ row'[k].body = row[k].body
  /\ Made(k)' = Made(k)
  /\ faults <= faults'
  /\ \A w \in Worker : h'[w].key = k /\ h'[w].pc \in Owning =>
       /\ h[w].key = k
       /\ h[w].pc \in Owning
       /\ h'[w].pc \in {"check", "create"} => h[w].pc \in {"check", "create"}
       /\ h'[w].pc = "succeed" => h[w].pc = "succeed" /\ h'[w].trip = h[w].trip
       /\ h'[w].pc = "fail" => h[w].pc \in {"check", "create", "fail"} \/ faults' > 0

\* A request for k takes one of the steps that do move it on.
Decisive(k) == \E w \in Worker :
  /\ h[w].key = k
  /\ \/ row[k] = NoRow /\ Insert(w)
     \/ Renew(w)
     \/ \E t \in Trip : Create(w, t)
     \/ Succeed(w)
     \/ Fail(w)

\* A step of w that leaves the row and trips of k alone is quiet for k when w is not, or
\* no longer, an owner of k, or stays one without getting ahead.
LEMMA QuietMove ==
  ASSUME NEW k \in Key, NEW w \in Worker,
         row'[k] = row[k], Made(k)' = Made(k), faults <= faults',
         \A v \in Worker : v # w => h'[v] = h[v],
         \/ h'[w].key # k
         \/ h'[w].pc \notin Owning
         \/ /\ h[w].key = k /\ h[w].pc \in Owning
            /\ h'[w].pc \in {"check", "create"} => h[w].pc \in {"check", "create"}
            /\ h'[w].pc = "succeed" => h[w].pc = "succeed" /\ h'[w].trip = h[w].trip
            /\ h'[w].pc = "fail" => h[w].pc \in {"check", "create", "fail"} \/ faults' > 0
  PROVE  Quiet(k)
BY DEF Quiet, Owning

\* Seen from k every step is quiet or decisive.
LEMMA StepFromKey ==
  ASSUME TypeOK, HandlerOK, Next, NEW k \in Key
  PROVE  Quiet(k) \/ Decisive(k)
<1>0. row \in [Key -> Row \cup {NoRow}] /\ faults \in Nat
  BY RequestsAssumption DEF TypeOK
<1>1. ASSUME NEW w \in Worker, Step(w)
      PROVE  Quiet(k) \/ Decisive(k)
  <2>1. ASSUME Done(w), row'[k] = row[k], Made(k)' = Made(k), faults <= faults'
        PROVE  Quiet(k)
    <3>1. h'[w].pc = "idle" /\ \A v \in Worker : v # w => h'[v] = h[v]
      BY <2>1, DoneFacts, RequestFacts
    <3> QED BY <2>1, <3>1, QuietMove DEF Owning
  <2>2. ASSUME Failing(w), row'[k] = row[k], Made(k)' = Made(k), faults <= faults',
               h[w].pc \in {"check", "create"} \/ (h[w].pc = "succeed" /\ faults' > 0)
        PROVE  Quiet(k)
    <3>1. CASE Done(w)
      BY <2>1, <2>2, <3>1
    <3>2. CASE Goto(w, "fail")
      <4>1. /\ h'[w].pc = "fail" /\ h'[w].key = h[w].key
            /\ \A v \in Worker : v # w => h'[v] = h[v]
        BY <3>2, GotoFacts DEF Pcs
      <4> QED BY <2>2, <4>1, QuietMove DEF Owning
    <3> QED BY <2>2, <3>1, <3>2, FailingFacts
  <2>3. CASE ClaimRead(w)
    <3>1. row' = row /\ Made(k)' = Made(k) /\ faults <= faults'
      BY <1>0, <2>3 DEF ClaimRead, Made
    <3>2. CASE Done(w)
      BY <2>1, <3>1, <3>2
    <3>3. CASE Goto(w, "insert")
      BY <3>1, <3>3, GotoFacts, QuietMove DEF Pcs, Owning
    <3>4. CASE h' = [h EXCEPT ![w].pc = "renew", ![w].seen = row[h[w].key].attempts]
      <4>1. h'[w].pc = "renew" /\ \A v \in Worker : v # w => h'[v] = h[v]
        BY <3>4 DEF TypeOK, Request
      <4> QED BY <3>1, <4>1, QuietMove DEF Owning
    <3> QED BY <2>3, <3>2, <3>3, <3>4 DEF ClaimRead
  <2>4. CASE Insert(w)
    <3>1. Made(k)' = Made(k) /\ faults <= faults'
      BY <1>0, <2>4 DEF Insert, Made
    <3>2. CASE h[w].key = k /\ row[k] = NoRow
      BY <2>4, <3>2 DEF Decisive
    <3>3. CASE h[w].key = k /\ row[k] # NoRow
      BY <2>4, <3>1, <3>3, GotoFacts, QuietMove DEF Insert, Pcs, Owning
    <3>4. CASE h[w].key # k
      <4>1. row'[k] = row[k]
        BY <1>0, <2>4, <3>4 DEF Insert
      <4>2. h'[w].key # k /\ \A v \in Worker : v # w => h'[v] = h[v]
        BY <2>4, <3>4, GotoFacts DEF Insert, Pcs
      <4> QED BY <3>1, <4>1, <4>2, QuietMove
    <3> QED BY <3>2, <3>3, <3>4
  <2>5. CASE Renew(w)
    <3>1. CASE h[w].key = k
      BY <2>5, <3>1 DEF Decisive
    <3>2. CASE h[w].key # k
      <4>1. row'[k] = row[k] /\ Made(k)' = Made(k) /\ faults <= faults'
        BY <1>0, <2>5, <3>2 DEF Renew, Made
      <4>2. h'[w].key # k /\ \A v \in Worker : v # w => h'[v] = h[v]
        BY <2>5, <3>2 DEF Renew, TypeOK, Request
      <4> QED BY <4>1, <4>2, QuietMove
    <3> QED BY <3>1, <3>2
  <2>6. CASE CheckActive(w)
    <3>1. row' = row /\ Made(k)' = Made(k) /\ faults <= faults'
      BY <1>0, <2>6 DEF CheckActive, Made
    <3>2. CASE Failing(w)
      BY <2>2, <2>6, <3>1, <3>2 DEF CheckActive
    <3>3. CASE Goto(w, "create")
      <4>1. /\ h'[w].pc = "create" /\ h'[w].key = h[w].key
            /\ \A v \in Worker : v # w => h'[v] = h[v]
        BY <3>3, GotoFacts DEF Pcs
      <4>2. h[w].pc = "check"
        BY <2>6 DEF CheckActive
      <4> QED BY <3>1, <4>1, <4>2, QuietMove DEF Owning
    <3> QED BY <2>6, <3>2, <3>3 DEF CheckActive
  <2>7. CASE CreateFails(w)
    <3>1. row' = row /\ Made(k)' = Made(k) /\ faults <= faults'
      BY <1>0, <2>7 DEF CreateFails, Made
    <3> QED BY <2>2, <2>7, <3>1 DEF CreateFails
  <2>8. ASSUME NEW t \in Trip, Create(w, t)
        PROVE  Quiet(k) \/ Decisive(k)
    <3>1. CASE h[w].key = k
      BY <2>8, <3>1 DEF Decisive
    <3>2. CASE h[w].key # k
      <4>1. h[w].passenger \in Passenger
        BY <2>8 DEF Create, HandlerOK
      <4>2. /\ h'[w].key # k
            /\ \A v \in Worker : v # w => h'[v] = h[v]
            /\ trips[t] = NotCreated
            /\ trips'[t].key # k
            /\ \A u \in Trip : u # t => trips'[u] = trips[u]
        BY <2>8, <3>2, <4>1, CreateFacts DEF Create
      <4>3. Made(k)' = Made(k)
        BY <4>2 DEF Made
      <4>4. row' = row /\ faults <= faults'
        BY <1>0, <2>8 DEF Create
      <4> QED BY <4>2, <4>3, <4>4, QuietMove
    <3> QED BY <3>1, <3>2
  <2>9. CASE Succeed(w)
    <3>1. CASE h[w].key = k
      BY <2>9, <3>1 DEF Decisive
    <3>2. CASE h[w].key # k
      <4>1. row'[k] = row[k] /\ Made(k)' = Made(k) /\ faults <= faults'
        BY <1>0, <2>9, <3>2 DEF Succeed, Made
      <4> QED BY <2>1, <2>9, <4>1 DEF Succeed
    <3> QED BY <3>1, <3>2
  <2>10. CASE SucceedFails(w)
    <3>1. row' = row /\ Made(k)' = Made(k) /\ faults <= faults' /\ faults' > 0
      BY <1>0, <2>10 DEF SucceedFails, Made
    <3> QED BY <2>2, <2>10, <3>1 DEF SucceedFails
  <2>11. CASE Fail(w)
    <3>1. CASE h[w].key = k
      BY <2>11, <3>1 DEF Decisive
    <3>2. CASE h[w].key # k
      <4>1. row'[k] = row[k] /\ Made(k)' = Made(k) /\ faults <= faults'
        BY <1>0, <2>11, <3>2 DEF Fail, Made
      <4> QED BY <2>1, <2>11, <4>1 DEF Fail
    <3> QED BY <3>1, <3>2
  <2>12. CASE KeyStatementFails(w)
    <3>1. row' = row /\ Made(k)' = Made(k) /\ faults <= faults'
      BY <1>0, <2>12 DEF KeyStatementFails, Made
    <3> QED BY <2>1, <2>12, <3>1 DEF KeyStatementFails
  <2> QED BY <1>1, <2>3, <2>4, <2>5, <2>6, <2>7, <2>8, <2>9, <2>10, <2>11, <2>12 DEF Step
<1>2. ASSUME NEW w \in Worker, NEW j \in Key \cup {NoKey}, NEW p \in Passenger, Arrive(w, j, p)
      PROVE  Quiet(k)
  <2>1. row' = row /\ Made(k)' = Made(k) /\ faults <= faults'
    BY <1>0, <1>2 DEF Arrive, Made
  <2>2. /\ h'[w].pc = IF j = NoKey THEN "check" ELSE "claim"
        /\ h'[w].key = j
        /\ \A v \in Worker : v # w => h'[v] = h[v]
    BY <1>2, ArriveFacts
  <2>3. h'[w].key # k \/ h'[w].pc \notin Owning
    BY <2>2, RequestsAssumption DEF Owning
  <2> QED BY <2>1, <2>2, <2>3, QuietMove
<1>3. ASSUME NEW j \in Key, LeaseElapses(j) \/ WindowElapses(j)
      PROVE  Quiet(k)
  <2>1. h' = h /\ trips' = trips /\ faults' = faults
    BY <1>3 DEF LeaseElapses, WindowElapses
  <2>2. /\ row'[k].status = row[k].status
        /\ row'[k].attempts = row[k].attempts
        /\ row'[k].body = row[k].body
    BY <1>0, <1>3 DEF LeaseElapses, WindowElapses, Lapsed
  <2>3. Made(k)' = Made(k) /\ faults <= faults'
    BY <1>0, <2>1 DEF Made
  <2> QED BY <2>1, <2>2, <2>3 DEF Quiet, Owning
<1>4. ASSUME NEW t \in Trip, TripEnds(t)
      PROVE  Quiet(k)
  <2>1. Made(k)' = Made(k)
    BY <1>4, TripEndsFacts DEF Made
  <2>2. row' = row /\ h' = h /\ faults <= faults'
    BY <1>0, <1>4 DEF TripEnds
  <2> QED BY <2>1, <2>2 DEF Quiet, Owning
<1>5. CASE Crash
  <2>1. \A w \in Worker : h'[w].pc = "idle"
    BY <1>5 DEF Crash, Idle
  <2>2. row' = row /\ Made(k)' = Made(k) /\ faults <= faults'
    BY <1>0, <1>5 DEF Crash, Made
  <2> QED BY <2>1, <2>2 DEF Quiet, Owning
<1> QED BY <1>1, <1>2, <1>3, <1>4, <1>5 DEF Next

----------------------------------------------------------------------------
(* The decisive steps *)

\* An insertion that wins fills the missing row; only w moves.
LEMMA InsertEffect ==
  ASSUME TypeOK, HandlerOK, NEW w \in Worker, Insert(w), row[h[w].key] = NoRow
  PROVE  LET k == h[w].key IN
         /\ k \in Key
         /\ row'[k].status = "in_progress" /\ row'[k].attempts = 1
         /\ row'[k].lease /\ row'[k].window
         /\ \A j \in Key : j # k => row'[j] = row[j]
         /\ trips' = trips /\ told' = told /\ faults' = faults
         /\ h'[w].pc = "check" /\ h'[w].key = k /\ h'[w].passenger = h[w].passenger
         /\ \A v \in Worker : v # w => h'[v] = h[v]
<1>1. h[w].key \in Key /\ row \in [Key -> Row \cup {NoRow}]
  BY DEF Insert, HandlerOK, TypeOK
<1>2. /\ row'[h[w].key] = Claimed(NoRow, 1)
      /\ \A j \in Key : j # h[w].key => row'[j] = row[j]
  BY <1>1 DEF Insert
<1>3. 1 \in 1 .. MaxAttempts /\ NoRow \in Row \cup {NoRow}
  BY RequestsAssumption
<1>4. /\ h'[w].pc = "check" /\ h'[w].key = h[w].key /\ h'[w].passenger = h[w].passenger
      /\ \A v \in Worker : v # w => h'[v] = h[v]
  BY GotoFacts DEF Insert, Pcs
<1>5. /\ row'[h[w].key].status = "in_progress" /\ row'[h[w].key].attempts = 1
      /\ row'[h[w].key].lease /\ row'[h[w].key].window
  <2>1. LET c == Claimed(NoRow, 1)
        IN  c.status = "in_progress" /\ c.attempts = 1 /\ c.lease /\ c.window
    BY <1>3, ClaimedFacts
  <2> QED BY <1>2, <2>1
<1>6. trips' = trips /\ told' = told /\ faults' = faults
  BY DEF Insert
<1> QED BY <1>1, <1>2, <1>4, <1>5, <1>6

\* A renewal takes the key over with an attempt count of two at least.
LEMMA RenewEffect ==
  ASSUME TypeOK, HandlerOK, NEW w \in Worker, Renew(w)
  PROVE  LET k == h[w].key IN
         /\ k \in Key
         /\ row'[k].status = "in_progress" /\ row'[k].attempts = h[w].seen + 1
         /\ row'[k].attempts \in 2 .. MaxAttempts
         /\ row'[k].lease /\ row'[k].window
         /\ \A j \in Key : j # k => row'[j] = row[j]
         /\ trips' = trips /\ told' = told /\ faults' = faults
         /\ h'[w].pc = "check" /\ h'[w].key = k /\ h'[w].passenger = h[w].passenger
         /\ \A v \in Worker : v # w => h'[v] = h[v]
<1>1. h[w].key \in Key /\ row \in [Key -> Row \cup {NoRow}] /\ h[w].seen \in 1 .. MaxAttempts - 1
  BY DEF Renew, HandlerOK, TypeOK
<1>2. /\ row'[h[w].key] = Claimed(row[h[w].key], h[w].seen + 1)
      /\ \A j \in Key : j # h[w].key => row'[j] = row[j]
  BY <1>1 DEF Renew
<1>3. /\ h[w].seen + 1 \in 1 .. MaxAttempts
      /\ h[w].seen + 1 \in 2 .. MaxAttempts
      /\ row[h[w].key] \in Row \cup {NoRow}
  BY <1>1, RequestsAssumption
<1>4. /\ h'[w].pc = "check" /\ h'[w].key = h[w].key /\ h'[w].passenger = h[w].passenger
      /\ \A v \in Worker : v # w => h'[v] = h[v]
  <2>1. 0 \in 0 .. MaxAttempts /\ "check" \in Pcs
    BY RequestsAssumption DEF Pcs
  <2> QED BY <2>1, SeenFacts DEF Renew
<1>5. /\ row'[h[w].key].status = "in_progress"
      /\ row'[h[w].key].attempts = h[w].seen + 1
      /\ row'[h[w].key].lease /\ row'[h[w].key].window
  BY <1>2, <1>3, ClaimedFacts
<1>6. trips' = trips /\ told' = told /\ faults' = faults
  BY DEF Renew
<1> QED BY <1>1, <1>2, <1>3, <1>4, <1>5, <1>6

\* succeed stores the trip of the request under its key, if it has one.
LEMMA SucceedEffect ==
  ASSUME TypeOK, HandlerOK, NEW w \in Worker, Succeed(w)
  PROVE  LET k == h[w].key IN
         /\ k = NoKey => row' = row
         /\ k \in Key =>
              /\ row'[k].status = "succeeded" /\ row'[k].body = h[w].trip
              /\ row'[k].attempts = row[k].attempts /\ row'[k].window = row[k].window
         /\ \A j \in Key : j # k => row'[j] = row[j]
         /\ trips' = trips /\ faults' = faults
         /\ h'[w].pc = "idle"
         /\ \A v \in Worker : v # w => h'[v] = h[v]
<1>1. row \in [Key -> Row \cup {NoRow}]
  BY DEF TypeOK
<1>2. CASE h[w].key = NoKey
  BY <1>2, RequestsAssumption, DoneFacts, RequestFacts DEF Succeed
<1>3. CASE h[w].key \in Key
  <2>1. row[h[w].key] \in Row /\ h[w].trip \in Trip
    BY <1>1, <1>3 DEF Succeed, HandlerOK, Owning
  <2>2. /\ row'[h[w].key] = Succeeded(row[h[w].key], h[w].trip)
        /\ \A j \in Key : j # h[w].key => row'[j] = row[j]
    BY <1>1, <1>3, RequestsAssumption DEF Succeed
  <2> QED BY <1>3, <2>1, <2>2, SucceededFacts, DoneFacts, RequestFacts, RequestsAssumption
          DEF Succeed
<1> QED BY <1>2, <1>3, RequestFacts

\* fail marks the key of the request failed and leaves its stored response.
LEMMA FailEffect ==
  ASSUME TypeOK, HandlerOK, NEW w \in Worker, Fail(w)
  PROVE  LET k == h[w].key IN
         /\ k \in Key
         /\ row'[k].status = "failed" /\ row'[k].body = row[k].body
         /\ row'[k].attempts = row[k].attempts /\ row'[k].window = row[k].window
         /\ \A j \in Key : j # k => row'[j] = row[j]
         /\ trips' = trips /\ told' = told /\ faults' = faults
         /\ h'[w].pc = "idle"
         /\ \A v \in Worker : v # w => h'[v] = h[v]
<1>1. /\ h[w].key \in Key /\ row[h[w].key] \in Row
      /\ row \in [Key -> Row \cup {NoRow}]
  BY DEF Fail, HandlerOK, Owning, TypeOK
<1>2. /\ row'[h[w].key] = Failed(row[h[w].key])
      /\ \A j \in Key : j # h[w].key => row'[j] = row[j]
  BY <1>1 DEF Fail
<1> QED BY <1>1, <1>2, FailedFacts, DoneFacts, RequestFacts DEF Fail

----------------------------------------------------------------------------
(* The invariant *)

\* The invariant holds of the empty tables.
LEMMA InitInv == Init => IInv
<1> SUFFICES ASSUME Init PROVE IInv
  OBVIOUS
<1>1. TypeOK
  BY InitTypeOK
<1>2. HandlerOK
  BY DEF Init, HandlerOK, Idle, Owning
<1>3. \A k \in Key : row[k] = NoRow /\ Made(k) = {} /\ row[k].status = "none" /\ row[k].attempts = 0
  BY DEF Init, Made, NoRow
<1>4. told = {}
  BY DEF Init
<1> QED BY <1>1, <1>2, <1>3, <1>4
        DEF IInv, LapsedOK, StoredOK, ToldTripsExist, FirstAttemptOK, KeyOK

\* A row is never deleted.
LEMMA RowsStay ==
  ASSUME TypeOK, HandlerOK, Next, NEW k \in Key, row[k] # NoRow
  PROVE  row'[k] # NoRow
<1>1. CASE Quiet(k)
  <2>1. row'[k].status # "none"
    BY <1>1, RowFacts DEF Quiet
  <2> QED BY <2>1 DEF NoRow
<1>2. CASE Decisive(k)
  <2>1. PICK w \in Worker :
          /\ h[w].key = k
          /\ Renew(w) \/ (\E t \in Trip : Create(w, t)) \/ Succeed(w) \/ Fail(w)
    BY <1>2 DEF Decisive
  <2>2. CASE Renew(w)
    BY <2>1, <2>2, RenewEffect DEF NoRow
  <2>3. CASE \E t \in Trip : Create(w, t)
    BY <2>3 DEF Create
  <2>4. CASE Succeed(w)
    BY <2>1, <2>4, SucceedEffect DEF NoRow
  <2>5. CASE Fail(w)
    BY <2>1, <2>5, FailEffect DEF NoRow
  <2> QED BY <2>1, <2>2, <2>3, <2>4, <2>5
<1> QED BY <1>1, <1>2, StepFromKey

\* A created trip stays created, for the same key.
LEMMA TripsStay ==
  ASSUME TypeOK, HandlerOK, Next, NEW t \in Trip, trips[t] # NotCreated
  PROVE  trips'[t] # NotCreated /\ trips'[t].key = trips[t].key
<1>1. ASSUME NEW w \in Worker, NEW u \in Trip, Create(w, u)
      PROVE  trips'[t] = trips[t]
  <2>1. h[w].passenger \in Passenger /\ t # u
    BY <1>1 DEF Create, HandlerOK
  <2> QED BY <1>1, <2>1, CreateFacts
<1>2. ASSUME NEW w \in Worker, Step(w), ~ \E u \in Trip : Create(w, u)
      PROVE  trips' = trips
  BY <1>2 DEF Step, ClaimRead, Insert, Renew, CheckActive, CreateFails, Succeed, SucceedFails,
              Fail, KeyStatementFails
<1>3. CASE \E w \in Worker : Step(w)
  BY <1>1, <1>2, <1>3
<1>4. CASE \E w \in Worker, k \in Key \cup {NoKey}, p \in Passenger : Arrive(w, k, p)
  BY <1>4 DEF Arrive
<1>5. CASE \E k \in Key : LeaseElapses(k) \/ WindowElapses(k)
  BY <1>5 DEF LeaseElapses, WindowElapses
<1>6. CASE \E u \in Trip : TripEnds(u)
  BY <1>6, TripEndsFacts
<1>7. CASE Crash
  BY <1>7 DEF Crash
<1> QED BY <1>3, <1>4, <1>5, <1>6, <1>7 DEF Next

\* No trip of a key is ever lost.
LEMMA MadeGrows ==
  ASSUME TypeOK, HandlerOK, Next, NEW k \in Key
  PROVE  Made(k) \subseteq Made(k)'
BY TripsStay DEF Made

\* What a request knows stays true while others move.
LEMMA HandlerStep ==
  ASSUME TypeOK, HandlerOK, LapsedOK, Next
  PROVE  HandlerOK'
<1> DEFINE Knows(v) ==
      /\ h[v].pc # "idle" => h[v].passenger \in Passenger
      /\ h[v].pc \in {"claim", "insert", "renew", "fail"} => h[v].key \in Key
      /\ h[v].pc \in Owning \cup {"renew"} /\ h[v].key \in Key => row[h[v].key] # NoRow
      /\ h[v].pc = "renew" => h[v].seen \in 1 .. MaxAttempts - 1
      /\ h[v].pc = "succeed" =>
           h[v].trip \in Trip /\ trips[h[v].trip] # NotCreated /\ trips[h[v].trip].key = h[v].key
<1>1. \A v \in Worker : Knows(v)
  BY DEF HandlerOK
<1>2. ASSUME NEW v \in Worker, h'[v] = h[v]
      PROVE  Knows(v)'
  BY <1>1, <1>2, RowsStay, TripsStay
<1>3. ASSUME NEW v \in Worker, h'[v].pc = "idle"
      PROVE  Knows(v)'
  BY <1>3 DEF Owning
<1>4. ASSUME NEW w \in Worker, Step(w)
      PROVE  \A v \in Worker : Knows(v)'
  <2> DEFINE Others == \A v \in Worker : v # w => h'[v] = h[v]
  <2>0. Others /\ Knows(w)' => \A v \in Worker : Knows(v)'
    BY <1>2
  <2> HIDE DEF Others
  <2>1. ASSUME Done(w)
        PROVE  Others /\ Knows(w)'
    BY <1>3, <2>1, DoneFacts, RequestFacts DEF Others
  <2>2. ASSUME Failing(w), h[w].pc \in {"check", "create", "succeed"}
        PROVE  Others /\ Knows(w)'
    <3>1. CASE h[w].key \in Key /\ Goto(w, "fail")
      <4>1. /\ Others /\ h'[w].pc = "fail" /\ h'[w].key = h[w].key
            /\ h'[w].passenger = h[w].passenger
        BY <3>1, GotoFacts DEF Pcs, Others
      <4>2. row'[h[w].key] # NoRow
        BY <1>1, <2>2, <3>1, RowsStay DEF Owning
      <4> QED BY <1>1, <2>2, <3>1, <4>1, <4>2 DEF Owning
    <3> QED BY <2>1, <2>2, <3>1, FailingFacts
  <2>3. CASE ClaimRead(w)
    <3> DEFINE k == h[w].key
    <3>1. k \in Key
      BY <1>1, <2>3 DEF ClaimRead
    <3>2. CASE Goto(w, "insert")
      <4>1. /\ Others /\ h'[w].pc = "insert" /\ h'[w].key = h[w].key
            /\ h'[w].passenger = h[w].passenger
        BY <3>2, GotoFacts DEF Pcs, Others
      <4> QED BY <1>1, <2>0, <2>3, <3>1, <4>1 DEF ClaimRead, Owning
    <3>3. CASE /\ h' = [h EXCEPT ![w].pc = "renew", ![w].seen = row[k].attempts]
               /\ row[k] # NoRow /\ ~Stored(row[k]) /\ ~Refused(row[k])
      <4>1. row[k].attempts \in 1 .. MaxAttempts
        BY <3>1, <3>3, RowFacts
      <4>2. row[k].attempts # MaxAttempts
        BY <3>1, <3>3, RowFacts DEF LapsedOK, Stored, Refused
      <4>3. /\ Others /\ h'[w].pc = "renew" /\ h'[w].key = h[w].key
            /\ h'[w].passenger = h[w].passenger /\ h'[w].seen = row[k].attempts
        BY <3>1, <3>3, ToRenewal DEF Others
      <4>4. row' = row /\ row[k].attempts \in 1 .. MaxAttempts - 1
        BY <2>3, <4>1, <4>2, RequestsAssumption DEF ClaimRead
      <4> QED BY <1>1, <2>0, <2>3, <3>1, <3>3, <4>3, <4>4 DEF ClaimRead, Owning
    <3> QED BY <2>0, <2>1, <2>3, <3>2, <3>3 DEF ClaimRead
  <2>4. CASE Insert(w)
    <3>1. CASE row[h[w].key] = NoRow
      <4>1. /\ Others /\ h'[w].pc = "check" /\ h'[w].key = h[w].key
            /\ h'[w].passenger = h[w].passenger
            /\ row'[h[w].key].status = "in_progress"
        BY <2>4, <3>1, InsertEffect DEF Others
      <4>2. row'[h[w].key] # NoRow
        BY <4>1 DEF NoRow
      <4> QED BY <1>1, <2>0, <2>4, <4>1, <4>2 DEF Insert, Owning
    <3>2. CASE row[h[w].key] # NoRow
      <4>1. /\ Others /\ h'[w].pc = "claim" /\ h'[w].key = h[w].key
            /\ h'[w].passenger = h[w].passenger
        BY <2>4, <3>2, GotoFacts DEF Insert, Pcs, Others
      <4> QED BY <1>1, <2>0, <2>4, <4>1 DEF Insert, Owning
    <3> QED BY <3>1, <3>2
  <2>5. CASE Renew(w)
    <3>1. /\ Others /\ h'[w].pc = "check" /\ h'[w].key = h[w].key
          /\ h'[w].passenger = h[w].passenger
          /\ row'[h[w].key].status = "in_progress"
      BY <2>5, RenewEffect DEF Others
    <3>2. row'[h[w].key] # NoRow
      BY <3>1 DEF NoRow
    <3> QED BY <1>1, <2>0, <2>5, <3>1, <3>2 DEF Renew, Owning
  <2>6. CASE CheckActive(w)
    <3>1. CASE Failing(w)
      BY <2>0, <2>2, <2>6, <3>1 DEF CheckActive
    <3>2. CASE Goto(w, "create")
      <4>1. /\ Others /\ h'[w].pc = "create" /\ h'[w].key = h[w].key
            /\ h'[w].passenger = h[w].passenger
        BY <3>2, GotoFacts DEF Pcs, Others
      <4>2. row' = row
        BY <2>6 DEF CheckActive
      <4> QED BY <1>1, <2>0, <2>6, <4>1, <4>2 DEF CheckActive, Owning
    <3> QED BY <2>6, <3>1, <3>2 DEF CheckActive
  <2>7. CASE CreateFails(w)
    BY <2>0, <2>2, <2>7 DEF CreateFails
  <2>8. ASSUME NEW t \in Trip, Create(w, t)
        PROVE  \A v \in Worker : Knows(v)'
    <3>1. h[w].passenger \in Passenger
      BY <1>1, <2>8 DEF Create
    <3>2. /\ Others /\ h'[w].pc = "succeed" /\ h'[w].key = h[w].key
          /\ h'[w].passenger = h[w].passenger /\ h'[w].trip = t
          /\ trips'[t] # NotCreated /\ trips'[t].key = h[w].key
      BY <2>8, <3>1, CreateFacts DEF Others
    <3>3. row' = row
      BY <2>8 DEF Create
    <3> QED BY <1>1, <2>0, <2>8, <3>1, <3>2, <3>3 DEF Create, Owning
  <2>9. CASE Succeed(w)
    BY <2>0, <2>1, <2>9 DEF Succeed
  <2>10. CASE SucceedFails(w)
    BY <2>0, <2>2, <2>10 DEF SucceedFails
  <2>11. CASE Fail(w)
    BY <2>0, <2>1, <2>11 DEF Fail
  <2>12. CASE KeyStatementFails(w)
    BY <2>0, <2>1, <2>12 DEF KeyStatementFails
  <2> QED BY <1>4, <2>3, <2>4, <2>5, <2>6, <2>7, <2>8, <2>9, <2>10, <2>11, <2>12 DEF Step
<1>5. ASSUME NEW w \in Worker, NEW k \in Key \cup {NoKey}, NEW p \in Passenger, Arrive(w, k, p)
      PROVE  \A v \in Worker : Knows(v)'
  <2>1. /\ h'[w].pc = IF k = NoKey THEN "check" ELSE "claim"
        /\ h'[w].key = k
        /\ h'[w].passenger = p
        /\ \A v \in Worker : v # w => h'[v] = h[v]
    BY <1>5, ArriveFacts
  <2>2. Knows(w)'
    BY <2>1, RequestsAssumption DEF Owning
  <2> QED BY <1>2, <2>1, <2>2
<1>6. ASSUME Crash
      PROVE  \A v \in Worker : Knows(v)'
  <2>1. \A v \in Worker : h'[v].pc = "idle"
    BY <1>6 DEF Crash, Idle
  <2> QED BY <1>3, <2>1
<1>7. ASSUME h' = h
      PROVE  \A v \in Worker : Knows(v)'
  BY <1>2, <1>7
<1>8. ASSUME \E k \in Key : LeaseElapses(k) \/ WindowElapses(k)
      PROVE  h' = h
  BY <1>8 DEF LeaseElapses, WindowElapses
<1>9. ASSUME \E t \in Trip : TripEnds(t)
      PROVE  h' = h
  BY <1>9 DEF TripEnds
<1>10. \A v \in Worker : Knows(v)'
  <2> HIDE DEF Knows
  <2> QED BY <1>4, <1>5, <1>6, <1>7, <1>8, <1>9 DEF Next
<1> QED BY <1>10 DEF HandlerOK

\* A last attempt is begun with its lease and window set, and neither elapses.
LEMMA LapsedStep ==
  ASSUME TypeOK, HandlerOK, LapsedOK, Next
  PROVE  LapsedOK'
<1> SUFFICES ASSUME NEW k \in Key, row'[k] # NoRow, row'[k].attempts = MaxAttempts
             PROVE  row'[k].window /\ (row'[k].status = "in_progress" => row'[k].lease)
  BY DEF LapsedOK
<1>0. row \in [Key -> Row \cup {NoRow}]
  BY DEF TypeOK
<1>1. CASE row'[k] = row[k]
  BY <1>1 DEF LapsedOK
<1>2. ASSUME NEW w \in Worker, Step(w), row'[k] # row[k]
      PROVE  row'[k].window /\ (row'[k].status = "in_progress" => row'[k].lease)
  <2>1. CASE Insert(w)
    <3>1. row[h[w].key] = NoRow
      BY <1>2, <2>1 DEF Insert
    <3>2. h[w].key = k
      BY <1>2, <2>1, <3>1, InsertEffect
    <3> QED BY <2>1, <3>1, <3>2, InsertEffect
  <2>2. CASE Renew(w)
    BY <1>2, <2>2, RenewEffect
  <2>3. CASE Succeed(w)
    <3>1. h[w].key = k
      BY <1>2, <2>3, SucceedEffect
    <3>2. row[k] # NoRow
      BY <2>3, <3>1 DEF Succeed, HandlerOK, Owning
    <3>3. /\ row'[k].status = "succeeded"
          /\ row'[k].attempts = row[k].attempts
          /\ row'[k].window = row[k].window
      BY <2>3, <3>1, SucceedEffect
    <3>4. row[k].window
      BY <3>2, <3>3 DEF LapsedOK
    <3> QED BY <3>3, <3>4
  <2>4. CASE Fail(w)
    <3>1. h[w].key = k
      BY <1>2, <2>4, FailEffect
    <3>2. row[k] # NoRow
      BY <2>4, <3>1 DEF Fail, HandlerOK, Owning
    <3>3. /\ row'[k].status = "failed"
          /\ row'[k].attempts = row[k].attempts
          /\ row'[k].window = row[k].window
      BY <2>4, <3>1, FailEffect
    <3>4. row[k].window
      BY <3>2, <3>3 DEF LapsedOK
    <3> QED BY <3>3, <3>4
  <2> QED BY <1>2, <2>1, <2>2, <2>3, <2>4
          DEF Step, ClaimRead, CheckActive, CreateFails, Create, SucceedFails, KeyStatementFails
<1>3. ASSUME NEW j \in Key, LeaseElapses(j) \/ WindowElapses(j), row'[k] # row[k]
      PROVE  FALSE
  <2>1. j = k
    BY <1>0, <1>3 DEF LeaseElapses, WindowElapses
  <2>2. row'[k].attempts = row[k].attempts /\ row[k].attempts < MaxAttempts
    BY <1>0, <1>3, <2>1 DEF LeaseElapses, WindowElapses, Lapsed
  <2> QED BY <2>2, RequestsAssumption
<1> QED BY <1>1, <1>2, <1>3 DEF Next, Arrive, TripEnds, Crash

\* The stored response stays, or becomes, a trip of the key.
LEMMA StoredStep ==
  ASSUME TypeOK, HandlerOK, StoredOK, Next
  PROVE  StoredOK'
<1> SUFFICES ASSUME NEW k \in Key, row'[k].status = "succeeded"
             PROVE  row'[k].body \in Made(k)'
  BY DEF StoredOK
<1>1. CASE row'[k].status = row[k].status /\ row'[k].body = row[k].body
  BY <1>1, MadeGrows DEF StoredOK
<1>2. CASE Decisive(k)
  <2>1. PICK w \in Worker :
          /\ h[w].key = k
          /\ \/ row[k] = NoRow /\ Insert(w)
             \/ Renew(w)
             \/ \E t \in Trip : Create(w, t)
             \/ Succeed(w)
             \/ Fail(w)
    BY <1>2 DEF Decisive
  <2>2. CASE row[k] = NoRow /\ Insert(w)
    BY <2>1, <2>2, InsertEffect
  <2>3. CASE Renew(w)
    BY <2>1, <2>3, RenewEffect
  <2>4. CASE \E t \in Trip : Create(w, t)
    BY <1>1, <2>4 DEF Create
  <2>5. CASE Succeed(w)
    <3>1. row'[k].body = h[w].trip /\ h[w].trip \in Made(k)
      BY <2>1, <2>5, SucceedEffect DEF Succeed, HandlerOK, Made
    <3> QED BY <3>1, MadeGrows
  <2>6. CASE Fail(w)
    BY <2>1, <2>6, FailEffect
  <2> QED BY <2>1, <2>2, <2>3, <2>4, <2>5, <2>6
<1> QED BY <1>1, <1>2, StepFromKey DEF Quiet

\* What a step tells a client is read from the row or has just been made.
LEMMA ToldStep ==
  ASSUME TypeOK, HandlerOK, StoredOK, ToldTripsExist, Next
  PROVE  ToldTripsExist'
<1> SUFFICES ASSUME NEW k \in Key, NEW p \in Passenger, NEW t \in Trip \cup {NoTrip},
                    <<k, p, t>> \in told'
             PROVE  t \in Made(k)'
  BY DEF ToldTripsExist
<1>1. CASE <<k, p, t>> \in told
  BY <1>1, MadeGrows DEF ToldTripsExist
<1>2. ASSUME NEW w \in Worker, ClaimRead(w), <<k, p, t>> \notin told
      PROVE  t \in Made(k)'
  <2>1. Stored(row[h[w].key]) /\ t = row[h[w].key].body /\ k = h[w].key
    BY <1>2 DEF ClaimRead
  <2>2. t \in Made(k)
    BY <2>1 DEF StoredOK, Stored
  <2> QED BY <2>2, MadeGrows
<1>3. ASSUME NEW w \in Worker, Succeed(w), <<k, p, t>> \notin told
      PROVE  t \in Made(k)'
  <2>1. t = h[w].trip /\ k = h[w].key
    BY <1>3 DEF Succeed
  <2>2. t \in Made(k)
    BY <1>3, <2>1 DEF Succeed, HandlerOK, Made
  <2> QED BY <2>2, MadeGrows
<1>4. ASSUME NEW w \in Worker, Step(w)
      PROVE  told' = told \/ ClaimRead(w) \/ Succeed(w)
  BY <1>4 DEF Step, Insert, Renew, CheckActive, CreateFails, Create, SucceedFails, Fail,
              KeyStatementFails
<1>5. told' = told \/ \E w \in Worker : ClaimRead(w) \/ Succeed(w)
  BY <1>4 DEF Next, Arrive, LeaseElapses, WindowElapses, TripEnds, Crash
<1> QED BY <1>1, <1>2, <1>3, <1>5

\* The number of faults is a number.
LEMMA FaultsTyped == TypeOK' => faults' \in Nat
BY RequestsAssumption DEF TypeOK

\* Until the first renewal every decisive step is taken by the only owner.
LEMMA KeyStep ==
  ASSUME TypeOK, HandlerOK, FirstAttemptOK, TypeOK', Next, NEW k \in Key
  PROVE  KeyOK(k)'
<1>0. KeyOK(k) /\ faults \in Nat
  BY RequestsAssumption DEF FirstAttemptOK, TypeOK
<1>1. CASE Quiet(k)
  <2>1. Owners(k)' \subseteq Owners(k) /\ Made(k)' = Made(k) /\ (faults' = 0 => faults = 0)
    BY <1>0, <1>1, FaultsTyped DEF Quiet, Owners, Owning
  <2>2. row'[k] = NoRow => Made(k)' = {}
    <3>1. row'[k] = NoRow => row[k] = NoRow
      BY RowsStay
    <3> QED BY <1>0, <2>1, <3>1 DEF KeyOK
  <2>3. ASSUME row'[k].attempts = 1
        PROVE  /\ \A v, w \in Owners(k)' : v = w
               /\ \A t, u \in Made(k)' : t = u
               /\ row'[k].status = "failed" /\ faults' = 0 => Made(k)' = {}
    <3>1. row[k].attempts = 1 /\ row'[k].status = row[k].status
      BY <1>1, <2>3 DEF Quiet
    <3> QED BY <1>0, <2>1, <3>1 DEF KeyOK
  <2>4. ASSUME row'[k].attempts = 1, NEW w \in Owners(k)'
        PROVE  /\ row'[k].status = "in_progress"
               /\ h'[w].pc \in {"check", "create"} => Made(k)' = {}
               /\ h'[w].pc = "succeed" => Made(k)' \subseteq {h'[w].trip}
               /\ h'[w].pc = "fail" /\ faults' = 0 => Made(k)' = {}
    <3>1. row[k].attempts = 1 /\ row'[k].status = row[k].status /\ w \in Owners(k)
      BY <1>1, <2>1, <2>4 DEF Quiet
    <3>2. /\ row[k].status = "in_progress"
          /\ h[w].pc \in {"check", "create"} => Made(k) = {}
          /\ h[w].pc = "succeed" => Made(k) \subseteq {h[w].trip}
          /\ h[w].pc = "fail" /\ faults = 0 => Made(k) = {}
      BY <1>0, <3>1 DEF KeyOK
    <3>3. /\ h'[w].pc \in {"check", "create"} => h[w].pc \in {"check", "create"}
          /\ h'[w].pc = "succeed" => h[w].pc = "succeed" /\ h'[w].trip = h[w].trip
          /\ h'[w].pc = "fail" => h[w].pc \in {"check", "create", "fail"} \/ faults' > 0
      BY <1>1, <2>4 DEF Quiet, Owners, Owning
    <3> QED BY <2>1, <3>1, <3>2, <3>3
  <2> QED BY <2>2, <2>3, <2>4 DEF KeyOK
<1>2. CASE Decisive(k)
  <2>1. PICK w \in Worker :
          /\ h[w].key = k
          /\ \/ row[k] = NoRow /\ Insert(w)
             \/ Renew(w)
             \/ \E t \in Trip : Create(w, t)
             \/ Succeed(w)
             \/ Fail(w)
    BY <1>2 DEF Decisive
  <2>2. CASE row[k] = NoRow /\ Insert(w)
    <3>1. Owners(k) = {} /\ Made(k) = {}
      BY <1>0, <2>2 DEF Owners, HandlerOK, Owning, KeyOK
    <3>2. /\ row'[k].status = "in_progress"
          /\ trips' = trips
          /\ h'[w].pc = "check" /\ h'[w].key = k
          /\ \A v \in Worker : v # w => h'[v] = h[v]
      BY <2>1, <2>2, InsertEffect
    <3>3. Made(k)' = {} /\ row'[k] # NoRow
      BY <3>1, <3>2 DEF Made, NoRow
    <3>4. Owners(k)' = {w}
      BY <3>1, <3>2 DEF Owners
    <3> QED BY <3>2, <3>3, <3>4 DEF KeyOK
  <2>3. CASE Renew(w)
    <3>1. row'[k].attempts \in 2 .. MaxAttempts /\ row'[k].status = "in_progress"
      BY <2>1, <2>3, RenewEffect
    <3>2. row'[k].attempts # 1 /\ row'[k] # NoRow
      BY <3>1, RequestsAssumption DEF NoRow
    <3> QED BY <3>2 DEF KeyOK
  <2>4. ASSUME NEW t \in Trip, Create(w, t)
        PROVE  KeyOK(k)'
    <3>1. h[w].pc = "create" /\ h[w].passenger \in Passenger /\ row[k] # NoRow
      BY <2>1, <2>4 DEF Create, HandlerOK, Owning
    <3>2. /\ row' = row /\ trips[t] = NotCreated
          /\ trips'[t] # NotCreated /\ trips'[t].key = k
          /\ \A u \in Trip : u # t => trips'[u] = trips[u]
          /\ h'[w].pc = "succeed" /\ h'[w].key = k /\ h'[w].trip = t
          /\ \A v \in Worker : v # w => h'[v] = h[v]
      BY <2>1, <2>4, <3>1, CreateFacts DEF Create
    <3>3. ASSUME row[k].attempts = 1
          PROVE  /\ row[k].status = "in_progress"
                 /\ Owners(k)' = {w}
                 /\ Made(k)' = {t}
      <4>1. w \in Owners(k)
        BY <2>1, <3>1 DEF Owners
      <4>2. row[k].status = "in_progress" /\ Made(k) = {} /\ \A v \in Owners(k) : v = w
        BY <1>0, <3>1, <3>3, <4>1 DEF KeyOK
      <4>3. Made(k)' = {t}
        BY <3>2, <4>2 DEF Made
      <4>4. Owners(k)' = {w}
        BY <3>2, <4>2 DEF Owners
      <4> QED BY <4>2, <4>3, <4>4
    <3> QED BY <3>1, <3>2, <3>3 DEF KeyOK
  <2>5. CASE Succeed(w) \/ Fail(w)
    <3>1. w \in Owners(k) /\ row[k] # NoRow
      BY <2>1, <2>5 DEF Succeed, Fail, Owners, HandlerOK, Owning
    <3>2. /\ row'[k].status \in {"succeeded", "failed"}
          /\ row'[k].status = "failed" => Fail(w)
          /\ row'[k].attempts = row[k].attempts
          /\ trips' = trips /\ faults' = faults
          /\ h'[w].pc = "idle"
          /\ \A v \in Worker : v # w => h'[v] = h[v]
      BY <2>1, <2>5, SucceedEffect, FailEffect
    <3>3. Made(k)' = Made(k) /\ row'[k] # NoRow
      BY <3>2 DEF Made, NoRow
    <3>4. ASSUME row[k].attempts = 1
          PROVE  /\ Owners(k)' = {}
                 /\ \A t, u \in Made(k) : t = u
                 /\ Fail(w) /\ faults = 0 => Made(k) = {}
      <4>1. \A v \in Owners(k) : v = w
        BY <1>0, <3>1, <3>4 DEF KeyOK
      <4>2. Owners(k)' = {}
        BY <3>2, <4>1 DEF Owners
      <4>3. Fail(w) /\ faults = 0 => Made(k) = {}
        BY <1>0, <3>1, <3>4 DEF KeyOK, Fail
      <4>4. \A t, u \in Made(k) : t = u
        BY <1>0, <3>4 DEF KeyOK
      <4> QED BY <4>2, <4>3, <4>4
    <3> QED BY <3>2, <3>3, <3>4 DEF KeyOK
  <2> QED BY <2>1, <2>2, <2>3, <2>4, <2>5
<1> QED BY <1>1, <1>2, StepFromKey

----------------------------------------------------------------------------
(* Theorems *)

\* The invariant is inductive.
LEMMA NextInv == IInv /\ [Next]_vars => IInv'
<1> SUFFICES ASSUME IInv, [Next]_vars PROVE IInv'
  OBVIOUS
<1>1. CASE Next
  BY <1>1, TypeStep, HandlerStep, LapsedStep, StoredStep, ToldStep, KeyStep
     DEF IInv, FirstAttemptOK
<1>2. CASE UNCHANGED vars
  BY <1>2 DEF vars, IInv, TypeOK, HandlerOK, LapsedOK, StoredOK, ToldTripsExist,
              FirstAttemptOK, KeyOK, Made, Owners
<1> QED BY <1>1, <1>2

\* The inductive invariant holds in every reachable state.
THEOREM RequestsInvariance == Spec => []IInv
BY InitInv, NextInv, PTL DEF Spec

\* Every reachable state is well typed.
THEOREM RequestsTyped == Spec => []TypeOK
<1>1. IInv => TypeOK
  BY DEF IInv
<1> QED BY <1>1, RequestsInvariance, PTL

\* However many requests repeat a key, whatever fails and whenever the lease elapses: a
\* key that was not renewed has one owner and one trip at most.
THEOREM FirstClaimWins == Spec => []OneTripPerKey
<1>1. IInv => OneTripPerKey
  BY DEF IInv, FirstAttemptOK, KeyOK, OneTripPerKey
<1> QED BY <1>1, RequestsInvariance, PTL

\* A client is only ever told of trips that were committed under its key.
THEOREM AnswersAreTrue == Spec => []ToldTripsExist
<1>1. IInv => ToldTripsExist
  BY DEF IInv
<1> QED BY <1>1, RequestsInvariance, PTL

\* Without faults, a key that failed at the first attempt has made no trip.
THEOREM FailureIsClean == Spec => []FailedMadeNothing
<1>1. IInv => FailedMadeNothing
  BY DEF IInv, FirstAttemptOK, KeyOK, FailedMadeNothing
<1> QED BY <1>1, RequestsInvariance, PTL

\* Until a key is renewed, its outcome and stored response stay what they are.
THEOREM OutcomeStays == Spec => OutcomeIsFinal
<1> DEFINE Stays ==
      \A k \in Key :
        row[k].attempts = 1 /\ row[k].status \in {"succeeded", "failed"} =>
          \/ row'[k].attempts > 1
          \/ row'[k].status = row[k].status /\ row'[k].body = row[k].body
<1>1. ASSUME IInv, Next
      PROVE  Stays
  <2> SUFFICES ASSUME NEW k \in Key,
                      row[k].attempts = 1, row[k].status \in {"succeeded", "failed"}
               PROVE  \/ row'[k].attempts > 1
                      \/ row'[k].status = row[k].status /\ row'[k].body = row[k].body
    OBVIOUS
  <2>1. CASE Quiet(k)
    BY <2>1 DEF Quiet
  <2>2. CASE Decisive(k)
    <3>1. PICK w \in Worker :
            /\ h[w].key = k
            /\ \/ row[k] = NoRow /\ Insert(w)
               \/ Renew(w)
               \/ \E t \in Trip : Create(w, t)
               \/ Succeed(w)
               \/ Fail(w)
      BY <2>2 DEF Decisive
    <3>2. Owners(k) = {} /\ row[k] # NoRow
      BY <1>1 DEF IInv, FirstAttemptOK, KeyOK, NoRow
    <3>3. h[w].pc \notin {"check", "create", "succeed", "fail"}
      BY <3>1, <3>2 DEF Owners
    <3>4. Renew(w)
      BY <3>1, <3>2, <3>3 DEF Create, Succeed, Fail
    <3>5. row'[k].attempts \in 2 .. MaxAttempts
      BY <1>1, <3>1, <3>4, RenewEffect DEF IInv
    <3> QED BY <3>5, RequestsAssumption
  <2> QED BY <1>1, <2>1, <2>2, StepFromKey DEF IInv
<1>2. ASSUME IInv, [Next]_vars
      PROVE  [Stays]_vars
  <2>1. CASE Next
    BY <1>1, <1>2, <2>1
  <2>2. CASE UNCHANGED vars
    BY <2>2
  <2> QED BY <1>2, <2>1, <2>2
<1>3. IInv /\ [Next]_vars => [Stays]_vars
  BY <1>2
<1>4. Spec => [][Stays]_vars
  BY <1>3, RequestsInvariance, PTL DEF Spec
<1> QED BY <1>4 DEF OutcomeIsFinal
=============================================================================
