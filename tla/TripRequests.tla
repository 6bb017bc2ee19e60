---------------------------- MODULE TripRequests ----------------------------
(***************************************************************************)
(* POST /trips: requestTrip of trip/services/trip.service.ts over the      *)
(* idempotency keys of core-settings.  A request with a key first claims   *)
(* it (claimOrGet), then creates the trip in one transaction, then stores  *)
(* the response under the key (succeed) or the failure (fail).  None of    *)
(* the statements on the key's row shares a transaction with another, so   *)
(* each is an action; the check for an active trip runs on a connection of *)
(* its own and is one as well.                                             *)
(***************************************************************************)
EXTENDS Naturals

CONSTANTS
  Key, Passenger, Trip,
  Worker,            \* requests that may be in flight at the same time
  NoKey, NoPassenger, NoTrip,
  MaxAttempts,       \* bound on attempt_count
  MaxFaults          \* bound on crashes and failed database calls

ASSUME RequestsAssumption ==
  /\ NoKey \notin Key
  /\ NoPassenger \notin Passenger
  /\ NoTrip \notin Trip
  /\ MaxAttempts \in Nat \ {0}
  /\ MaxFaults \in Nat

VARIABLES
  row,       \* idempotency_keys, by key
  trips,     \* the trips created: for which key and passenger, and whether still active
  h,         \* the requests in flight
  told,      \* <<key, passenger, trip>> of every success sent to a client
  faults

vars == <<row, trips, h, told, faults>>

----------------------------------------------------------------------------
(* Types *)

\* lease: locked_until is in the future; window: expires_at is.  body is the stored
\* response, attempts is attempt_count.  locked_until is null unless in progress.
NoRow == [status |-> "none", body |-> NoTrip, lease |-> FALSE, window |-> FALSE, attempts |-> 0]
Row ==
  [status : {"in_progress"}, body : Trip \cup {NoTrip}, lease : BOOLEAN, window : BOOLEAN,
   attempts : 1 .. MaxAttempts]
  \cup
  [status : {"succeeded", "failed"}, body : Trip \cup {NoTrip}, lease : {FALSE},
   window : BOOLEAN, attempts : 1 .. MaxAttempts]

NotCreated == [key |-> NoKey, passenger |-> NoPassenger, active |-> FALSE]
Created == [key : Key \cup {NoKey}, passenger : Passenger, active : BOOLEAN]

Idle == [pc |-> "idle", key |-> NoKey, passenger |-> NoPassenger, trip |-> NoTrip, seen |-> 0]
Request ==
  [pc : {"idle", "claim", "insert", "renew", "check", "create", "succeed", "fail"},
   key : Key \cup {NoKey},
   passenger : Passenger \cup {NoPassenger},
   trip : Trip \cup {NoTrip},
   seen : 0 .. MaxAttempts]

TypeOK ==
  /\ row \in [Key -> Row \cup {NoRow}]
  /\ trips \in [Trip -> Created \cup {NotCreated}]
  /\ h \in [Worker -> Request]
  /\ told \subseteq (Key \cup {NoKey}) \X Passenger \X Trip
  /\ faults \in 0 .. MaxFaults

----------------------------------------------------------------------------
(* Queries *)

Made(k) == {t \in Trip : trips[t] # NotCreated /\ trips[t].key = k}

\* findActiveByPassenger
HasActiveTrip(p) == \E t \in Trip : trips[t].passenger = p /\ trips[t].active

\* Requests that claimOrGet let through for key k.
Owners(k) == {w \in Worker : h[w].key = k /\ h[w].pc \in {"check", "create", "succeed", "fail"}}

Goto(w, pc) == h' = [h EXCEPT ![w].pc = pc]
Done(w) == h' = [h EXCEPT ![w] = Idle]

\* Where a request goes after an error: the key, if any, is marked failed.
Failing(w) == IF h[w].key = NoKey THEN Done(w) ELSE Goto(w, "fail")

----------------------------------------------------------------------------
Init ==
  /\ row = [k \in Key |-> NoRow]
  /\ trips = [t \in Trip |-> NotCreated]
  /\ h = [w \in Worker |-> Idle]
  /\ told = {}
  /\ faults = 0

(* The header idempotency-key is optional. *)
Arrive(w, k, p) ==
  /\ h[w] = Idle
  /\ h' = [h EXCEPT ![w] = [pc |-> IF k = NoKey THEN "check" ELSE "claim",
                            key |-> k, passenger |-> p, trip |-> NoTrip, seen |-> 0]]
  /\ UNCHANGED <<row, trips, told, faults>>

----------------------------------------------------------------------------
(* claimOrGet *)

\* Slip: a finished key is answered with its body, success or failure.
StoredAnyOutcome(r) == r.status \in {"succeeded", "failed"} /\ r.window

\* A stored success is returned within the window.
Stored(r) == r.status = "succeeded" /\ r.window

\* A stored failure, or a key another request is working on, is an error.
Refused(r) ==
  \/ r.status = "failed" /\ r.window
  \/ r.status = "in_progress" /\ r.lease

\* The key's row is read without a lock.  What is neither stored nor refused is up for
\* renewal.  user_id and request_hash are not compared with those of the request.
ClaimRead(w) ==
  LET k == h[w].key r == row[k] IN
  /\ h[w].pc = "claim"
  /\ \/ r = NoRow /\ Goto(w, "insert") /\ UNCHANGED told
     \/ /\ Stored(r)
        /\ told' = told \cup {<<k, h[w].passenger, r.body>>}
        /\ Done(w)
     \/ ~Stored(r) /\ Refused(r) /\ Done(w) /\ UNCHANGED told
     \/ /\ r # NoRow /\ ~Stored(r) /\ ~Refused(r)
        /\ h' = [h EXCEPT ![w].pc = "renew", ![w].seen = r.attempts]
        /\ UNCHANGED told
  /\ UNCHANGED <<row, trips, faults>>

Claimed(r, attempts) ==
  [status |-> "in_progress", body |-> r.body, lease |-> TRUE, window |-> TRUE,
   attempts |-> attempts]

\* Slip: no unique index, so both of two racing requests insert.
InsertTwice(w) ==
  /\ h[w].pc = "insert"
  /\ row' = [row EXCEPT ![h[w].key] = Claimed(NoRow, 1)]
  /\ Goto(w, "check")
  /\ UNCHANGED <<trips, told, faults>>

\* Inserting a key that has been inserted meanwhile is error 23505: read again.
Insert(w) ==
  LET k == h[w].key IN
  /\ h[w].pc = "insert"
  /\ IF row[k] = NoRow
     THEN row' = [row EXCEPT ![k] = Claimed(NoRow, 1)] /\ Goto(w, "check")
     ELSE UNCHANGED row /\ Goto(w, "claim")
  /\ UNCHANGED <<trips, told, faults>>

\* Slip: attempt_count stays.
RenewUncounted(w) ==
  LET k == h[w].key IN
  /\ h[w].pc = "renew"
  /\ row' = [row EXCEPT ![k] = Claimed(@, h[w].seen)]
  /\ h' = [h EXCEPT ![w].pc = "check", ![w].seen = 0]
  /\ UNCHANGED <<trips, told, faults>>

\* The renewal is unconditional: whoever has seen the lapsed row goes on.
Renew(w) ==
  LET k == h[w].key IN
  /\ h[w].pc = "renew"
  /\ row' = [row EXCEPT ![k] = Claimed(@, h[w].seen + 1)]
  /\ h' = [h EXCEPT ![w].pc = "check", ![w].seen = 0]
  /\ UNCHANGED <<trips, told, faults>>

----------------------------------------------------------------------------
(* The trip *)

CheckActive(w) ==
  /\ h[w].pc = "check"
  /\ IF HasActiveTrip(h[w].passenger) THEN Failing(w) ELSE Goto(w, "create")
  /\ UNCHANGED <<row, trips, told, faults>>

\* Slip: the trip is inserted outside the transaction and survives an error.
CreateUnrolled(w, t) ==
  /\ h[w].pc = "create"
  /\ trips[t] = NotCreated
  /\ trips' = [trips EXCEPT ![t] = [key |-> h[w].key, passenger |-> h[w].passenger,
                                    active |-> TRUE]]
  /\ \/ h' = [h EXCEPT ![w].pc = "succeed", ![w].trip = t]
     \/ Failing(w)
  /\ UNCHANGED <<row, told, faults>>

\* The transaction: the trip, its stops, the estimate and the event.
Create(w, t) ==
  /\ h[w].pc = "create"
  /\ trips[t] = NotCreated
  /\ trips' = [trips EXCEPT ![t] = [key |-> h[w].key, passenger |-> h[w].passenger,
                                    active |-> TRUE]]
  /\ h' = [h EXCEPT ![w].pc = "succeed", ![w].trip = t]
  /\ UNCHANGED <<row, told, faults>>

\* No stops, no price policy, an unknown category: the transaction rolls back.
CreateFails(w) ==
  /\ h[w].pc = "create"
  /\ Failing(w)
  /\ UNCHANGED <<row, trips, told, faults>>

\* Slip: locked_until is not reset.
SucceedLeased(r, t) ==
  [status |-> "succeeded", body |-> t, lease |-> r.lease, window |-> r.window,
   attempts |-> r.attempts]
Succeeded(r, t) ==
  [status |-> "succeeded", body |-> t, lease |-> FALSE, window |-> r.window,
   attempts |-> r.attempts]
Failed(r) ==
  [status |-> "failed", body |-> r.body, lease |-> FALSE, window |-> r.window,
   attempts |-> r.attempts]

\* succeed and fail update by key, whoever holds it.
Succeed(w) ==
  LET k == h[w].key t == h[w].trip IN
  /\ h[w].pc = "succeed"
  /\ row' = IF k = NoKey THEN row ELSE [row EXCEPT ![k] = Succeeded(@, t)]
  /\ told' = told \cup {<<k, h[w].passenger, t>>}
  /\ Done(w)
  /\ UNCHANGED <<trips, faults>>

\* Reading the trip back, or storing the response, throws after the commit.
SucceedFails(w) ==
  /\ h[w].pc = "succeed"
  /\ faults < MaxFaults
  /\ faults' = faults + 1
  /\ Failing(w)
  /\ UNCHANGED <<row, trips, told>>

Fail(w) ==
  /\ h[w].pc = "fail"
  /\ row' = [row EXCEPT ![h[w].key] = Failed(@)]
  /\ Done(w)
  /\ UNCHANGED <<trips, told, faults>>

\* A statement on the key's row throws: the key stays as it is.
KeyStatementFails(w) ==
  /\ h[w].pc \in {"claim", "insert", "renew", "fail"}
  /\ faults < MaxFaults
  /\ faults' = faults + 1
  /\ Done(w)
  /\ UNCHANGED <<row, trips, told>>

----------------------------------------------------------------------------
(* The environment.  The clock of a key stops at its MaxAttempts-th attempt. *)

Lapsed(r, window) ==
  [status |-> r.status, body |-> r.body, lease |-> FALSE, window |-> window,
   attempts |-> r.attempts]

\* 30 seconds since the claim, whether or not the request is still in flight.
LeaseElapses(k) ==
  /\ row[k].lease
  /\ row[k].attempts < MaxAttempts
  /\ row' = [row EXCEPT ![k] = Lapsed(@, row[k].window)]
  /\ UNCHANGED <<trips, h, told, faults>>

\* One hour since the claim.
WindowElapses(k) ==
  /\ row[k].window
  /\ row[k].attempts < MaxAttempts
  /\ row' = [row EXCEPT ![k] = Lapsed(@, FALSE)]
  /\ UNCHANGED <<trips, h, told, faults>>

TripEnds(t) ==
  /\ trips[t].active
  /\ trips' = [trips EXCEPT ![t].active = FALSE]
  /\ UNCHANGED <<row, h, told, faults>>

Crash ==
  /\ faults < MaxFaults
  /\ faults' = faults + 1
  /\ h' = [w \in Worker |-> Idle]
  /\ UNCHANGED <<row, trips, told>>

----------------------------------------------------------------------------
Step(w) ==
  \/ ClaimRead(w) \/ Insert(w) \/ Renew(w)
  \/ CheckActive(w) \/ CreateFails(w)
  \/ \E t \in Trip : Create(w, t)
  \/ Succeed(w) \/ SucceedFails(w) \/ Fail(w) \/ KeyStatementFails(w)

Next ==
  \/ \E w \in Worker, k \in Key \cup {NoKey}, p \in Passenger : Arrive(w, k, p)
  \/ \E w \in Worker : Step(w)
  \/ \E k \in Key : LeaseElapses(k) \/ WindowElapses(k)
  \/ \E t \in Trip : TripEnds(t)
  \/ Crash

Spec == Init /\ [][Next]_vars

----------------------------------------------------------------------------
(* Safety *)

\* A key that was never renewed has one owner at most and has made one trip at most,
\* however often the client repeats the request, whatever fails, and even when the
\* lease elapses under a slow request: the race to insert has a single winner.
OneTripPerKey ==
  \A k \in Key : row[k].attempts = 1 =>
    /\ \A v, w \in Owners(k) : v = w
    /\ \A t, u \in Made(k) : t = u

\* What a client is told, at once or from the stored response, is a trip that was
\* committed under the key the client used.
ToldTripsExist ==
  \A k \in Key, p \in Passenger, t \in Trip \cup {NoTrip} : <<k, p, t>> \in told => t \in Made(k)

\* A key that is FAILED after its first attempt, with no fault after the commit, has
\* made no trip: the passenger who is told it failed is not being looked for a driver.
FailedMadeNothing ==
  \A k \in Key :
    faults = 0 /\ row[k].status = "failed" /\ row[k].attempts = 1 => Made(k) = {}

\* Outside a renewal a finished key keeps its outcome: succeed and fail write by key
\* and check neither the status nor the owner.
OutcomeIsFinal ==
  [][\A k \in Key :
       row[k].attempts = 1 /\ row[k].status \in {"succeeded", "failed"} =>
         \/ row'[k].attempts > 1
         \/ row'[k].status = row[k].status /\ row'[k].body = row[k].body]_vars
=============================================================================
