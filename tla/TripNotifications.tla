------------------------- MODULE TripNotifications -------------------------
(***************************************************************************)
(* What the passenger and the drivers of a trip are told over their        *)
(* sockets: the domain events trip.service.ts and trip-helpers.service.ts  *)
(* emit, the listeners of realtime/listeners/trip-events.listener.ts, the  *)
(* publisher behind them and the rooms the gateways fill.                  *)
(*                                                                         *)
(* The trip itself takes the steps of TripLifecycle, which TripDispatch    *)
(* implements.  Modelled here is when an event leaves each handler:        *)
(* inside the transaction (AssigningStarted, NoDriversFound of an expiry), *)
(* right after the commit, or after the commit and one more read.  Events  *)
(* live in memory only; what nobody is connected to hear is not repeated.  *)
(*                                                                         *)
(* Administrators are left out: what is sent to their namespace is sent to *)
(* rooms of trips, which no socket joins, and copied to all who are there. *)
(***************************************************************************)
EXTENDS Naturals, FiniteSets

CONSTANTS
  Trip, Driver, NoDriver,
  Passenger,           \* the passenger of every trip
  Bystander,           \* other passengers connected to the server
  MaxFaults,           \* bound on crashes, rollbacks, disconnections, failed reads
  MaxWaiting           \* bound on batches and events on their way to the sockets

ASSUME NotificationAssumption ==
  /\ NoDriver \notin Driver /\ Passenger \notin Driver \cup Bystander
  /\ Bystander \cap Driver = {}
  /\ MaxFaults \in Nat /\ MaxWaiting \in Nat

VARIABLES
  status, driver, holder,  \* the trip, as in TripLifecycle (committed)
  first,      \* trips whose startAssigning has yet to finish its first matching
  open,       \* open[t]: the transaction of t that has emitted and not yet committed
  log,        \* trip_events rows
  due,        \* batches of events a handler has yet to emit, its transaction committed
  inflight,   \* events emitted whose listener has not published yet
  online,     \* users with a socket in their room
  told,       \* messages that reached their user
  lost,       \* messages that a crash, a failed read or a closed socket took
  retracted,  \* events emitted by transactions that were rolled back
  faults

tripState == <<status, driver, holder, first>>
chain == <<due, inflight>>
heardState == <<told, lost>>
vars == <<tripState, open, log, chain, online, heardState, retracted, faults>>

L == INSTANCE TripLifecycle

User == Driver \cup {Passenger} \cup Bystander
Types == {"requested", "assigning", "offered", "no_drivers", "accepted", "assigned",
          "arriving", "en_route", "arrived", "started", "completed"}
Event == [type : Types, trip : Trip, to : Driver \cup {NoDriver}]
\* Steps that no passenger or driver is told of.
Silent == {"rejected", "expired", "closed_by_hand"}
LogTypes == (Types \ {"arriving"}) \cup Silent
Row == [type : LogTypes, trip : Trip, to : Driver \cup {NoDriver}]
\* Who hears it and in whose room: by broadcast others hear it too.
Message == User \X User \X Types \X Trip

Ev(type, t, d) == [type |-> type, trip |-> t, to |-> d]
Offered(t) == {e.to : e \in {f \in log : f.type = "offered" /\ f.trip = t}}

TypeOK ==
  /\ status \in [Trip -> {"none", "pending", "assigning", "accepted", "arriving",
                          "in_progress", "completed", "no_drivers_found"}]
  /\ driver \in [Trip -> Driver \cup {NoDriver}]
  /\ holder \in [Trip -> Driver \cup {NoDriver}]
  /\ first \subseteq Trip
  /\ open \in [Trip -> {"none", "start", "expire"}]
  /\ log \subseteq Row
  /\ due \subseteq SUBSET Event
  /\ inflight \subseteq Event
  /\ online \subseteq User
  /\ told \subseteq Message /\ lost \subseteq Message
  /\ retracted \subseteq Event
  /\ faults \in 0 .. MaxFaults

----------------------------------------------------------------------------
(* The publisher: whom each message is sent to.  pax is {Passenger}, or {}  *)
(* when the listener could not find the passenger.                          *)

Namespace(r) == IF r \in Driver THEN Driver ELSE User \ Driver

\* 'debug:offered:broadcast': room, event and payload for every socket of the namespace.
Broadcast(rooms, e) ==
  UNION {{<<u, r, e.type, e.trip>> : u \in Namespace(r)} : r \in rooms}

\* emitTo broadcasts what it sends to a room first.
Rooms(users, e) == {<<u, u, e.type, e.trip>> : u \in users}
To(users, e) == Broadcast(users, e) \cup Rooms(users, e)

tripRequested(e) == To({Passenger}, e)
assigningStarted(e) == To({Passenger}, e)
driverOffered(e) == Broadcast({e.to}, e) \cup To({e.to}, e)
noDriversFound(e, pax) == To(pax, e)
driverAssigned(e, pax) == To(pax \cup {e.to}, e)
arrivingStarted(e) == To({Passenger, e.to}, e)
driverEnRoute(e, pax) == To(pax \cup {e.to}, e)
driverArrivedPickup(e, pax) == To(pax \cup {e.to}, e)
tripStarted(e, pax) == To(pax \cup {e.to}, e)
tripCompleted(e, pax) == To(pax \cup {e.to}, e)

\* The passenger hears of the assignment twice: here as well, as a mirror.  Nothing is
\* broadcast.
emitDriverAcceptedToPassenger(e) ==
  Rooms({Passenger}, e) \cup Rooms({Passenger}, Ev("assigned", e.trip, e.to))

\* What the listeners publish for an event when their reads succeed.
Heard(e) ==
  LET pax == {Passenger} IN
  CASE e.type = "requested"  -> tripRequested(e)
    [] e.type = "assigning"  -> assigningStarted(e)
    [] e.type = "offered"    -> driverOffered(e)
    [] e.type = "no_drivers" -> noDriversFound(e, pax)
    [] e.type = "accepted"   -> emitDriverAcceptedToPassenger(e)
    [] e.type = "assigned"   -> driverAssigned(e, pax)
    [] e.type = "arriving"   -> arrivingStarted(e)
    [] e.type = "en_route"   -> driverEnRoute(e, pax)
    [] e.type = "arrived"    -> driverArrivedPickup(e, pax)
    [] e.type = "started"    -> tripStarted(e, pax)
    [] e.type = "completed"  -> tripCompleted(e, pax)

----------------------------------------------------------------------------
\* Everybody is connected at first; a user who is not is one whose socket closed.
Init ==
  /\ L!Init
  /\ first = {}
  /\ open = [t \in Trip |-> "none"]
  /\ log = {}
  /\ due = {} /\ inflight = {}
  /\ online = User
  /\ told = {} /\ lost = {}
  /\ retracted = {}
  /\ faults = 0

Room == Cardinality(due) + Cardinality(inflight) < MaxWaiting

Fault == faults < MaxFaults /\ faults' = faults + 1

\* A transaction commits its trip_events rows; its handler emits the batch later.
Commits(rows, batch) ==
  /\ Room
  /\ log' = log \cup rows
  /\ due' = due \cup {batch}
  /\ UNCHANGED <<open, inflight, online, heardState, retracted, faults>>

(* requestTrip; the event is emitted after the trip is read again. *)
RequestTrip(t) ==
  LET e == Ev("requested", t, NoDriver) IN
  /\ L!Request(t)
  /\ Commits({e}, {e})
  /\ UNCHANGED first

----------------------------------------------------------------------------
(* Transactions that emit before they commit; the trip's row stays locked.  *)

Uncommitted(t) ==
  CASE open[t] = "start"  -> {Ev("assigning", t, NoDriver)}
    [] open[t] = "expire" -> {Ev("no_drivers", t, NoDriver)}
    [] OTHER -> {}

\* The transaction has made its changes, and emits.
Opens(t, name, e) ==
  /\ Room
  /\ open[t] = "none"
  /\ open' = [open EXCEPT ![t] = name]
  /\ inflight' = inflight \cup {e}
  /\ UNCHANGED <<tripState, log, due, online, heardState, retracted, faults>>

StartAssigning(t) ==
  /\ status[t] = "pending"
  /\ Opens(t, "start", Ev("assigning", t, NoDriver))

\* expireAssignment, when its matching made no offer.
ExpireFindsNobody(t) ==
  /\ status[t] = "assigning"
  /\ Offered(t) # {}
  /\ Opens(t, "expire", Ev("no_drivers", t, NoDriver))

Commit(t) ==
  /\ \/ open[t] = "start" /\ L!Assigning(t) /\ first' = first \cup {t}
     \/ open[t] = "expire" /\ L!Close(t) /\ UNCHANGED first
  /\ log' = log \cup Uncommitted(t)
  /\ open' = [open EXCEPT ![t] = "none"]
  /\ UNCHANGED <<chain, online, heardState, retracted, faults>>

\* cancelAllActiveOffers or the commit itself fails.
RollBack(t) ==
  /\ open[t] # "none"
  /\ Fault
  /\ retracted' = retracted \cup Uncommitted(t)
  /\ open' = [open EXCEPT ![t] = "none"]
  /\ UNCHANGED <<tripState, log, chain, online, heardState>>

----------------------------------------------------------------------------
(* Matching and closing *)

\* Slip: startAssigning does not see that its matching made an offer.
OfferUnnoticed(t, d) ==
  LET e == Ev("offered", t, d) IN
  /\ open[t] = "none"
  /\ t \in first \/ Offered(t) # {}
  /\ d \notin Offered(t)
  /\ L!Offer(t, d)
  /\ Commits({e}, {e})
  /\ UNCHANGED first

\* The first offer of a trip is startAssigning's; a later one follows an answer.
Offer(t, d) ==
  LET e == Ev("offered", t, d) IN
  /\ open[t] = "none"
  /\ t \in first \/ Offered(t) # {}
  /\ d \notin Offered(t)
  /\ L!Offer(t, d)
  /\ first' = first \ {t}
  /\ Commits({e}, {e})

\* rejectAssignment, expireAssignment: their events go to the administrators only.  The
\* row is appended even if the offer was answered since it was read.
AnswerOffer(t, d, type) ==
  /\ type \in {"rejected", "expired"}
  /\ d \in Offered(t)
  /\ \/ holder[t] = d /\ L!Withdraw(t)
     \/ holder[t] # d /\ UNCHANGED <<status, driver, holder>>
  /\ log' = log \cup {Ev(type, t, d)}
  /\ UNCHANGED <<first, open, chain, online, heardState, retracted, faults>>

\* The first matching made no offer.  NoDriversFound is emitted after the transaction
\* whether or not that transaction found the trip still to be closed.
StartFindsNobody(t) ==
  LET e == Ev("no_drivers", t, NoDriver) IN
  /\ t \in first
  /\ open[t] = "none"
  /\ first' = first \ {t}
  /\ \/ L!Close(t) /\ Commits({e}, {e})
     \/ /\ status[t] \notin {"pending", "assigning"}
        /\ Commits({}, {e})
        /\ UNCHANGED <<status, driver, holder>>

\* Slip: a status the table does not know.
CloseAsCancelled(t) ==
  /\ open[t] = "none"
  /\ status[t] \in {"pending", "assigning"}
  /\ status' = [status EXCEPT ![t] = "cancelled"]
  /\ log' = log \cup {Ev("closed_by_hand", t, NoDriver)}
  /\ UNCHANGED <<driver, holder, first, open, chain, online, heardState, retracted, faults>>

\* The endpoint closes the trip and emits nothing.
MarkTripNoDriversFound(t) ==
  /\ open[t] = "none"
  /\ L!Close(t)
  /\ log' = log \cup {Ev("closed_by_hand", t, NoDriver)}
  /\ UNCHANGED <<first, open, chain, online, heardState, retracted, faults>>

Accept(t) ==
  LET both == {Ev(type, t, holder[t]) : type \in {"accepted", "assigned"}} IN
  /\ open[t] = "none"
  /\ L!Take(t)
  /\ Commits(both, both)
  /\ UNCHANGED first

----------------------------------------------------------------------------
(* The ride; every step but the last is emitted after one more read.        *)

\* Status and driver are read under the lock of the row.
Ride(t, from, type) ==
  /\ status[t] \in from
  /\ Commits({Ev(type, t, driver[t])}, {Ev(type, t, driver[t])})
  /\ UNCHANGED <<driver, holder, first>>

SetStatus(t, to) == status' = [status EXCEPT ![t] = to]

\* startArriving emits two events for one row.
StartArriving(t) ==
  /\ L!Move(t, {"accepted"}, "arriving")
  /\ Commits({Ev("en_route", t, driver[t])},
             {Ev(type, t, driver[t]) : type \in {"arriving", "en_route"}})
  /\ UNCHANGED <<driver, holder, first>>

\* The driver may report again, with the same messages; here he reports once.
MarkArrivedPickup(t) ==
  /\ Ev("arrived", t, driver[t]) \notin log
  /\ Ride(t, {"accepted", "arriving"}, "arrived")
  /\ UNCHANGED status

StartTrip(t) == Ride(t, {"accepted", "arriving"}, "started") /\ SetStatus(t, "in_progress")
CompleteTrip(t) == Ride(t, {"in_progress"}, "completed") /\ SetStatus(t, "completed")

----------------------------------------------------------------------------
(* From the handler to the listeners *)

\* Batches that wait for a read after their commit.
ReadFirst(b) == \E e \in b : e.type \in {"requested", "en_route", "arrived", "started"}

Emit(b) ==
  /\ b \in due
  /\ due' = due \ {b}
  /\ inflight' = inflight \cup b
  /\ UNCHANGED <<tripState, open, log, online, heardState, retracted, faults>>

\* The read fails, and the handler with it: the trip has moved and nobody is told.
EmitFails(b) ==
  /\ b \in due
  /\ ReadFirst(b)
  /\ Fault
  /\ due' = due \ {b}
  /\ lost' = lost \cup UNION {Heard(e) : e \in b}
  /\ UNCHANGED <<tripState, open, log, inflight, online, told, retracted>>

----------------------------------------------------------------------------
(* The listeners *)

\* A message goes to the sockets that are in its room at that moment.
Publish(e, type, messages, unheard) ==
  /\ e.type = type
  /\ inflight' = inflight \ {e}
  /\ told' = told \cup {m \in messages : m[1] \in online}
  /\ lost' = lost \cup unheard \cup {m \in messages : m[1] \notin online}
  /\ UNCHANGED <<tripState, open, log, due, online, retracted>>

OnTripRequested(e) == Publish(e, "requested", tripRequested(e), {}) /\ UNCHANGED faults
OnAssigningStarted(e) == Publish(e, "assigning", assigningStarted(e), {}) /\ UNCHANGED faults
OnDriverOffered(e) == Publish(e, "offered", driverOffered(e), {}) /\ UNCHANGED faults
OnArrivingStarted(e) == Publish(e, "arriving", arrivingStarted(e), {}) /\ UNCHANGED faults

\* getPassengerId: a failed read is caught, and there is no passenger to tell.
Found(pax) == pax = {Passenger} /\ UNCHANGED faults
NotFound(pax) == pax = {} /\ Fault
GetPassengerId(pax) == Found(pax) \/ NotFound(pax)
Untold(e, pax) == To({Passenger} \ pax, e)

OnNoDriversFound(e, pax) ==
  GetPassengerId(pax) /\ Publish(e, "no_drivers", noDriversFound(e, pax), Untold(e, pax))
OnDriverEnRoute(e, pax) ==
  GetPassengerId(pax) /\ Publish(e, "en_route", driverEnRoute(e, pax), Untold(e, pax))
OnDriverArrivedPickup(e, pax) ==
  GetPassengerId(pax) /\ Publish(e, "arrived", driverArrivedPickup(e, pax), Untold(e, pax))
OnTripStarted(e, pax) ==
  GetPassengerId(pax) /\ Publish(e, "started", tripStarted(e, pax), Untold(e, pax))

\* Slip: without a passenger the listener returns before it has told the driver.
OnTripCompletedPassengerOnly(e, pax) ==
  GetPassengerId(pax)
  /\ Publish(e, "completed", IF pax = {} THEN {} ELSE tripCompleted(e, pax), Untold(e, pax))
OnTripCompleted(e, pax) ==
  GetPassengerId(pax) /\ Publish(e, "completed", tripCompleted(e, pax), Untold(e, pax))

\* These two do not catch a failed read: nobody is told, the driver neither.
OnDriverAccepted(e, pax) ==
  \/ Found(pax) /\ Publish(e, "accepted", emitDriverAcceptedToPassenger(e), {})
  \/ NotFound(pax) /\ Publish(e, "accepted", {}, emitDriverAcceptedToPassenger(e))
OnDriverAssigned(e, pax) ==
  \/ Found(pax) /\ Publish(e, "assigned", driverAssigned(e, pax), {})
  \/ NotFound(pax) /\ Publish(e, "assigned", {}, driverAssigned(e, {Passenger}))

----------------------------------------------------------------------------
(* Sockets and the process *)

Connect(u) ==
  /\ u \notin online
  /\ online' = online \cup {u}
  /\ UNCHANGED <<tripState, open, log, chain, heardState, retracted, faults>>

Disconnect(u) ==
  /\ u \in online
  /\ Fault
  /\ online' = online \ {u}
  /\ UNCHANGED <<tripState, open, log, chain, heardState, retracted>>

\* Handlers and events in memory are gone; open transactions roll back.  The clients'
\* sockets reconnect on their own: one that is slow to do so is a Disconnect.
Crash ==
  /\ Fault
  /\ lost' = lost \cup UNION {Heard(e) : e \in inflight \cup UNION due}
  /\ retracted' = retracted \cup UNION {Uncommitted(t) : t \in Trip}
  /\ open' = [t \in Trip |-> "none"]
  /\ first' = {}
  /\ due' = {} /\ inflight' = {}
  /\ UNCHANGED <<status, driver, holder, log, online, told>>

----------------------------------------------------------------------------
Dispatch(t) ==
  \/ RequestTrip(t) \/ StartAssigning(t) \/ ExpireFindsNobody(t) \/ Commit(t) \/ RollBack(t)
  \/ StartFindsNobody(t) \/ MarkTripNoDriversFound(t) \/ Accept(t)
  \/ \E d \in Driver : Offer(t, d) \/ AnswerOffer(t, d, "rejected") \/ AnswerOffer(t, d, "expired")

OnTheRoad(t) ==
  StartArriving(t) \/ MarkArrivedPickup(t) \/ StartTrip(t) \/ CompleteTrip(t)

Listen(e) ==
  \/ OnTripRequested(e) \/ OnAssigningStarted(e) \/ OnDriverOffered(e) \/ OnArrivingStarted(e)
  \/ \E pax \in SUBSET {Passenger} :
       \/ OnNoDriversFound(e, pax) \/ OnDriverAccepted(e, pax) \/ OnDriverAssigned(e, pax)
       \/ OnDriverEnRoute(e, pax) \/ OnDriverArrivedPickup(e, pax)
       \/ OnTripStarted(e, pax) \/ OnTripCompleted(e, pax)

Next ==
  \/ \E t \in Trip : Dispatch(t) \/ OnTheRoad(t)
  \/ \E b \in due : Emit(b) \/ EmitFails(b)
  \/ \E e \in inflight : Listen(e)
  \/ \E u \in User : Connect(u) \/ Disconnect(u)
  \/ Crash

Spec == Init /\ [][Next]_vars

----------------------------------------------------------------------------
(* Safety *)

\* The events a row of trip_events stands for, if passengers or drivers get any.
EventsOf(row) ==
  IF row.type = "en_route" THEN {row, [row EXCEPT !.type = "arriving"]} ELSE {row}

\* Of a trip closed by hand, the first matching may still say that nobody was found.
Truth(row) ==
  IF row.type = "closed_by_hand" THEN {[row EXCEPT !.type = "no_drivers"]}
  ELSE IF row.type \in Silent THEN {} ELSE EventsOf(row)

\* Nobody is told of a step of a trip that its history does not hold, except by a
\* transaction that is still open or was rolled back, however the events of the handlers
\* overtake each other: "no drivers found" is sent to no passenger whose trip was
\* accepted, and a driver's room is sent only trips he was offered or assigned.  What is
\* sent to a room is no secret: everybody in its namespace hears it by broadcast, so a
\* driver hears of every offer and every ride of every other.
ToldIsLogged ==
  LET true == (UNION {Truth(row) : row \in log}) \cup retracted
                \cup (UNION {Uncommitted(t) : t \in Trip})
  IN  told \subseteq UNION {Heard(e) : e \in true}

\* When no event is waiting, every step in the history of a trip but three has been told
\* to the passenger and to the driver it concerns, with the copies for their namespaces,
\* or is known to have been lost to a closed socket, a failed read or a crash.  The three
\* are the rejection and the expiry of an offer and the closing by hand: no passenger and
\* no driver is ever told of those.
CaughtUp ==
  due = {} /\ inflight = {} =>
    \A row \in log : row.type \notin Silent =>
      \A e \in EventsOf(row) : Heard(e) \subseteq told \cup lost
=============================================================================
