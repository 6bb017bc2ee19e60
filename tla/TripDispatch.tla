--------------------------- MODULE TripDispatch ----------------------------
(***************************************************************************)
(* The dispatch of trips to drivers: trip/services/trip.service.ts and     *)
(* trip-helpers.service.ts over the trip and trip_assignment repositories, *)
(* the in-memory expiry timers of assignment-expiry.scheduler.ts and the   *)
(* auto-arriving orchestrator.                                             *)
(*                                                                         *)
(* Every database transaction that locks the rows it decides on is one     *)
(* action.  What the code reads WITHOUT a lock (the offer that reject and  *)
(* expire look up, the three reads of the matching) is an action of its    *)
(* own, and its outcome is kept in the handler's record h[w] until the     *)
(* handler uses it.                                                        *)
(***************************************************************************)
EXTENDS Naturals

CONSTANTS
  Trip, Driver, Assignment,
  Worker,              \* handlers that may be in flight at the same time
  NoTrip, NoDriver, NoAssignment,
  MayReject,           \* whether drivers use the reject endpoint
  MaxFaults            \* bound on crashes and failed database calls

ASSUME DispatchAssumption ==
  /\ NoTrip \notin Trip
  /\ NoDriver \notin Driver
  /\ NoAssignment \notin Assignment
  /\ MayReject \in BOOLEAN
  /\ MaxFaults \in Nat

VARIABLES
  tripStatus,   \* trips.current_status ("none": not requested yet)
  tripDriver,   \* trips.driver_id
  arrivedAt,    \* trips whose arrived_pickup_at is set
  asg,          \* trip_assignments rows
  elapsed,      \* assignments whose ttl_expires_at has passed
  events,       \* events[a]: the answers trip_events holds for assignment a
  reported,     \* trips with a DRIVER_ARRIVED_PICKUP event
  free,         \* drivers that are online, available, with no reason and a vehicle
  onTrip,       \* driver_availability.current_trip_id
  timers,       \* assignments with a pending setTimeout
  autoArrive,   \* DriverAccepted events the auto-arriving orchestrator has yet to run
  h,            \* h[w]: what the handler in flight has read and where it is
  faults

tripVars  == <<tripStatus, tripDriver, arrivedAt, reported>>
offerVars == <<asg, elapsed, events>>
availVars == <<free, onTrip>>
memVars   == <<timers, autoArrive>>
vars == <<tripVars, offerVars, availVars, memVars, h, faults>>

----------------------------------------------------------------------------
(* Types *)

TripStatuses ==
  {"none", "pending", "assigning", "accepted", "arriving", "in_progress",
   "completed", "no_drivers_found"}
Taken == {"accepted", "arriving", "in_progress", "completed"}
UnderWay == {"accepted", "arriving", "in_progress"}

Unused == [status |-> "unused", trip |-> NoTrip, driver |-> NoDriver]
Row == [status : {"offered", "accepted", "rejected", "expired", "cancelled"},
        trip : Trip, driver : Driver]

Callers == {"none", "start", "reject", "expire", "accept"}
Idle == [pc |-> "idle", by |-> "none", trip |-> NoTrip, offer |-> NoAssignment, cands |-> {}]
Handler ==
  [pc : {"idle", "respond", "match", "list", "find", "offer", "announce", "close", "accept",
         "accepted"},
   by : Callers,
   trip : Trip \cup {NoTrip},
   offer : Assignment \cup {NoAssignment},
   cands : SUBSET Driver]

TypeOK ==
  /\ tripStatus \in [Trip -> TripStatuses]
  /\ tripDriver \in [Trip -> Driver \cup {NoDriver}]
  /\ arrivedAt \subseteq Trip
  /\ asg \in [Assignment -> Row \cup {Unused}]
  /\ elapsed \subseteq Assignment
  /\ events \in [Assignment -> SUBSET {"accepted", "rejected", "expired"}]
  /\ reported \subseteq Trip
  /\ free \subseteq Driver
  /\ onTrip \in [Driver -> Trip \cup {NoTrip}]
  /\ timers \subseteq Assignment
  /\ autoArrive \subseteq Trip \X Driver
  /\ h \in [Worker -> Handler]
  /\ faults \in 0 .. MaxFaults

----------------------------------------------------------------------------
(* Queries *)

Active(a) == asg[a].status = "offered"
ActiveOf(t) == {a \in Assignment : Active(a) /\ asg[a].trip = t}
Tried(t) == {asg[a].driver : a \in {b \in Assignment : asg[b].trip = t}}

\* Drivers findEligibleDrivers may return: it never returns one already tried.
Eligible(t) == {d \in free : onTrip[d] = NoTrip} \ Tried(t)

\* Slip: the offer transaction forgets the active offers.
MayOfferUnchecked(t, d) == tripStatus[t] = "assigning" /\ d \in free /\ onTrip[d] = NoTrip

\* What the offer transaction checks again under its locks.
MayOffer(t, d) ==
  /\ tripStatus[t] = "assigning"
  /\ ActiveOf(t) = {}
  /\ d \in free
  /\ onTrip[d] = NoTrip

\* The table after every active offer of t except those in keep is cancelled.
CancelOffers(table, t, keep) ==
  [a \in Assignment |->
     IF table[a].status = "offered" /\ table[a].trip = t /\ a \notin keep
     THEN [table[a] EXCEPT !.status = "cancelled"] ELSE table[a]]

Goto(w, pc) == h' = [h EXCEPT ![w].pc = pc]
Done(w) == h' = [h EXCEPT ![w] = Idle]

\* Slip: nobody closes the trip.
NoOfferLeftOpen(w) == Done(w)

\* A matching that made no offer: start and expire close the trip, reject does not.
NoOffer(w) == IF h[w].by = "reject" THEN Done(w) ELSE Goto(w, "close")

\* A matching that threw: only startAssigning catches the error and goes on.
MatchError(w) == IF h[w].by = "start" THEN Goto(w, "close") ELSE Done(w)

----------------------------------------------------------------------------
Init ==
  /\ tripStatus = [t \in Trip |-> "none"]
  /\ tripDriver = [t \in Trip |-> NoDriver]
  /\ arrivedAt = {}
  /\ asg = [a \in Assignment |-> Unused]
  /\ elapsed = {}
  /\ events = [a \in Assignment |-> {}]
  /\ reported = {}
  /\ free \in SUBSET Driver
  /\ onTrip = [d \in Driver |-> NoTrip]
  /\ timers = {}
  /\ autoArrive = {}
  /\ h = [w \in Worker |-> Idle]
  /\ faults = 0

(* The passenger's request has been committed. *)
RequestTrip(t) ==
  /\ tripStatus[t] = "none"
  /\ tripStatus' = [tripStatus EXCEPT ![t] = "pending"]
  /\ UNCHANGED <<tripDriver, arrivedAt, reported, offerVars, availVars, memVars, h, faults>>

(* startAssigning: PENDING -> ASSIGNING under the trip's lock, then match. *)
StartAssigning(w, t) ==
  /\ h[w] = Idle
  /\ tripStatus[t] = "pending"
  /\ tripStatus' = [tripStatus EXCEPT ![t] = "assigning"]
  /\ h' = [h EXCEPT ![w] = [Idle EXCEPT !.pc = "match", !.by = "start", !.trip = t]]
  /\ UNCHANGED <<tripDriver, arrivedAt, reported, offerVars, availVars, memVars, faults>>

----------------------------------------------------------------------------
(* runMatchingOnce *)

\* The trip is read without a lock and must be ASSIGNING.
MatchTrip(w) ==
  /\ h[w].pc = "match"
  /\ IF tripStatus[h[w].trip] = "assigning" THEN Goto(w, "list") ELSE MatchError(w)
  /\ UNCHANGED <<tripVars, offerVars, availVars, memVars, faults>>

\* An offer that is already active is returned as the result of the matching.
MatchList(w) ==
  /\ h[w].pc = "list"
  /\ IF ActiveOf(h[w].trip) # {} THEN Done(w) ELSE Goto(w, "find")
  /\ UNCHANGED <<tripVars, offerVars, availVars, memVars, faults>>

\* The candidates are any of the eligible drivers: radius, category and limit decide.
MatchFind(w) ==
  /\ h[w].pc = "find"
  /\ \E C \in SUBSET Eligible(h[w].trip) :
       IF C = {} THEN NoOffer(w)
       ELSE h' = [h EXCEPT ![w].pc = "offer", ![w].cands = C]
  /\ UNCHANGED <<tripVars, offerVars, availVars, memVars, faults>>

\* The offer transaction of one candidate, in the shuffled (arbitrary) order.  The
\* new row's id is arbitrary; Assignment bounds the number of rows.
Offer(w, d) ==
  LET t == h[w].trip a == CHOOSE b \in Assignment : asg[b] = Unused IN
  /\ h[w].pc = "offer"
  /\ d \in h[w].cands
  /\ MayOffer(t, d)
  /\ \E b \in Assignment : asg[b] = Unused
  /\ asg' = [asg EXCEPT ![a] = [status |-> "offered", trip |-> t, driver |-> d]]
  /\ h' = [h EXCEPT ![w].pc = "announce", ![w].offer = a, ![w].cands = {}]
  /\ UNCHANGED <<tripVars, elapsed, events, availVars, memVars, faults>>

\* A candidate that fails its revalidation is skipped.  The active-offer error is
\* wrapped by handleRepositoryError, so the branch that would return the offer a
\* concurrent matching made is never taken: such a candidate is skipped as well.
SkipCandidate(w, d) ==
  /\ h[w].pc = "offer"
  /\ d \in h[w].cands
  /\ ~MayOffer(h[w].trip, d)
  /\ IF h[w].cands = {d} THEN NoOffer(w)
     ELSE h' = [h EXCEPT ![w].cands = @ \ {d}]
  /\ UNCHANGED <<tripVars, offerVars, availVars, memVars, faults>>

\* Slip: the listener does not schedule.
AnnounceUnscheduled(w) ==
  /\ h[w].pc = "announce"
  /\ Done(w)
  /\ UNCHANGED <<tripVars, offerVars, availVars, memVars, faults>>

\* DriverOffered is emitted after the commit and schedules the expiry timer.
Announce(w) ==
  /\ h[w].pc = "announce"
  /\ timers' = timers \cup {h[w].offer}
  /\ Done(w)
  /\ UNCHANGED <<tripVars, offerVars, availVars, autoArrive, faults>>

\* A database call of the matching fails before any offer is made.
MatchFails(w) ==
  /\ h[w].pc \in {"match", "list", "find"}
  /\ faults < MaxFaults
  /\ faults' = faults + 1
  /\ MatchError(w)
  /\ UNCHANGED <<tripVars, offerVars, availVars, memVars>>

----------------------------------------------------------------------------
(* Closing a trip: the same transaction in startAssigning, expireAssignment *)
(* and markTripNoDriversFound.                                              *)

MarkNoDriversFound(t) ==
  /\ tripStatus[t] \in {"assigning", "pending"}
  /\ tripStatus' = [tripStatus EXCEPT ![t] = "no_drivers_found"]
  /\ asg' = CancelOffers(asg, t, {})

CloseTrip(w) ==
  /\ h[w].pc = "close"
  /\ \/ MarkNoDriversFound(h[w].trip)
     \/ /\ tripStatus[h[w].trip] \notin {"assigning", "pending"}
        /\ UNCHANGED <<tripStatus, asg>>
  /\ Done(w)
  /\ UNCHANGED <<tripDriver, arrivedAt, reported, elapsed, events, availVars, memVars, faults>>

MarkTripNoDriversFound(t) ==
  /\ MarkNoDriversFound(t)
  /\ UNCHANGED <<tripDriver, arrivedAt, reported, elapsed, events, availVars, memVars, h, faults>>

----------------------------------------------------------------------------
(* Answers of the driver and of the clock *)

\* getOfferedById of reject and expire: an unlocked read of an active offer.
ReadOffer(w, a, by) ==
  /\ h[w] = Idle
  /\ Active(a)
  /\ h' = [h EXCEPT ![w] = [Idle EXCEPT !.pc = "respond", !.by = by,
                                        !.trip = asg[a].trip, !.offer = a]]

RejectRead(w, a) ==
  /\ MayReject
  /\ ReadOffer(w, a, "reject")
  /\ UNCHANGED <<tripVars, offerVars, availVars, memVars, faults>>

\* POST :id/expire does not compare the clock with ttl_expires_at.
ExpireRead(w, a) ==
  /\ ReadOffer(w, a, "expire")
  /\ UNCHANGED <<tripVars, offerVars, availVars, memVars, faults>>

\* The timer removes itself, then runs expireAssignment.
TimerFires(w, a) ==
  /\ a \in timers \cap elapsed
  /\ timers' = timers \ {a}
  /\ \/ ReadOffer(w, a, "expire")
     \/ ~Active(a) /\ UNCHANGED h
  /\ UNCHANGED <<tripVars, offerVars, availVars, autoArrive, faults>>

\* Slips: a rejection recorded as a cancellation; an update without its condition.
OutcomeCancelled(by) == IF by = "reject" THEN "cancelled" ELSE "expired"
AnswerAlways(row, by) ==
  [row EXCEPT !.status = IF by = "reject" THEN "rejected" ELSE "expired"]

\* The outcome rejectOffer and expireOffer write, and the row they leave alone.
Outcome(by) == IF by = "reject" THEN "rejected" ELSE "expired"
Answer(row, by) == IF row.status = "offered" THEN [row EXCEPT !.status = Outcome(by)] ELSE row

\* The conditional update may touch no row; the event is appended all the same.
Respond(w) ==
  LET a == h[w].offer by == h[w].by IN
  /\ h[w].pc = "respond"
  /\ asg' = [asg EXCEPT ![a] = Answer(@, by)]
  /\ events' = [events EXCEPT ![a] = @ \cup {Outcome(by)}]
  /\ timers' = IF by = "expire" THEN timers \ {a} ELSE timers
  /\ h' = [h EXCEPT ![w].pc = "match", ![w].offer = NoAssignment]
  /\ UNCHANGED <<tripVars, elapsed, availVars, autoArrive, faults>>

\* The transaction aborts, but AssignmentExpired was emitted inside it.
RespondFails(w) ==
  /\ h[w].pc = "respond"
  /\ faults < MaxFaults
  /\ faults' = faults + 1
  /\ timers' = IF h[w].by = "expire" THEN timers \ {h[w].offer} ELSE timers
  /\ Done(w)
  /\ UNCHANGED <<tripVars, offerVars, availVars, autoArrive>>

\* acceptAssignment reads the clock first and compares the TTL with that reading later.
AcceptRequest(w, a) ==
  /\ h[w] = Idle
  /\ Active(a)
  /\ a \notin elapsed
  /\ h' = [h EXCEPT ![w] = [Idle EXCEPT !.pc = "accept", !.by = "accept",
                                        !.trip = asg[a].trip, !.offer = a]]
  /\ UNCHANGED <<tripVars, offerVars, availVars, memVars, faults>>

\* Slip: the row is not checked again when it is updated.
AcceptBlind(w) ==
  LET a == h[w].offer t == asg[a].trip d == asg[a].driver IN
  /\ h[w].pc = "accept"
  /\ asg' = CancelOffers([asg EXCEPT ![a].status = "accepted"], t, {a})
  /\ events' = [events EXCEPT ![a] = @ \cup {"accepted"}]
  /\ IF tripStatus[t] = "assigning"
     THEN /\ tripStatus' = [tripStatus EXCEPT ![t] = "accepted"]
          /\ tripDriver' = [tripDriver EXCEPT ![t] = d]
     ELSE UNCHANGED <<tripStatus, tripDriver>>
  /\ onTrip' = [onTrip EXCEPT ![d] = t]
  /\ free' = free \ {d}
  /\ Goto(w, "accepted")
  /\ UNCHANGED <<arrivedAt, reported, elapsed, memVars, faults>>

\* The accept transaction.  assignDriver updates the trip only while it is ASSIGNING and
\* nobody looks at the number of rows; the driver's current trip is overwritten.
Accept(w) ==
  LET a == h[w].offer t == asg[a].trip d == asg[a].driver IN
  /\ h[w].pc = "accept"
  /\ Active(a)
  /\ asg' = CancelOffers([asg EXCEPT ![a].status = "accepted"], t, {a})
  /\ events' = [events EXCEPT ![a] = @ \cup {"accepted"}]
  /\ IF tripStatus[t] = "assigning"
     THEN /\ tripStatus' = [tripStatus EXCEPT ![t] = "accepted"]
          /\ tripDriver' = [tripDriver EXCEPT ![t] = d]
     ELSE UNCHANGED <<tripStatus, tripDriver>>
  /\ onTrip' = [onTrip EXCEPT ![d] = t]
  /\ free' = free \ {d}
  /\ Goto(w, "accepted")
  /\ UNCHANGED <<arrivedAt, reported, elapsed, memVars, faults>>

\* The offer was answered or cancelled meanwhile: an error and no change.
AcceptRefused(w) ==
  /\ h[w].pc = "accept"
  /\ ~Active(h[w].offer)
  /\ Done(w)
  /\ UNCHANGED <<tripVars, offerVars, availVars, memVars, faults>>

\* DriverAccepted, after the commit: cancel the timer, wake the orchestrator.
AnnounceAccepted(w) ==
  /\ h[w].pc = "accepted"
  /\ timers' = timers \ {h[w].offer}
  /\ autoArrive' = autoArrive \cup {<<h[w].trip, asg[h[w].offer].driver>>}
  /\ Done(w)
  /\ UNCHANGED <<tripVars, offerVars, availVars, faults>>

----------------------------------------------------------------------------
(* The ride *)

\* Slip: the status is not checked, a late event moves the trip back.
StartArrivingAnyStatus(t) ==
  /\ tripDriver[t] # NoDriver
  /\ tripStatus' = [tripStatus EXCEPT ![t] = "arriving"]
  /\ arrivedAt' = arrivedAt \cup {t}
  /\ UNCHANGED <<tripDriver, reported>>

\* setArriving also writes arrived_pickup_at.
StartArriving(t) ==
  /\ tripStatus[t] = "accepted"
  /\ tripDriver[t] # NoDriver
  /\ tripStatus' = [tripStatus EXCEPT ![t] = "arriving"]
  /\ arrivedAt' = arrivedAt \cup {t}
  /\ UNCHANGED <<tripDriver, reported>>

\* PATCH :id/arriving, by the trip's driver.
DriverSetsOff(t) ==
  /\ StartArriving(t)
  /\ UNCHANGED <<offerVars, availVars, memVars, h, faults>>

\* The orchestrator's startArriving for one DriverAccepted event; a conflict is dropped.
AutoArrive(e) ==
  /\ e \in autoArrive
  /\ autoArrive' = autoArrive \ {e}
  /\ \/ e[2] = tripDriver[e[1]] /\ StartArriving(e[1])
     \/ /\ tripStatus[e[1]] # "accepted" \/ tripDriver[e[1]] # e[2]
        /\ UNCHANGED tripVars
  /\ UNCHANGED <<offerVars, availVars, timers, h, faults>>

\* markArrivedPickup leaves current_status as it is.
MarkArrivedPickup(t) ==
  /\ tripStatus[t] \in {"accepted", "arriving"}
  /\ tripDriver[t] # NoDriver
  /\ arrivedAt' = arrivedAt \cup {t}
  /\ reported' = reported \cup {t}
  /\ UNCHANGED <<tripStatus, tripDriver, offerVars, availVars, memVars, h, faults>>

StartTripInProgress(t) ==
  /\ tripStatus[t] \in {"accepted", "arriving"}
  /\ tripDriver[t] # NoDriver
  /\ tripStatus' = [tripStatus EXCEPT ![t] = "in_progress"]
  /\ UNCHANGED <<tripDriver, arrivedAt, reported, offerVars, availVars, memVars, h, faults>>

\* completeTrip and onTripEnded: the driver's current trip is cleared whatever it is,
\* and the driver is available again if online and still eligible.
CompleteTrip(t) ==
  LET d == tripDriver[t] IN
  /\ tripStatus[t] = "in_progress"
  /\ d # NoDriver
  /\ tripStatus' = [tripStatus EXCEPT ![t] = "completed"]
  /\ onTrip' = [onTrip EXCEPT ![d] = NoTrip]
  /\ free' \in {free \ {d}, free \cup {d}}
  /\ UNCHANGED <<tripDriver, arrivedAt, reported, offerVars, memVars, h, faults>>

----------------------------------------------------------------------------
(* The environment *)

\* The driver goes online, offline, or changes vehicle.
AvailabilityChanges(d) ==
  /\ free' = IF d \in free THEN free \ {d} ELSE free \cup {d}
  /\ UNCHANGED <<tripVars, offerVars, onTrip, memVars, h, faults>>

TtlElapses(a) ==
  /\ asg[a] # Unused
  /\ a \notin elapsed
  /\ elapsed' = elapsed \cup {a}
  /\ UNCHANGED <<tripVars, asg, events, availVars, memVars, h, faults>>

\* The process stops: handlers, timers and undelivered in-process events are lost.
Crash ==
  /\ faults < MaxFaults
  /\ faults' = faults + 1
  /\ h' = [w \in Worker |-> Idle]
  /\ timers' = {}
  /\ autoArrive' = {}
  /\ UNCHANGED <<tripVars, offerVars, availVars>>

----------------------------------------------------------------------------
HandlerStep(w) ==
  \/ MatchTrip(w) \/ MatchList(w) \/ MatchFind(w)
  \/ \E d \in Driver : SkipCandidate(w, d) \/ Offer(w, d)
  \/ Announce(w) \/ CloseTrip(w) \/ Respond(w)
  \/ Accept(w) \/ AcceptRefused(w) \/ AnnounceAccepted(w)

Arrival(w) ==
  \/ \E t \in Trip : StartAssigning(w, t)
  \/ \E a \in Assignment :
       RejectRead(w, a) \/ ExpireRead(w, a) \/ TimerFires(w, a) \/ AcceptRequest(w, a)

Ride(t) ==
  \/ DriverSetsOff(t) \/ MarkArrivedPickup(t) \/ StartTripInProgress(t) \/ CompleteTrip(t)

Next ==
  \/ \E w \in Worker : HandlerStep(w) \/ Arrival(w) \/ MatchFails(w) \/ RespondFails(w)
  \/ \E t \in Trip : RequestTrip(t) \/ MarkTripNoDriversFound(t) \/ Ride(t)
  \/ \E e \in autoArrive : AutoArrive(e)
  \/ \E d \in Driver : AvailabilityChanges(d)
  \/ \E a \in Assignment : TtlElapses(a)
  \/ Crash

Spec == Init /\ [][Next]_vars

(***************************************************************************)
(* Fairness: a handler in flight goes on (its database calls return), the  *)
(* clock advances, a due timer fires, and the TripRequested event reaches  *)
(* the orchestrator that calls startAssigning.  Nothing is assumed of      *)
(* drivers or passengers.                                                  *)
(***************************************************************************)
Fairness ==
  /\ \A w \in Worker : WF_vars(HandlerStep(w))
  /\ \A a \in Assignment : WF_vars(TtlElapses(a))
  /\ \A a \in Assignment : WF_vars(\E w \in Worker : TimerFires(w, a))
  /\ \A t \in Trip : WF_vars(\E w \in Worker : StartAssigning(w, t))

FairSpec == Spec /\ Fairness

----------------------------------------------------------------------------
(* Safety *)

\* A trip is offered to one driver at a time: the check of
\* ensureNoActiveOfferForTrip and the insertion are one step under the trip's lock,
\* whatever other matchings of the same trip are in flight.  (The unique index
\* that would say so is commented out in trip-assignment.entity.ts.)
AtMostOneActiveOffer ==
  \A a, b \in Assignment : Active(a) /\ Active(b) /\ asg[a].trip = asg[b].trip => a = b

\* No driver holds an offer of a trip that has been taken or closed, so an accept,
\* which does not look at the trip's status, can never answer for such a trip.
OfferOnlyWhileAssigning ==
  \A a \in Assignment : Active(a) => tripStatus[asg[a].trip] = "assigning"

\* What acceptAssignment relies on without looking: when it answers for an active
\* offer, the trip waits for a driver and nobody else has been asked.
OffersAreExclusive == AtMostOneActiveOffer /\ OfferOnlyWhileAssigning

\* The assignments table and the trips table agree: a trip has an accepted
\* assignment exactly when it is taken, a single one, and it is its driver's.
\* assignDriver ignores the number of updated rows, so nothing in the code says it.
AcceptedMatchesTrip ==
  /\ \A t \in Trip :
       IF tripStatus[t] \in Taken
       THEN \E a \in Assignment :
              asg[a] = [status |-> "accepted", trip |-> t, driver |-> tripDriver[t]]
       ELSE tripDriver[t] = NoDriver
  /\ \A a, b \in Assignment :
       /\ asg[a].status = "accepted"
       /\ asg[b].status = "accepted"
       /\ asg[a].trip = asg[b].trip
       => a = b
  /\ \A a \in Assignment : asg[a].status = "accepted" =>
       tripStatus[asg[a].trip] \in Taken /\ tripDriver[asg[a].trip] = asg[a].driver

\* driver_availability never keeps a driver busy with a trip that is over or that
\* is another driver's: what accept records, completion of that trip clears.
OccupiedByOwnTrip ==
  \A d \in Driver : onTrip[d] # NoTrip =>
    tripDriver[onTrip[d]] = d /\ tripStatus[onTrip[d]] \in UnderWay

\* The three tables tell the same story of who has taken which trip.
TablesConsistent == AcceptedMatchesTrip /\ OccupiedByOwnTrip

\* While nothing fails, every active offer is watched: its timer is set, or the
\* handler that will set it, or the one that is expiring it, is in flight.  The
\* timer is deleted before the offer is read, and cancelled on other answers.
EveryOfferIsWatched ==
  faults = 0 => \A a \in Assignment : Active(a) =>
    \/ a \in timers
    \/ \E w \in Worker : h[w].offer = a /\ h[w].pc \in {"announce", "respond"}

\* An answered offer stays as answered: accept, reject, expire and the cancellations
\* race for it, and the first one wins.
AnswerIsFinal ==
  [][\A a \in Assignment :
       asg[a] # Unused /\ ~Active(a) => asg'[a] = asg[a]]_vars

----------------------------------------------------------------------------
(* The abstract specification *)

Holder == [t \in Trip |->
  IF ActiveOf(t) = {} THEN NoDriver ELSE asg[CHOOSE a \in ActiveOf(t) : TRUE].driver]

Lifecycle == INSTANCE TripLifecycle
               WITH status <- tripStatus, driver <- tripDriver, holder <- Holder

\* Dispatch implements TripLifecycle: the driver who takes a trip is the one it is
\* being offered to, a driver is never replaced, and a closed trip stays closed.
ImplementsLifecycle == Lifecycle!Spec

----------------------------------------------------------------------------
(* Liveness *)

\* Without faults and when drivers answer with accept or not at all, every trip that
\* was requested is taken or closed: no offer or handler is left waiting for another.
EveryTripResolves ==
  \A t \in Trip : tripStatus[t] = "pending" ~> tripStatus[t] \in Taken \cup {"no_drivers_found"}

----------------------------------------------------------------------------
(* A statement of the repository that the code does not keep *)

\* "Driver is already on a trip" keeps a driver from getting a second trip.
OneTripPerDriver ==
  \A t, u \in Trip :
    t # u /\ {tripStatus[t], tripStatus[u]} \subseteq UnderWay => tripDriver[t] # tripDriver[u]
=============================================================================
