------------------------ MODULE TripDispatchProofs -------------------------
(***************************************************************************)
(* Proofs about TripDispatch for any sets of trips, drivers, assignments   *)
(* and handlers.  The inductive invariant is IInv: the invariants the runs *)
(* check, and what the handlers in flight know (HandlerOK).                *)
(***************************************************************************)
EXTENDS TripDispatch, TLAPS

Matching == {"match", "list", "find", "offer", "announce", "close"}

HandlerOK == \A w \in Worker :
  /\ h[w].pc \in Matching => h[w].trip \in Trip
  /\ h[w].pc \in {"respond", "announce", "accept", "accepted"} =>
       h[w].offer \in Assignment /\ asg[h[w].offer] # Unused
  /\ h[w].pc = "respond" => h[w].trip \in Trip /\ h[w].by \in {"reject", "expire"}
  /\ h[w].pc = "accept" => h[w].trip \in Trip
  /\ h[w].pc = "accepted" =>
       h[w].trip \in Trip /\ asg[h[w].offer].status = "accepted"

IInv ==
  /\ TypeOK
  /\ HandlerOK
  /\ AtMostOneActiveOffer
  /\ OfferOnlyWhileAssigning
  /\ AcceptedMatchesTrip
  /\ OccupiedByOwnTrip
  /\ EveryOfferIsWatched

----------------------------------------------------------------------------
(* Small facts *)

\* A row is offered, answered or cancelled; only the unused record has no trip.
LEMMA RowOrUnused ==
  ASSUME TypeOK, NEW a \in Assignment
  PROVE  /\ asg[a] \in Row \/ asg[a] = Unused
         /\ asg[a] = Unused <=> asg[a].status = "unused"
         /\ asg[a] # Unused => asg[a] \in Row /\ asg[a].trip \in Trip /\ asg[a].driver \in Driver
         /\ Active(a) => asg[a] # Unused
BY DEF TypeOK, Row, Unused, Active

\* The row chosen for a new offer was unused.
LEMMA FreshRow ==
  ASSUME \E b \in Assignment : asg[b] = Unused
  PROVE  LET a == CHOOSE b \in Assignment : asg[b] = Unused
         IN  a \in Assignment /\ asg[a] = Unused
OBVIOUS

\* Cancelling offers keeps the table well typed and touches only active rows.
LEMMA CancelTyped ==
  ASSUME NEW table \in [Assignment -> Row \cup {Unused}], NEW t \in Trip, NEW keep \in SUBSET Assignment
  PROVE  /\ CancelOffers(table, t, keep) \in [Assignment -> Row \cup {Unused}]
         /\ \A a \in Assignment :
              \/ CancelOffers(table, t, keep)[a] = table[a]
              \/ /\ table[a].status = "offered" /\ table[a].trip = t /\ a \notin keep
                 /\ CancelOffers(table, t, keep)[a] =
                      [status |-> "cancelled", trip |-> t, driver |-> table[a].driver]
<1> DEFINE New == CancelOffers(table, t, keep)
<1>1. ASSUME NEW a \in Assignment
      PROVE  /\ New[a] \in Row \cup {Unused}
             /\ \/ New[a] = table[a]
                \/ /\ table[a].status = "offered" /\ table[a].trip = t /\ a \notin keep
                   /\ New[a] = [status |-> "cancelled", trip |-> t, driver |-> table[a].driver]
  <2>1. table[a] \in Row \/ table[a] = Unused
    OBVIOUS
  <2>2. CASE table[a].status = "offered" /\ table[a].trip = t /\ a \notin keep
    <3>1. New[a] = [table[a] EXCEPT !.status = "cancelled"]
      BY <2>2 DEF CancelOffers
    <3>2. table[a] \in Row
      BY <2>1, <2>2 DEF Unused
    <3>3. New[a] = [status |-> "cancelled", trip |-> t, driver |-> table[a].driver]
      BY <2>2, <3>1, <3>2 DEF Row
    <3> QED BY <2>2, <3>2, <3>3 DEF Row
  <2>3. CASE ~(table[a].status = "offered" /\ table[a].trip = t /\ a \notin keep)
    BY <2>3 DEF CancelOffers
  <2> QED BY <2>2, <2>3
<1>2. New \in [Assignment -> Row \cup {Unused}]
  BY <1>1 DEF CancelOffers
<1> QED BY <1>1, <1>2

----------------------------------------------------------------------------
(* Types *)

\* The empty tables and idle handlers are well typed.
LEMMA InitTypeOK == Init => TypeOK
BY DispatchAssumption DEF Init, TypeOK, TripStatuses, Handler, Idle, Callers

\* The handler's records keep their type whatever step a handler takes.
LEMMA HandlerTyped ==
  ASSUME TypeOK, NEW w \in Worker
  PROVE  /\ h[w] \in Handler
         /\ Idle \in Handler
         /\ Done(w) => h' \in [Worker -> Handler]
         /\ \A pc \in {"respond", "match", "list", "find", "offer", "announce", "close",
                        "accept", "accepted"} :
              Goto(w, pc) => h' \in [Worker -> Handler]
<1>1. h[w] \in Handler /\ Idle \in Handler
  BY DEF TypeOK, Handler, Idle, Callers
<1>2. Done(w) => h' \in [Worker -> Handler]
  BY <1>1 DEF Done, TypeOK
<1>3. ASSUME NEW pc \in {"respond", "match", "list", "find", "offer", "announce", "close",
                         "accept", "accepted"}, Goto(w, pc)
      PROVE  h' \in [Worker -> Handler]
  <2>1. [h[w] EXCEPT !.pc = pc] \in Handler
    BY <1>1, <1>3 DEF Handler
  <2> QED BY <2>1, <1>3 DEF Goto, TypeOK
<1> QED BY <1>1, <1>2, <1>3

\* Every step keeps the types.
LEMMA TypeStep ==
  ASSUME TypeOK, HandlerOK, Next
  PROVE  TypeOK'
<1> USE DEF memVars, tripVars, offerVars, availVars
<1>1. ASSUME NEW w \in Worker, HandlerStep(w)
      PROVE  TypeOK'
  <2>1. h[w] \in Handler
    BY HandlerTyped
  <2>2. CASE MatchTrip(w)
    BY <2>2, HandlerTyped DEF MatchTrip, MatchError, TypeOK
  <2>3. CASE MatchList(w)
    BY <2>3, HandlerTyped DEF MatchList, TypeOK
  <2>4. CASE MatchFind(w)
    <3>1. PICK C \in SUBSET Eligible(h[w].trip) :
            IF C = {} THEN NoOffer(w) ELSE h' = [h EXCEPT ![w].pc = "offer", ![w].cands = C]
      BY <2>4 DEF MatchFind
    <3>2. C \subseteq Driver
      BY DEF Eligible, TypeOK
    <3>3. [[h[w] EXCEPT !.pc = "offer"] EXCEPT !.cands = C] \in Handler
      BY <2>1, <3>2 DEF Handler
    <3>4. h' \in [Worker -> Handler]
      BY <3>1, <3>3, HandlerTyped DEF NoOffer, TypeOK
    <3> QED BY <2>4, <3>4 DEF MatchFind, TypeOK
  <2>5. ASSUME NEW d \in Driver, SkipCandidate(w, d)
        PROVE  TypeOK'
    <3>1. [h[w] EXCEPT !.cands = @ \ {d}] \in Handler
      BY <2>1 DEF Handler
    <3>2. h' \in [Worker -> Handler]
      BY <2>5, <3>1, HandlerTyped DEF SkipCandidate, NoOffer, TypeOK
    <3> QED BY <2>5, <3>2 DEF SkipCandidate, TypeOK
  <2>6. ASSUME NEW d \in Driver, Offer(w, d)
        PROVE  TypeOK'
    <3> DEFINE a == CHOOSE b \in Assignment : asg[b] = Unused
    <3>1. a \in Assignment
      BY <2>6, FreshRow DEF Offer
    <3>2. h[w].trip \in Trip
      BY <2>6 DEF Offer, HandlerOK, Matching
    <3>3. [status |-> "offered", trip |-> h[w].trip, driver |-> d] \in Row
      BY <3>2 DEF Row
    <3>4. [[[h[w] EXCEPT !.pc = "announce"] EXCEPT !.offer = a] EXCEPT !.cands = {}] \in Handler
      BY <2>1, <3>1 DEF Handler
    <3>5. /\ asg' = [asg EXCEPT ![a] = [status |-> "offered", trip |-> h[w].trip, driver |-> d]]
          /\ h' = [h EXCEPT ![w] = [[[h[w] EXCEPT !.pc = "announce"] EXCEPT !.offer = a] EXCEPT !.cands = {}]]
      BY <2>6 DEF Offer, TypeOK
    <3> HIDE DEF a
    <3>6. asg' \in [Assignment -> Row \cup {Unused}] /\ h' \in [Worker -> Handler]
      BY <3>1, <3>3, <3>4, <3>5 DEF TypeOK
    <3> QED BY <2>6, <3>6 DEF Offer, TypeOK
  <2>7. CASE Announce(w)
    <3>1. h[w].offer \in Assignment
      BY <2>7 DEF Announce, HandlerOK
    <3> QED BY <2>7, <3>1, HandlerTyped DEF Announce, TypeOK
  <2>8. CASE CloseTrip(w)
    <3>1. h[w].trip \in Trip
      BY <2>8 DEF CloseTrip, HandlerOK, Matching
    <3>2. asg \in [Assignment -> Row \cup {Unused}]
      BY DEF TypeOK
    <3>3. CancelOffers(asg, h[w].trip, {}) \in [Assignment -> Row \cup {Unused}]
      BY <3>1, <3>2, CancelTyped
    <3> QED BY <2>8, <3>1, <3>3, HandlerTyped DEF CloseTrip, MarkNoDriversFound, TypeOK, TripStatuses
  <2>9. CASE Respond(w)
    <3> DEFINE a == h[w].offer
    <3>1. a \in Assignment /\ asg[a] \in Row /\ h[w].by \in {"reject", "expire"}
      BY <2>9, RowOrUnused DEF Respond, HandlerOK
    <3>2. Answer(asg[a], h[w].by) \in Row
      BY <3>1 DEF Answer, Outcome, Row
    <3>3. asg' \in [Assignment -> Row \cup {Unused}]
      BY <2>9, <3>1, <3>2 DEF Respond, TypeOK
    <3>4. events' \in [Assignment -> SUBSET {"accepted", "rejected", "expired"}]
      BY <2>9, <3>1 DEF Respond, TypeOK, Outcome
    <3>5. [[h[w] EXCEPT !.pc = "match"] EXCEPT !.offer = NoAssignment] \in Handler
      BY <2>1 DEF Handler
    <3>6. h' \in [Worker -> Handler]
      BY <2>9, <3>5 DEF Respond, TypeOK
    <3> QED BY <2>9, <3>3, <3>4, <3>6 DEF Respond, TypeOK
  <2>10. CASE Accept(w)
    <3> DEFINE a == h[w].offer
               t == asg[a].trip
               d == asg[a].driver
               table == [asg EXCEPT ![a].status = "accepted"]
    <3>1. a \in Assignment /\ asg[a] \in Row /\ t \in Trip /\ d \in Driver
      BY <2>10, RowOrUnused DEF Accept, HandlerOK
    <3>2. [asg[a] EXCEPT !.status = "accepted"] \in Row
      BY <3>1 DEF Row
    <3>3. table \in [Assignment -> Row \cup {Unused}]
      BY <3>1, <3>2 DEF TypeOK
    <3>4. CancelOffers(table, t, {a}) \in [Assignment -> Row \cup {Unused}]
      <4>1. {a} \in SUBSET Assignment
        BY <3>1
      <4> HIDE DEF table, t
      <4> QED BY <3>1, <3>3, <4>1, CancelTyped
    <3>5. asg' \in [Assignment -> Row \cup {Unused}]
      BY <2>10, <3>4 DEF Accept
    <3>6. h' \in [Worker -> Handler]
      BY <2>10, HandlerTyped DEF Accept
    <3>7. /\ tripStatus' \in [Trip -> TripStatuses]
          /\ tripDriver' \in [Trip -> Driver \cup {NoDriver}]
          /\ events' \in [Assignment -> SUBSET {"accepted", "rejected", "expired"}]
          /\ onTrip' \in [Driver -> Trip \cup {NoTrip}]
          /\ free' \subseteq Driver
      BY <2>10, <3>1 DEF Accept, TypeOK, TripStatuses
    <3> QED BY <2>10, <3>5, <3>6, <3>7 DEF Accept, TypeOK
  <2>11. CASE AcceptRefused(w)
    BY <2>11, HandlerTyped DEF AcceptRefused, TypeOK
  <2>12. CASE AnnounceAccepted(w)
    <3>1. h[w].trip \in Trip /\ asg[h[w].offer].driver \in Driver
      BY <2>12, RowOrUnused DEF AnnounceAccepted, HandlerOK
    <3> QED BY <2>12, <3>1, HandlerTyped DEF AnnounceAccepted, TypeOK
  <2> QED BY <1>1, <2>2, <2>3, <2>4, <2>5, <2>6, <2>7, <2>8, <2>9, <2>10, <2>11, <2>12 DEF HandlerStep
<1>2. ASSUME NEW w \in Worker, Arrival(w)
      PROVE  TypeOK'
  <2>1. ASSUME NEW t \in Trip, StartAssigning(w, t)
        PROVE  TypeOK'
    <3>1. [Idle EXCEPT !.pc = "match", !.by = "start", !.trip = t] \in Handler
      BY DEF Idle, Handler, Callers
    <3> QED BY <2>1, <3>1 DEF StartAssigning, TypeOK, TripStatuses
  <2>2. ASSUME NEW a \in Assignment, NEW by \in {"reject", "expire"}, ReadOffer(w, a, by)
        PROVE  h' \in [Worker -> Handler]
    <3>1. asg[a].trip \in Trip
      BY <2>2, RowOrUnused DEF ReadOffer
    <3>2. [Idle EXCEPT !.pc = "respond", !.by = by, !.trip = asg[a].trip, !.offer = a] \in Handler
      BY <3>1 DEF Idle, Handler, Callers
    <3> QED BY <2>2, <3>2 DEF ReadOffer, TypeOK
  <2>3. ASSUME NEW a \in Assignment, RejectRead(w, a) \/ ExpireRead(w, a) \/ TimerFires(w, a)
        PROVE  TypeOK'
    BY <2>2, <2>3 DEF RejectRead, ExpireRead, TimerFires, TypeOK
  <2>4. ASSUME NEW a \in Assignment, AcceptRequest(w, a)
        PROVE  TypeOK'
    <3>1. asg[a].trip \in Trip
      BY <2>4, RowOrUnused DEF AcceptRequest
    <3>2. [Idle EXCEPT !.pc = "accept", !.by = "accept", !.trip = asg[a].trip, !.offer = a] \in Handler
      BY <3>1 DEF Idle, Handler, Callers
    <3> QED BY <2>4, <3>2 DEF AcceptRequest, TypeOK
  <2> QED BY <1>2, <2>1, <2>3, <2>4 DEF Arrival
<1>3. ASSUME NEW w \in Worker, MatchFails(w) \/ RespondFails(w)
      PROVE  TypeOK'
  BY <1>3, HandlerTyped, DispatchAssumption DEF MatchFails, RespondFails, MatchError, TypeOK
<1>4. ASSUME NEW t \in Trip, RequestTrip(t) \/ Ride(t)
      PROVE  TypeOK'
  BY <1>4 DEF RequestTrip, Ride, DriverSetsOff, StartArriving, MarkArrivedPickup,
              StartTripInProgress, CompleteTrip, TypeOK, TripStatuses
<1>5. ASSUME NEW t \in Trip, MarkTripNoDriversFound(t)
      PROVE  TypeOK'
  <2>1. asg \in [Assignment -> Row \cup {Unused}]
    BY DEF TypeOK
  <2>2. CancelOffers(asg, t, {}) \in [Assignment -> Row \cup {Unused}]
    BY <2>1, CancelTyped
  <2> QED BY <1>5, <2>2 DEF MarkTripNoDriversFound, MarkNoDriversFound, TypeOK, TripStatuses
<1>6. ASSUME NEW e \in autoArrive, AutoArrive(e)
      PROVE  TypeOK'
  <2>1. e[1] \in Trip
    BY DEF TypeOK
  <2> QED BY <1>6, <2>1 DEF AutoArrive, StartArriving, TypeOK, TripStatuses
<1>7. ASSUME NEW d \in Driver, AvailabilityChanges(d)
      PROVE  TypeOK'
  BY <1>7 DEF AvailabilityChanges, TypeOK
<1>8. ASSUME NEW a \in Assignment, TtlElapses(a)
      PROVE  TypeOK'
  BY <1>8 DEF TtlElapses, TypeOK
<1>9. CASE Crash
  <2>1. Idle \in Handler
    BY DEF Idle, Handler, Callers
  <2> QED BY <1>9, <2>1, DispatchAssumption DEF Crash, TypeOK
<1> QED BY <1>1, <1>2, <1>3, <1>4, <1>5, <1>6, <1>7, <1>8, <1>9 DEF Next

----------------------------------------------------------------------------
(* The steps that touch the tables, without the handlers that take them *)

Untouched == UNCHANGED <<asg, tripStatus, tripDriver, onTrip>>

Opens(t) ==
  /\ \/ tripStatus[t] = "none" /\ tripStatus' = [tripStatus EXCEPT ![t] = "pending"]
     \/ tripStatus[t] = "pending" /\ tripStatus' = [tripStatus EXCEPT ![t] = "assigning"]
  /\ UNCHANGED <<asg, tripDriver, onTrip>>

Offers(t, d, a) ==
  /\ MayOffer(t, d)
  /\ asg[a] = Unused
  /\ asg' = [asg EXCEPT ![a] = [status |-> "offered", trip |-> t, driver |-> d]]
  /\ UNCHANGED <<tripStatus, tripDriver, onTrip>>

Closes(t) == MarkNoDriversFound(t) /\ UNCHANGED <<tripDriver, onTrip>>

Answers(a, by) ==
  /\ asg[a] # Unused
  /\ asg' = [asg EXCEPT ![a] = Answer(@, by)]
  /\ UNCHANGED <<tripStatus, tripDriver, onTrip>>

Takes(a) ==
  /\ Active(a)
  /\ asg' = CancelOffers([asg EXCEPT ![a].status = "accepted"], asg[a].trip, {a})
  /\ IF tripStatus[asg[a].trip] = "assigning"
     THEN /\ tripStatus' = [tripStatus EXCEPT ![asg[a].trip] = "accepted"]
          /\ tripDriver' = [tripDriver EXCEPT ![asg[a].trip] = asg[a].driver]
     ELSE UNCHANGED <<tripStatus, tripDriver>>
  /\ onTrip' = [onTrip EXCEPT ![asg[a].driver] = asg[a].trip]

Rides(t) ==
  /\ \/ tripStatus[t] = "accepted" /\ tripStatus' = [tripStatus EXCEPT ![t] = "arriving"]
     \/ /\ tripStatus[t] \in {"accepted", "arriving"}
        /\ tripStatus' = [tripStatus EXCEPT ![t] = "in_progress"]
  /\ UNCHANGED <<asg, tripDriver, onTrip>>

Ends(t) ==
  /\ tripStatus[t] = "in_progress"
  /\ tripStatus' = [tripStatus EXCEPT ![t] = "completed"]
  /\ onTrip' = [onTrip EXCEPT ![tripDriver[t]] = NoTrip]
  /\ UNCHANGED <<asg, tripDriver>>

TableStep ==
  \/ Untouched
  \/ \E t \in Trip : Opens(t) \/ Closes(t) \/ Rides(t) \/ Ends(t)
  \/ \E t \in Trip, d \in Driver, a \in Assignment : Offers(t, d, a)
  \/ \E a \in Assignment : Takes(a) \/ \E by \in {"reject", "expire"} : Answers(a, by)

\* Whatever the program does, the tables change in one of these ways.
LEMMA NextIsTableStep ==
  ASSUME TypeOK, HandlerOK, Next
  PROVE  TableStep
<1> USE DEF memVars, tripVars, offerVars, availVars
<1>1. ASSUME NEW w \in Worker, HandlerStep(w)
      PROVE  TableStep
  <2>1. CASE MatchTrip(w) \/ MatchList(w) \/ MatchFind(w) \/ Announce(w)
             \/ AcceptRefused(w) \/ AnnounceAccepted(w)
    BY <2>1 DEF MatchTrip, MatchList, MatchFind, Announce, AcceptRefused, AnnounceAccepted,
                TableStep, Untouched
  <2>2. ASSUME NEW d \in Driver, SkipCandidate(w, d)
        PROVE  TableStep
    BY <2>2 DEF SkipCandidate, TableStep, Untouched
  <2>3. ASSUME NEW d \in Driver, Offer(w, d)
        PROVE  TableStep
    <3> DEFINE a == CHOOSE b \in Assignment : asg[b] = Unused
    <3>1. a \in Assignment /\ asg[a] = Unused
      BY <2>3, FreshRow DEF Offer
    <3>2. h[w].trip \in Trip
      BY <2>3 DEF Offer, HandlerOK, Matching
    <3>3. Offers(h[w].trip, d, a)
      BY <2>3, <3>1 DEF Offer, Offers
    <3> HIDE DEF a
    <3> QED BY <3>1, <3>2, <3>3 DEF TableStep
  <2>4. CASE CloseTrip(w)
    <3>1. h[w].trip \in Trip
      BY <2>4 DEF CloseTrip, HandlerOK, Matching
    <3>2. Closes(h[w].trip) \/ Untouched
      BY <2>4 DEF CloseTrip, Closes, Untouched
    <3> QED BY <3>1, <3>2 DEF TableStep
  <2>5. CASE Respond(w)
    <3>1. /\ h[w].offer \in Assignment /\ asg[h[w].offer] # Unused
          /\ h[w].by \in {"reject", "expire"}
      BY <2>5 DEF Respond, HandlerOK
    <3>2. Answers(h[w].offer, h[w].by)
      BY <2>5, <3>1 DEF Respond, Answers
    <3> QED BY <3>1, <3>2 DEF TableStep
  <2>6. CASE Accept(w)
    <3>1. h[w].offer \in Assignment
      BY <2>6 DEF Accept, HandlerOK
    <3>2. Takes(h[w].offer)
      BY <2>6 DEF Accept, Takes
    <3> QED BY <3>1, <3>2 DEF TableStep
  <2> QED BY <1>1, <2>1, <2>2, <2>3, <2>4, <2>5, <2>6 DEF HandlerStep
<1>2. ASSUME NEW w \in Worker, Arrival(w)
      PROVE  TableStep
  BY <1>2 DEF Arrival, StartAssigning, RejectRead, ExpireRead, TimerFires, AcceptRequest,
              TableStep, Opens, Untouched
<1>3. ASSUME NEW w \in Worker, MatchFails(w) \/ RespondFails(w)
      PROVE  TableStep
  BY <1>3 DEF MatchFails, RespondFails, TableStep, Untouched
<1>4. ASSUME NEW t \in Trip, RequestTrip(t) \/ MarkTripNoDriversFound(t) \/ Ride(t)
      PROVE  TableStep
  BY <1>4 DEF RequestTrip, MarkTripNoDriversFound, Ride, DriverSetsOff, StartArriving,
              MarkArrivedPickup, StartTripInProgress, CompleteTrip,
              TableStep, Opens, Closes, Rides, Ends, Untouched
<1>5. ASSUME NEW e \in autoArrive, AutoArrive(e)
      PROVE  TableStep
  <2>1. e[1] \in Trip
    BY DEF TypeOK
  <2> QED BY <1>5, <2>1 DEF AutoArrive, StartArriving, TableStep, Rides, Untouched
<1>6. CASE \/ \E d \in Driver : AvailabilityChanges(d)
           \/ \E a \in Assignment : TtlElapses(a)
           \/ Crash
  BY <1>6 DEF AvailabilityChanges, TtlElapses, Crash, TableStep, Untouched
<1> QED BY <1>1, <1>2, <1>3, <1>4, <1>5, <1>6 DEF Next

\* The rows after a driver takes a trip: the row is accepted, the other active offers
\* of the trip are cancelled, every other row is as it was.
LEMMA TakesTable ==
  ASSUME TypeOK, NEW a \in Assignment, Takes(a)
  PROVE  /\ asg'[a] = [status |-> "accepted", trip |-> asg[a].trip, driver |-> asg[a].driver]
         /\ asg'[a].status = "accepted"
         /\ \A b \in Assignment \ {a} :
              \/ asg'[b] = asg[b] /\ ~(Active(b) /\ asg[b].trip = asg[a].trip)
              \/ /\ Active(b) /\ asg[b].trip = asg[a].trip
                 /\ asg'[b].status = "cancelled"
<1> DEFINE table == [asg EXCEPT ![a].status = "accepted"]
<1>1. asg[a] \in Row
  BY RowOrUnused DEF Takes
<1>2. table[a] = [status |-> "accepted", trip |-> asg[a].trip, driver |-> asg[a].driver]
  BY <1>1 DEF TypeOK, Row
<1>3. asg' = [b \in Assignment |->
                IF table[b].status = "offered" /\ table[b].trip = asg[a].trip /\ b \notin {a}
                THEN [table[b] EXCEPT !.status = "cancelled"] ELSE table[b]]
  BY DEF Takes, CancelOffers
<1>4. \A b \in Assignment \ {a} : table[b] = asg[b]
  BY DEF TypeOK
<1> HIDE DEF table
<1>5. asg'[a] = table[a]
  BY <1>3
<1>6. ASSUME NEW b \in Assignment \ {a}
      PROVE  \/ asg'[b] = asg[b] /\ ~(Active(b) /\ asg[b].trip = asg[a].trip)
             \/ /\ Active(b) /\ asg[b].trip = asg[a].trip
                /\ asg'[b].status = "cancelled"
  <2>1. CASE Active(b) /\ asg[b].trip = asg[a].trip
    <3>1. asg[b] \in Row
      BY <2>1, RowOrUnused
    <3>2. asg'[b] = [asg[b] EXCEPT !.status = "cancelled"]
      BY <1>3, <1>4, <2>1 DEF Active
    <3> QED BY <2>1, <3>1, <3>2 DEF Row
  <2>2. CASE ~(Active(b) /\ asg[b].trip = asg[a].trip)
    BY <1>3, <1>4, <2>2 DEF Active
  <2> QED BY <2>1, <2>2
<1> QED BY <1>2, <1>5, <1>6

\* The rows after a trip is closed.
LEMMA ClosesTable ==
  ASSUME TypeOK, NEW t \in Trip, Closes(t), NEW a \in Assignment
  PROVE  \/ asg'[a] = asg[a] /\ ~(Active(a) /\ asg[a].trip = t)
         \/ Active(a) /\ asg[a].trip = t /\ asg'[a].status = "cancelled"
<1>1. asg' = [b \in Assignment |->
                IF asg[b].status = "offered" /\ asg[b].trip = t /\ b \notin {}
                THEN [asg[b] EXCEPT !.status = "cancelled"] ELSE asg[b]]
  BY DEF Closes, MarkNoDriversFound, CancelOffers
<1>2. CASE Active(a) /\ asg[a].trip = t
  <2>1. asg[a] \in Row
    BY <1>2, RowOrUnused
  <2>2. asg'[a] = [asg[a] EXCEPT !.status = "cancelled"]
    BY <1>1, <1>2 DEF Active
  <2> QED BY <1>2, <2>1, <2>2 DEF Row
<1>3. CASE ~(Active(a) /\ asg[a].trip = t)
  BY <1>1, <1>3 DEF Active
<1> QED BY <1>2, <1>3

\* The row after a rejection or an expiration: only an active one changes.
LEMMA AnswersTable ==
  ASSUME TypeOK, NEW a \in Assignment, NEW by \in {"reject", "expire"}, Answers(a, by)
  PROVE  /\ \A b \in Assignment \ {a} : asg'[b] = asg[b]
         /\ ~Active(a) => asg'[a] = asg[a]
         /\ Active(a) => asg'[a].status \in {"rejected", "expired"}
         /\ asg'[a].status # "offered" /\ asg'[a] # Unused
<1>1. asg[a] \in Row
  BY RowOrUnused DEF Answers
<1>2. asg' = [asg EXCEPT ![a] = Answer(asg[a], by)]
  BY DEF Answers
<1>3. Answer(asg[a], by) =
        IF Active(a) THEN [status |-> Outcome(by), trip |-> asg[a].trip, driver |-> asg[a].driver]
        ELSE asg[a]
  BY <1>1 DEF Answer, Active, Row
<1> QED BY <1>1, <1>2, <1>3 DEF TypeOK, Outcome, Unused, Active, Row

\* A row in use stays in use, and an answered one stays as it is.
LEMMA RowsKept ==
  ASSUME TypeOK, TableStep, NEW a \in Assignment, asg[a] # Unused
  PROVE  asg'[a] # Unused /\ (~Active(a) => asg'[a] = asg[a])
<1>1. CASE Untouched
  BY <1>1 DEF Untouched
<1>2. ASSUME NEW t \in Trip, Opens(t) \/ Rides(t) \/ Ends(t)
      PROVE  asg' = asg
  BY <1>2 DEF Opens, Rides, Ends
<1>3. ASSUME NEW t \in Trip, Closes(t)
      PROVE  asg'[a] # Unused /\ (~Active(a) => asg'[a] = asg[a])
  <2>1. \/ asg'[a] = asg[a]
        \/ Active(a) /\ asg'[a].status = "cancelled"
    BY <1>3, ClosesTable
  <2> QED BY <2>1 DEF Unused
<1>4. ASSUME NEW t \in Trip, NEW d \in Driver, NEW b \in Assignment, Offers(t, d, b)
      PROVE  asg'[a] = asg[a]
  BY <1>4 DEF Offers, TypeOK
<1>5. ASSUME NEW b \in Assignment, Takes(b)
      PROVE  asg'[a] # Unused /\ (~Active(a) => asg'[a] = asg[a])
  <2>1. \/ asg'[a] = asg[a]
        \/ Active(a) /\ asg'[a].status \in {"accepted", "cancelled"}
    <3>1. CASE a = b
      BY <1>5, <3>1, TakesTable DEF Takes
    <3>2. CASE a # b
      <4>1. a \in Assignment \ {b}
        BY <3>2
      <4> QED BY <1>5, <4>1, TakesTable
    <3> QED BY <3>1, <3>2
  <2> QED BY <2>1 DEF Unused
<1>6. ASSUME NEW b \in Assignment, NEW by \in {"reject", "expire"}, Answers(b, by)
      PROVE  asg'[a] # Unused /\ (~Active(a) => asg'[a] = asg[a])
  BY <1>6, AnswersTable
<1> QED BY <1>1, <1>2, <1>3, <1>4, <1>5, <1>6 DEF TableStep

----------------------------------------------------------------------------
(* What the handlers know stays true *)

\* What a handler knows of its offer and trip stays true whatever step is taken.
LEMMA HandlerStepOK ==
  ASSUME TypeOK, HandlerOK, Next
  PROVE  HandlerOK'
<1> USE DEF memVars, tripVars, offerVars, availVars
<1> DEFINE OK(v) ==
      /\ h[v].pc \in Matching => h[v].trip \in Trip
      /\ h[v].pc \in {"respond", "announce", "accept", "accepted"} =>
           h[v].offer \in Assignment /\ asg[h[v].offer] # Unused
      /\ h[v].pc = "respond" => h[v].trip \in Trip /\ h[v].by \in {"reject", "expire"}
      /\ h[v].pc = "accept" => h[v].trip \in Trip
      /\ h[v].pc = "accepted" => h[v].trip \in Trip /\ asg[h[v].offer].status = "accepted"
<1>0. TableStep
  BY NextIsTableStep
<1>1. \A a \in Assignment : asg[a] # Unused => asg'[a] # Unused
  BY <1>0, RowsKept
<1>2. \A a \in Assignment : asg[a].status = "accepted" => asg'[a].status = "accepted"
  BY <1>0, RowsKept DEF Unused, Active
<1>3. ASSUME NEW v \in Worker, h'[v] = h[v]
      PROVE  OK(v)'
  BY <1>1, <1>2, <1>3 DEF HandlerOK
<1>4. ASSUME NEW v \in Worker, h'[v] = Idle
      PROVE  OK(v)'
  BY <1>4 DEF Idle, Matching
<1>5. ASSUME NEW w \in Worker, Done(w)
      PROVE  HandlerOK'
  <2>1. \A v \in Worker : h'[v] = h[v] \/ h'[v] = Idle
    BY <1>5 DEF Done, TypeOK
  <2> QED BY <2>1, <1>3, <1>4 DEF HandlerOK
<1>6. ASSUME NEW w \in Worker, h[w].pc \in Matching, NEW pc \in Matching \ {"announce"}, Goto(w, pc)
      PROVE  HandlerOK'
  <2>1. \A v \in Worker \ {w} : h'[v] = h[v]
    BY <1>6 DEF Goto, TypeOK
  <2>2. h'[w].pc = pc /\ h'[w].trip = h[w].trip
    BY <1>6 DEF Goto, TypeOK, Handler
  <2>3. OK(w)'
    BY <1>6, <2>2 DEF HandlerOK, Matching
  <2> QED BY <2>1, <2>3, <1>3 DEF HandlerOK
<1>7. ASSUME NEW w \in Worker, HandlerStep(w)
      PROVE  HandlerOK'
  <2>1. CASE MatchTrip(w)
    BY <2>1, <1>5, <1>6 DEF MatchTrip, MatchError, Matching
  <2>2. CASE MatchList(w)
    BY <2>2, <1>5, <1>6 DEF MatchList, Matching
  <2>3. CASE MatchFind(w)
    <3>1. PICK C \in SUBSET Eligible(h[w].trip) :
            IF C = {} THEN NoOffer(w) ELSE h' = [h EXCEPT ![w].pc = "offer", ![w].cands = C]
      BY <2>3 DEF MatchFind
    <3>2. CASE C = {}
      BY <2>3, <3>1, <3>2, <1>5, <1>6 DEF MatchFind, NoOffer, Matching
    <3>3. CASE C # {}
      <4>1. \A v \in Worker \ {w} : h'[v] = h[v]
        BY <3>1, <3>3 DEF TypeOK
      <4>2. h'[w].pc = "offer" /\ h'[w].trip = h[w].trip
        BY <3>1, <3>3 DEF TypeOK, Handler
      <4>3. OK(w)'
        BY <2>3, <4>2 DEF MatchFind, HandlerOK, Matching
      <4> QED BY <4>1, <4>3, <1>3 DEF HandlerOK
    <3> QED BY <3>2, <3>3
  <2>4. ASSUME NEW d \in Driver, SkipCandidate(w, d)
        PROVE  HandlerOK'
    <3>1. CASE h[w].cands = {d}
      BY <2>4, <3>1, <1>5, <1>6 DEF SkipCandidate, NoOffer, Matching
    <3>2. CASE h[w].cands # {d}
      <4>1. h' = [h EXCEPT ![w].cands = @ \ {d}]
        BY <2>4, <3>2 DEF SkipCandidate
      <4>2. \A v \in Worker \ {w} : h'[v] = h[v]
        BY <4>1 DEF TypeOK
      <4>3. h'[w].pc = "offer" /\ h'[w].trip = h[w].trip
        BY <2>4, <4>1 DEF SkipCandidate, TypeOK, Handler
      <4>4. OK(w)'
        BY <2>4, <4>3 DEF SkipCandidate, HandlerOK, Matching
      <4> QED BY <4>2, <4>4, <1>3 DEF HandlerOK
    <3> QED BY <3>1, <3>2
  <2>5. ASSUME NEW d \in Driver, Offer(w, d)
        PROVE  HandlerOK'
    <3> DEFINE a == CHOOSE b \in Assignment : asg[b] = Unused
    <3>1. a \in Assignment
      BY <2>5, FreshRow DEF Offer
    <3>2. /\ h' = [h EXCEPT ![w].pc = "announce", ![w].offer = a, ![w].cands = {}]
          /\ asg' = [asg EXCEPT ![a] = [status |-> "offered", trip |-> h[w].trip, driver |-> d]]
      BY <2>5 DEF Offer
    <3> HIDE DEF a
    <3>3. \A v \in Worker \ {w} : h'[v] = h[v]
      BY <3>2 DEF TypeOK
    <3>4. h'[w].pc = "announce" /\ h'[w].trip = h[w].trip /\ h'[w].offer = a
      BY <3>2 DEF TypeOK, Handler
    <3>5. asg'[a].status = "offered"
      BY <3>1, <3>2 DEF TypeOK
    <3>6. OK(w)'
      <4>1. asg'[a] # Unused
        BY <3>5 DEF Unused
      <4>2. h[w].trip \in Trip
        BY <2>5 DEF Offer, HandlerOK, Matching
      <4> QED BY <3>1, <3>4, <4>1, <4>2
    <3> QED BY <3>3, <3>6, <1>3 DEF HandlerOK
  <2>6. CASE Announce(w) \/ CloseTrip(w) \/ AcceptRefused(w) \/ AnnounceAccepted(w)
    BY <2>6, <1>5 DEF Announce, CloseTrip, AcceptRefused, AnnounceAccepted
  <2>7. CASE Respond(w)
    <3>1. \A v \in Worker \ {w} : h'[v] = h[v]
      BY <2>7 DEF Respond, TypeOK
    <3>2. h'[w].pc = "match" /\ h'[w].trip = h[w].trip
      BY <2>7 DEF Respond, TypeOK, Handler
    <3>3. OK(w)'
      BY <2>7, <3>2 DEF Respond, HandlerOK, Matching
    <3> QED BY <3>1, <3>3, <1>3 DEF HandlerOK
  <2>8. CASE Accept(w)
    <3>1. \A v \in Worker \ {w} : h'[v] = h[v]
      BY <2>8 DEF Accept, Goto, TypeOK
    <3>2. h'[w].pc = "accepted" /\ h'[w].trip = h[w].trip /\ h'[w].offer = h[w].offer
      BY <2>8 DEF Accept, Goto, TypeOK, Handler
    <3>3. h[w].offer \in Assignment /\ h[w].trip \in Trip
      BY <2>8 DEF Accept, HandlerOK
    <3>4. Takes(h[w].offer)
      BY <2>8 DEF Accept, Takes
    <3>5. asg'[h[w].offer].status = "accepted"
      BY <3>3, <3>4, TakesTable
    <3>6. OK(w)'
      BY <3>2, <3>3, <3>5 DEF Matching, Unused
    <3> QED BY <3>1, <3>6, <1>3 DEF HandlerOK
  <2> QED BY <1>7, <2>1, <2>2, <2>3, <2>4, <2>5, <2>6, <2>7, <2>8 DEF HandlerStep
<1>8. ASSUME NEW w \in Worker, Arrival(w)
      PROVE  HandlerOK'
  <2>1. ASSUME NEW t \in Trip, StartAssigning(w, t)
        PROVE  HandlerOK'
    <3>1. \A v \in Worker \ {w} : h'[v] = h[v]
      BY <2>1 DEF StartAssigning, TypeOK
    <3>2. h'[w].pc = "match" /\ h'[w].trip = t
      BY <2>1 DEF StartAssigning, TypeOK, Idle
    <3> QED BY <3>1, <3>2, <1>3 DEF HandlerOK, Matching
  <2>2. ASSUME NEW a \in Assignment, NEW by \in {"reject", "expire"}, ReadOffer(w, a, by)
        PROVE  HandlerOK'
    <3>1. \A v \in Worker \ {w} : h'[v] = h[v]
      BY <2>2 DEF ReadOffer, TypeOK
    <3>2. h'[w].pc = "respond" /\ h'[w].by = by /\ h'[w].trip = asg[a].trip /\ h'[w].offer = a
      BY <2>2 DEF ReadOffer, TypeOK, Idle
    <3>3. asg[a].trip \in Trip /\ asg[a] # Unused
      BY <2>2, RowOrUnused DEF ReadOffer
    <3>4. OK(w)'
      BY <3>2, <3>3, <1>1 DEF Matching
    <3> QED BY <3>1, <3>4, <1>3 DEF HandlerOK
  <2>3. ASSUME NEW a \in Assignment, RejectRead(w, a) \/ ExpireRead(w, a) \/ TimerFires(w, a)
        PROVE  HandlerOK'
    <3>1. CASE h' = h
      BY <3>1, <1>3 DEF HandlerOK
    <3>2. CASE h' # h
      BY <2>2, <2>3, <3>2 DEF RejectRead, ExpireRead, TimerFires
    <3> QED BY <3>1, <3>2
  <2>4. ASSUME NEW a \in Assignment, AcceptRequest(w, a)
        PROVE  HandlerOK'
    <3>1. \A v \in Worker \ {w} : h'[v] = h[v]
      BY <2>4 DEF AcceptRequest, TypeOK
    <3>2. h'[w].pc = "accept" /\ h'[w].trip = asg[a].trip /\ h'[w].offer = a
      BY <2>4 DEF AcceptRequest, TypeOK, Idle
    <3>3. asg[a].trip \in Trip /\ asg[a] # Unused
      BY <2>4, RowOrUnused DEF AcceptRequest
    <3>4. OK(w)'
      BY <3>2, <3>3, <1>1 DEF Matching
    <3> QED BY <3>1, <3>4, <1>3 DEF HandlerOK
  <2> QED BY <1>8, <2>1, <2>3, <2>4 DEF Arrival
<1>9. ASSUME NEW w \in Worker, MatchFails(w) \/ RespondFails(w)
      PROVE  HandlerOK'
  BY <1>9, <1>5, <1>6 DEF MatchFails, RespondFails, MatchError, Matching
<1>10. ASSUME h' = h
       PROVE  HandlerOK'
  BY <1>10, <1>3 DEF HandlerOK
<1>11. CASE Crash
  BY <1>11, <1>4 DEF Crash, HandlerOK
<1>12. CASE \/ \E t \in Trip : RequestTrip(t) \/ MarkTripNoDriversFound(t) \/ Ride(t)
            \/ \E e \in autoArrive : AutoArrive(e)
            \/ \E d \in Driver : AvailabilityChanges(d)
            \/ \E a \in Assignment : TtlElapses(a)
  <2>1. h' = h
    BY <1>12 DEF RequestTrip, MarkTripNoDriversFound, Ride, DriverSetsOff, MarkArrivedPickup,
                 StartTripInProgress, CompleteTrip, AutoArrive, AvailabilityChanges, TtlElapses
  <2> QED BY <2>1, <1>10
<1> QED BY <1>7, <1>8, <1>9, <1>11, <1>12 DEF Next

----------------------------------------------------------------------------
(* The invariants of the tables *)

\* A step that offers nothing adds no active row.
LEMMA OnlyOffersAddActive ==
  ASSUME TypeOK, TableStep, NEW a \in Assignment, asg'[a].status = "offered", asg'[a] # asg[a]
  PROVE  \E t \in Trip, d \in Driver : Offers(t, d, a)
<1>1. CASE Untouched
  BY <1>1 DEF Untouched
<1>2. ASSUME NEW t \in Trip, Opens(t) \/ Rides(t) \/ Ends(t)
      PROVE  FALSE
  BY <1>2 DEF Opens, Rides, Ends
<1>3. ASSUME NEW t \in Trip, Closes(t)
      PROVE  FALSE
  BY <1>3, ClosesTable
<1>4. ASSUME NEW t \in Trip, NEW d \in Driver, NEW b \in Assignment, Offers(t, d, b)
      PROVE  \E u \in Trip, e \in Driver : Offers(u, e, a)
  <2>1. a = b
    BY <1>4 DEF Offers, TypeOK
  <2> QED BY <1>4, <2>1
<1>5. ASSUME NEW b \in Assignment, Takes(b)
      PROVE  FALSE
  <2>1. CASE a = b
    BY <1>5, <2>1, TakesTable
  <2>2. CASE a # b
    <3>1. a \in Assignment \ {b}
      BY <2>2
    <3> QED BY <1>5, <3>1, TakesTable
  <2> QED BY <2>1, <2>2
<1>6. ASSUME NEW b \in Assignment, NEW by \in {"reject", "expire"}, Answers(b, by)
      PROVE  FALSE
  BY <1>6, AnswersTable
<1> QED BY <1>1, <1>2, <1>3, <1>4, <1>5, <1>6 DEF TableStep

\* No step gives a trip a second active offer.
LEMMA OneActiveStep ==
  ASSUME TypeOK, AtMostOneActiveOffer, TableStep
  PROVE  AtMostOneActiveOffer'
<1> SUFFICES ASSUME NEW a \in Assignment, NEW b \in Assignment,
                    asg'[a].status = "offered", asg'[b].status = "offered",
                    asg'[a].trip = asg'[b].trip, a # b
             PROVE  FALSE
  BY DEF AtMostOneActiveOffer, Active
<1>1. ASSUME NEW t \in Trip, NEW d \in Driver, NEW c \in Assignment, Offers(t, d, c),
             NEW e \in Assignment, e # c, asg'[e].status = "offered",
             asg'[e].trip = asg'[c].trip
      PROVE  FALSE
  <2>1. asg'[c].trip = t /\ asg'[e] = asg[e]
    BY <1>1 DEF Offers, TypeOK
  <2>2. e \in ActiveOf(t)
    BY <1>1, <2>1 DEF ActiveOf, Active
  <2> QED BY <1>1, <2>2 DEF Offers, MayOffer
<1>2. CASE asg'[a] # asg[a]
  <2>1. PICK t \in Trip, d \in Driver : Offers(t, d, a)
    BY <1>2, OnlyOffersAddActive
  <2> QED BY <1>1, <2>1
<1>3. CASE asg'[b] # asg[b]
  <2>1. PICK t \in Trip, d \in Driver : Offers(t, d, b)
    BY <1>3, OnlyOffersAddActive
  <2> QED BY <1>1, <2>1
<1>4. CASE asg'[a] = asg[a] /\ asg'[b] = asg[b]
  BY <1>4 DEF AtMostOneActiveOffer, Active
<1> QED BY <1>2, <1>3, <1>4

\* No step leaves an active offer on a trip that is not ASSIGNING.
LEMMA OnlyWhileAssigningStep ==
  ASSUME TypeOK, OfferOnlyWhileAssigning, TableStep
  PROVE  OfferOnlyWhileAssigning'
<1> SUFFICES ASSUME NEW a \in Assignment, asg'[a].status = "offered"
             PROVE  tripStatus'[asg'[a].trip] = "assigning"
  BY DEF OfferOnlyWhileAssigning, Active
<1>1. CASE asg'[a] # asg[a]
  <2>1. PICK t \in Trip, d \in Driver : Offers(t, d, a)
    BY <1>1, OnlyOffersAddActive
  <2> QED BY <2>1 DEF Offers, MayOffer, TypeOK
<1>2. CASE asg'[a] = asg[a]
  <2>1. Active(a) /\ asg[a].trip \in Trip /\ tripStatus[asg[a].trip] = "assigning"
    BY <1>2, RowOrUnused DEF OfferOnlyWhileAssigning, Active
  <2>2. ASSUME NEW t \in Trip, Opens(t) \/ Rides(t) \/ Ends(t)
        PROVE  tripStatus'[asg[a].trip] = "assigning"
    BY <2>1, <2>2 DEF Opens, Rides, Ends, TypeOK
  <2>3. ASSUME NEW t \in Trip, Closes(t)
        PROVE  tripStatus'[asg[a].trip] = "assigning"
    <3>1. asg[a].trip # t
      BY <1>2, <2>1, <2>3, ClosesTable
    <3> QED BY <2>1, <2>3, <3>1 DEF Closes, MarkNoDriversFound, TypeOK
  <2>4. ASSUME NEW b \in Assignment, Takes(b)
        PROVE  tripStatus'[asg[a].trip] = "assigning"
    <3>1. a # b
      BY <1>2, <2>1, <2>4, TakesTable DEF Active
    <3>2. a \in Assignment \ {b}
      BY <3>1
    <3>3. asg[a].trip # asg[b].trip
      BY <1>2, <2>1, <2>4, <3>2, TakesTable DEF Active
    <3>4. tripStatus'[asg[a].trip] = tripStatus[asg[a].trip]
      BY <2>1, <2>4, <3>3 DEF Takes, TypeOK
    <3> QED BY <2>1, <3>4
  <2>5. CASE \/ Untouched
             \/ \E t \in Trip, d \in Driver, b \in Assignment : Offers(t, d, b)
             \/ \E b \in Assignment, by \in {"reject", "expire"} : Answers(b, by)
    BY <1>2, <2>1, <2>5 DEF Untouched, Offers, Answers
  <2> QED BY <1>2, <2>2, <2>3, <2>4, <2>5 DEF TableStep
<1> QED BY <1>1, <1>2

\* An accepted row and the trip it names go on naming the same driver.
LEMMA AcceptedStep ==
  ASSUME TypeOK, OfferOnlyWhileAssigning, AcceptedMatchesTrip, TableStep
  PROVE  AcceptedMatchesTrip'
<1> DEFINE Acc(a) == asg[a].status = "accepted"
           One(t) == IF tripStatus[t] \in Taken
                     THEN \E a \in Assignment :
                            asg[a] = [status |-> "accepted", trip |-> t, driver |-> tripDriver[t]]
                     ELSE tripDriver[t] = NoDriver
           Same(a, b) == Acc(a) /\ Acc(b) /\ asg[a].trip = asg[b].trip => a = b
           Owns(a) == Acc(a) => /\ tripStatus[asg[a].trip] \in Taken
                               /\ tripDriver[asg[a].trip] = asg[a].driver
<1>1. \A a \in Assignment : Acc(a) => asg'[a] = asg[a] /\ asg[a].trip \in Trip
  BY RowsKept, RowOrUnused DEF Unused, Active
<1>2. CASE /\ \A a \in Assignment : asg'[a].status = "accepted" => asg'[a] = asg[a]
           /\ \A t \in Trip : tripDriver'[t] = tripDriver[t]
           /\ \A t \in Trip : tripStatus'[t] \in Taken <=> tripStatus[t] \in Taken
  <2>1. \A t \in Trip : One(t)'
    <3> SUFFICES ASSUME NEW t \in Trip
                 PROVE  One(t)'
      OBVIOUS
    <3>1. One(t)
      BY DEF AcceptedMatchesTrip
    <3>2. CASE tripStatus[t] \in Taken
      <4>1. PICK a \in Assignment :
              asg[a] = [status |-> "accepted", trip |-> t, driver |-> tripDriver[t]]
        BY <3>1, <3>2
      <4>2. asg'[a] = [status |-> "accepted", trip |-> t, driver |-> tripDriver'[t]]
        BY <1>1, <1>2, <4>1
      <4> QED BY <1>2, <3>2, <4>2
    <3>3. CASE tripStatus[t] \notin Taken
      BY <1>2, <3>1, <3>3
    <3> QED BY <3>2, <3>3
  <2>2. \A a, b \in Assignment : Same(a, b)'
    BY <1>2 DEF AcceptedMatchesTrip
  <2>3. \A a \in Assignment : Owns(a)'
    BY <1>1, <1>2 DEF AcceptedMatchesTrip
  <2> QED BY <2>1, <2>2, <2>3 DEF AcceptedMatchesTrip
<1>3. ASSUME NEW t \in Trip, Opens(t) \/ Rides(t) \/ Ends(t)
      PROVE  AcceptedMatchesTrip'
  <2>1. asg' = asg /\ tripDriver' = tripDriver
    BY <1>3 DEF Opens, Rides, Ends
  <2>2. \A u \in Trip : tripStatus'[u] \in Taken <=> tripStatus[u] \in Taken
    BY <1>3 DEF Opens, Rides, Ends, Taken, TypeOK
  <2> QED BY <1>2, <2>1, <2>2
<1>4. ASSUME NEW t \in Trip, Closes(t)
      PROVE  AcceptedMatchesTrip'
  <2>1. \A a \in Assignment : asg'[a].status = "accepted" => asg'[a] = asg[a]
    BY <1>4, ClosesTable
  <2>2. tripDriver' = tripDriver
    BY <1>4 DEF Closes
  <2>3. \A u \in Trip : tripStatus'[u] \in Taken <=> tripStatus[u] \in Taken
    BY <1>4 DEF Closes, MarkNoDriversFound, Taken, TypeOK
  <2> QED BY <1>2, <2>1, <2>2, <2>3
<1>5. ASSUME NEW t \in Trip, NEW d \in Driver, NEW b \in Assignment, Offers(t, d, b)
      PROVE  AcceptedMatchesTrip'
  <2>1. asg'[b].status = "offered" /\ \A a \in Assignment \ {b} : asg'[a] = asg[a]
    BY <1>5 DEF Offers, TypeOK
  <2>2. tripDriver' = tripDriver /\ tripStatus' = tripStatus
    BY <1>5 DEF Offers
  <2> QED BY <1>2, <2>1, <2>2
<1>6. ASSUME NEW b \in Assignment, NEW by \in {"reject", "expire"}, Answers(b, by)
      PROVE  AcceptedMatchesTrip'
  <2>1. \A a \in Assignment : asg'[a].status = "accepted" => asg'[a] = asg[a]
    <3> SUFFICES ASSUME NEW a \in Assignment, asg'[a].status = "accepted"
                 PROVE  asg'[a] = asg[a]
      OBVIOUS
    <3>1. CASE a = b
      BY <1>6, <3>1, AnswersTable
    <3>2. CASE a # b
      BY <1>6, <3>2, AnswersTable
    <3> QED BY <3>1, <3>2
  <2>2. tripDriver' = tripDriver /\ tripStatus' = tripStatus
    BY <1>6 DEF Answers
  <2> QED BY <1>2, <2>1, <2>2
<1>7. ASSUME NEW b \in Assignment, Takes(b)
      PROVE  AcceptedMatchesTrip'
  <2> DEFINE t == asg[b].trip
             d == asg[b].driver
  <2>1. /\ t \in Trip /\ d \in Driver /\ tripStatus[t] = "assigning"
        /\ tripStatus' = [tripStatus EXCEPT ![t] = "accepted"]
        /\ tripDriver' = [tripDriver EXCEPT ![t] = d]
    BY <1>7, RowOrUnused DEF Takes, OfferOnlyWhileAssigning
  <2>2. asg'[b] = [status |-> "accepted", trip |-> t, driver |-> d]
    BY <1>7, TakesTable
  <2>3. \A a \in Assignment \ {b} : asg'[a].status = "accepted" => asg'[a] = asg[a]
    BY <1>7, TakesTable
  <2>4. \A a \in Assignment : Acc(a) => asg[a].trip # t /\ a # b
    BY <1>7, <2>1 DEF AcceptedMatchesTrip, Taken, Takes, Active
  <2>5. /\ tripStatus'[t] = "accepted" /\ tripDriver'[t] = d
        /\ \A u \in Trip \ {t} : tripStatus'[u] = tripStatus[u] /\ tripDriver'[u] = tripDriver[u]
    BY <2>1 DEF TypeOK
  <2> HIDE DEF t, d
  <2>6. ASSUME NEW u \in Trip
        PROVE  One(u)'
    <3>1. CASE u = t
      BY <2>2, <2>5, <3>1 DEF Taken
    <3>2. CASE u # t /\ tripStatus[u] \in Taken
      <4>1. PICK a \in Assignment :
              asg[a] = [status |-> "accepted", trip |-> u, driver |-> tripDriver[u]]
        BY <3>2 DEF AcceptedMatchesTrip
      <4>2. asg'[a] = [status |-> "accepted", trip |-> u, driver |-> tripDriver'[u]]
        BY <1>1, <2>5, <3>2, <4>1
      <4> QED BY <2>5, <3>2, <4>2
    <3>3. CASE u # t /\ tripStatus[u] \notin Taken
      BY <2>5, <3>3 DEF AcceptedMatchesTrip
    <3> QED BY <3>1, <3>2, <3>3
  <2>7. \A a, c \in Assignment : Same(a, c)'
    <3>1. asg'[b].trip = t
      BY <2>2
    <3>2. \A a \in Assignment \ {b} : asg'[a].status = "accepted" =>
             Acc(a) /\ asg'[a].trip = asg[a].trip /\ asg'[a].trip # asg'[b].trip
      BY <2>3, <2>4, <3>1
    <3> QED BY <3>1, <3>2 DEF AcceptedMatchesTrip
  <2>8. ASSUME NEW a \in Assignment, asg'[a].status = "accepted"
        PROVE  tripStatus'[asg'[a].trip] \in Taken /\ tripDriver'[asg'[a].trip] = asg'[a].driver
    <3>1. CASE a = b
      BY <2>2, <2>5, <3>1 DEF Taken
    <3>2. CASE a # b
      <4>1. Acc(a) /\ asg'[a] = asg[a]
        BY <2>3, <2>8, <3>2
      <4>2. asg[a].trip \in Trip \ {t}
        BY <1>1, <2>4, <4>1
      <4> QED BY <2>5, <4>1, <4>2 DEF AcceptedMatchesTrip
    <3> QED BY <3>1, <3>2
  <2> QED BY <2>6, <2>7, <2>8 DEF AcceptedMatchesTrip
<1>8. CASE Untouched
  BY <1>2, <1>8 DEF Untouched
<1> QED BY <1>3, <1>4, <1>5, <1>6, <1>7, <1>8 DEF TableStep

\* A driver's current trip goes on being one he has taken.
LEMMA OccupiedStep ==
  ASSUME TypeOK, OfferOnlyWhileAssigning, OccupiedByOwnTrip, TableStep
  PROVE  OccupiedByOwnTrip'
<1> SUFFICES ASSUME NEW d \in Driver, onTrip'[d] # NoTrip
             PROVE  tripDriver'[onTrip'[d]] = d /\ tripStatus'[onTrip'[d]] \in UnderWay
  BY DEF OccupiedByOwnTrip
<1>0. onTrip[d] # NoTrip =>
        onTrip[d] \in Trip /\ tripDriver[onTrip[d]] = d /\ tripStatus[onTrip[d]] \in UnderWay
  BY DEF OccupiedByOwnTrip, TypeOK
<1>1. ASSUME NEW t \in Trip, Opens(t) \/ Closes(t) \/ Rides(t)
      PROVE  tripDriver'[onTrip'[d]] = d /\ tripStatus'[onTrip'[d]] \in UnderWay
  BY <1>0, <1>1 DEF Opens, Closes, MarkNoDriversFound, Rides, UnderWay, TypeOK
<1>2. ASSUME NEW t \in Trip, Ends(t)
      PROVE  tripDriver'[onTrip'[d]] = d /\ tripStatus'[onTrip'[d]] \in UnderWay
  <2>1. onTrip'[d] = onTrip[d] /\ tripDriver[t] # d
    BY <1>2 DEF Ends, TypeOK
  <2>2. onTrip[d] # t /\ onTrip[d] \in Trip
    BY <1>0, <2>1
  <2> QED BY <1>0, <1>2, <2>1, <2>2 DEF Ends, TypeOK
<1>3. ASSUME NEW b \in Assignment, Takes(b)
      PROVE  tripDriver'[onTrip'[d]] = d /\ tripStatus'[onTrip'[d]] \in UnderWay
  <2> DEFINE t == asg[b].trip
             e == asg[b].driver
  <2>1. /\ t \in Trip /\ e \in Driver /\ tripStatus[t] = "assigning"
        /\ tripStatus' = [tripStatus EXCEPT ![t] = "accepted"]
        /\ tripDriver' = [tripDriver EXCEPT ![t] = e]
        /\ onTrip' = [onTrip EXCEPT ![e] = t]
    BY <1>3, RowOrUnused DEF Takes, OfferOnlyWhileAssigning
  <2> HIDE DEF t, e
  <2>2. CASE d = e
    BY <2>1, <2>2 DEF TypeOK, UnderWay
  <2>3. CASE d # e
    <3>1. onTrip'[d] = onTrip[d] /\ onTrip[d] # t
      BY <1>0, <2>1, <2>3 DEF TypeOK, UnderWay
    <3> QED BY <1>0, <2>1, <3>1 DEF TypeOK
  <2> QED BY <2>2, <2>3
<1>4. CASE \/ Untouched
           \/ \E t \in Trip, e \in Driver, b \in Assignment : Offers(t, e, b)
           \/ \E b \in Assignment, by \in {"reject", "expire"} : Answers(b, by)
  BY <1>0, <1>4 DEF Untouched, Offers, Answers
<1> QED BY <1>1, <1>2, <1>3, <1>4 DEF TableStep

----------------------------------------------------------------------------
(* Every active offer is watched *)

\* While nothing fails, no step leaves an active offer without a timer or a handler.
LEMMA WatchedStep ==
  ASSUME TypeOK, HandlerOK, EveryOfferIsWatched, Next
  PROVE  EveryOfferIsWatched'
<1> USE DEF memVars, tripVars, offerVars, availVars
<1> DEFINE Hands(a, w) == h[w].offer = a /\ h[w].pc \in {"announce", "respond"}
           Watched(a) == a \in timers \/ \E w \in Worker : Hands(a, w)
<1> SUFFICES ASSUME faults' = 0, NEW a \in Assignment, asg'[a].status = "offered"
             PROVE  Watched(a)'
  BY DEF EveryOfferIsWatched, Active
<1>1. asg'[a] = asg[a] => Active(a)
  BY DEF Active
<1>2. ASSUME NEW w \in Worker, asg'[a] = asg[a], faults' = faults, ~Hands(a, w),
             \A v \in Worker \ {w} : h'[v] = h[v], a \in timers => a \in timers'
      PROVE  Watched(a)'
  <2>1. Watched(a)
    BY <1>1, <1>2 DEF EveryOfferIsWatched
  <2>2. CASE a \in timers
    BY <1>2, <2>2
  <2>3. ASSUME NEW v \in Worker, Hands(a, v)
        PROVE  Hands(a, v)'
    <3>1. v \in Worker \ {w}
      BY <1>2, <2>3
    <3> QED BY <1>2, <2>3, <3>1
  <2> QED BY <2>1, <2>2, <2>3
<1>3. ASSUME asg'[a] = asg[a], faults' = faults, h' = h, timers' = timers
      PROVE  Watched(a)'
  BY <1>1, <1>3 DEF EveryOfferIsWatched
<1>4. ASSUME NEW w \in Worker, HandlerStep(w)
      PROVE  Watched(a)'
  <2>1. CASE MatchTrip(w) \/ MatchList(w) \/ AcceptRefused(w)
    <3>1. \A v \in Worker \ {w} : h'[v] = h[v]
      BY <2>1 DEF MatchTrip, MatchList, AcceptRefused, MatchError, Goto, Done, TypeOK
    <3>2. h[w].pc \in {"match", "list", "accept"}
      BY <2>1 DEF MatchTrip, MatchList, AcceptRefused
    <3> QED BY <2>1, <3>1, <3>2, <1>2 DEF MatchTrip, MatchList, AcceptRefused
  <2>2. CASE MatchFind(w) \/ \E d \in Driver : SkipCandidate(w, d)
    <3>1. \A v \in Worker \ {w} : h'[v] = h[v]
      BY <2>2 DEF MatchFind, SkipCandidate, NoOffer, Goto, Done, TypeOK
    <3>2. h[w].pc \in {"find", "offer"}
      BY <2>2 DEF MatchFind, SkipCandidate
    <3> QED BY <2>2, <3>1, <3>2, <1>2 DEF MatchFind, SkipCandidate
  <2>3. ASSUME NEW d \in Driver, Offer(w, d)
        PROVE  Watched(a)'
    <3> DEFINE b == CHOOSE c \in Assignment : asg[c] = Unused
    <3>1. /\ h' = [h EXCEPT ![w].pc = "announce", ![w].offer = b, ![w].cands = {}]
          /\ asg' = [asg EXCEPT ![b] = [status |-> "offered", trip |-> h[w].trip, driver |-> d]]
      BY <2>3 DEF Offer
    <3> HIDE DEF b
    <3>2. CASE a = b
      <4>1. h'[w].offer = a /\ h'[w].pc = "announce"
        BY <3>1, <3>2 DEF TypeOK, Handler
      <4> QED BY <4>1
    <3>3. CASE a # b
      <4>1. asg'[a] = asg[a] /\ \A v \in Worker \ {w} : h'[v] = h[v]
        BY <3>1, <3>3 DEF TypeOK
      <4> QED BY <2>3, <4>1, <1>2 DEF Offer
    <3> QED BY <3>2, <3>3
  <2>4. CASE Announce(w)
    <3>1. CASE h[w].offer = a
      BY <2>4, <3>1 DEF Announce
    <3>2. CASE h[w].offer # a
      <4>1. \A v \in Worker \ {w} : h'[v] = h[v]
        BY <2>4 DEF Announce, Done, TypeOK
      <4> QED BY <2>4, <3>2, <4>1, <1>2 DEF Announce
    <3> QED BY <3>1, <3>2
  <2>5. CASE CloseTrip(w)
    <3>1. h[w].trip \in Trip
      BY <2>5 DEF CloseTrip, HandlerOK, Matching
    <3>2. asg'[a] = asg[a]
      <4>1. asg' = asg \/ Closes(h[w].trip)
        BY <2>5 DEF CloseTrip, Closes
      <4> QED BY <3>1, <4>1, ClosesTable
    <3>3. \A v \in Worker \ {w} : h'[v] = h[v]
      BY <2>5 DEF CloseTrip, Done, TypeOK
    <3> QED BY <2>5, <3>2, <3>3, <1>2 DEF CloseTrip
  <2>6. CASE Respond(w)
    <3>1. /\ h[w].offer \in Assignment /\ h[w].by \in {"reject", "expire"}
          /\ Answers(h[w].offer, h[w].by)
      BY <2>6 DEF Respond, HandlerOK, Answers
    <3>2. a # h[w].offer /\ asg'[a] = asg[a]
      BY <3>1, AnswersTable
    <3>3. \A v \in Worker \ {w} : h'[v] = h[v]
      BY <2>6 DEF Respond, TypeOK
    <3> QED BY <2>6, <3>2, <3>3, <1>2 DEF Respond
  <2>7. CASE Accept(w)
    <3>1. h[w].offer \in Assignment /\ Takes(h[w].offer)
      BY <2>7 DEF Accept, HandlerOK, Takes
    <3>2. asg'[a] = asg[a]
      <4>1. a # h[w].offer
        BY <3>1, TakesTable
      <4>2. a \in Assignment \ {h[w].offer}
        BY <4>1
      <4> QED BY <3>1, <4>2, TakesTable
    <3>3. \A v \in Worker \ {w} : h'[v] = h[v]
      BY <2>7 DEF Accept, Goto, TypeOK
    <3> QED BY <2>7, <3>2, <3>3, <1>2 DEF Accept
  <2>8. CASE AnnounceAccepted(w)
    <3>1. asg' = asg /\ a # h[w].offer
      BY <2>8 DEF AnnounceAccepted, HandlerOK
    <3>2. \A v \in Worker \ {w} : h'[v] = h[v]
      BY <2>8 DEF AnnounceAccepted, Done, TypeOK
    <3> QED BY <2>8, <3>1, <3>2, <1>2 DEF AnnounceAccepted
  <2> QED BY <1>4, <2>1, <2>2, <2>3, <2>4, <2>5, <2>6, <2>7, <2>8 DEF HandlerStep
<1>5. ASSUME NEW w \in Worker, Arrival(w)
      PROVE  Watched(a)'
  <2>2. ASSUME NEW b \in Assignment, NEW by \in {"reject", "expire"}, ReadOffer(w, b, by)
        PROVE  /\ ~Hands(a, w)
               /\ \A v \in Worker \ {w} : h'[v] = h[v]
               /\ b = a => Hands(a, w)'
    BY <2>2 DEF ReadOffer, Idle, TypeOK
  <2>3. ASSUME NEW t \in Trip, StartAssigning(w, t)
        PROVE  Watched(a)'
    <3>1. ~Hands(a, w) /\ \A v \in Worker \ {w} : h'[v] = h[v]
      BY <2>3 DEF StartAssigning, Idle, TypeOK
    <3> QED BY <2>3, <3>1, <1>2 DEF StartAssigning
  <2>4. ASSUME NEW b \in Assignment, RejectRead(w, b) \/ ExpireRead(w, b)
        PROVE  Watched(a)'
    BY <2>2, <2>4, <1>2 DEF RejectRead, ExpireRead
  <2>5. ASSUME NEW b \in Assignment, AcceptRequest(w, b)
        PROVE  Watched(a)'
    <3>1. ~Hands(a, w) /\ \A v \in Worker \ {w} : h'[v] = h[v]
      BY <2>5 DEF AcceptRequest, Idle, TypeOK
    <3> QED BY <2>5, <3>1, <1>2 DEF AcceptRequest
  <2>6. ASSUME NEW b \in Assignment, TimerFires(w, b)
        PROVE  Watched(a)'
    <3>1. asg' = asg /\ faults' = faults /\ timers' = timers \ {b}
      BY <2>6 DEF TimerFires
    <3>2. CASE ReadOffer(w, b, "expire")
      BY <2>2, <3>1, <3>2, <1>2
    <3>3. CASE ~Active(b) /\ h' = h
      <4>1. a # b
        BY <1>1, <3>1, <3>3
      <4> QED BY <1>1, <3>1, <3>3, <4>1 DEF EveryOfferIsWatched
    <3> QED BY <2>6, <3>2, <3>3 DEF TimerFires
  <2> QED BY <1>5, <2>3, <2>4, <2>5, <2>6 DEF Arrival
<1>6. CASE Crash \/ \E w \in Worker : MatchFails(w) \/ RespondFails(w)
  <2>1. faults' = faults + 1 /\ faults \in Nat
    BY <1>6, DispatchAssumption DEF Crash, MatchFails, RespondFails, TypeOK
  <2> QED BY <2>1
<1>7. ASSUME NEW t \in Trip, MarkTripNoDriversFound(t)
      PROVE  Watched(a)'
  <2>1. asg'[a] = asg[a]
    BY <1>7, ClosesTable DEF MarkTripNoDriversFound, Closes
  <2> QED BY <1>7, <2>1, <1>3 DEF MarkTripNoDriversFound
<1>8. CASE \/ \E t \in Trip : RequestTrip(t) \/ Ride(t)
           \/ \E e \in autoArrive : AutoArrive(e)
           \/ \E d \in Driver : AvailabilityChanges(d)
           \/ \E b \in Assignment : TtlElapses(b)
  <2>1. asg' = asg /\ faults' = faults /\ h' = h /\ timers' = timers
    BY <1>8 DEF RequestTrip, Ride, DriverSetsOff, MarkArrivedPickup, StartTripInProgress,
                CompleteTrip, AutoArrive, AvailabilityChanges, TtlElapses
  <2> QED BY <2>1, <1>3
<1> QED BY <1>4, <1>5, <1>6, <1>7, <1>8 DEF Next

----------------------------------------------------------------------------
(* The theorems *)

\* The invariant holds of the empty tables.
LEMMA InitIInv == Init => IInv
<1> SUFFICES ASSUME Init PROVE IInv
  OBVIOUS
<1>1. TypeOK
  BY InitTypeOK
<1>2. HandlerOK
  BY DEF Init, HandlerOK, Idle, Matching
<1>3. /\ AtMostOneActiveOffer /\ OfferOnlyWhileAssigning
      /\ AcceptedMatchesTrip /\ OccupiedByOwnTrip /\ EveryOfferIsWatched
  BY DEF Init, AtMostOneActiveOffer, OfferOnlyWhileAssigning, AcceptedMatchesTrip,
         OccupiedByOwnTrip, EveryOfferIsWatched, Active, Unused, Taken
<1> QED BY <1>1, <1>2, <1>3 DEF IInv

\* The invariant is inductive.
LEMMA NextIInv == IInv /\ [Next]_vars => IInv'
<1> SUFFICES ASSUME IInv, [Next]_vars PROVE IInv'
  OBVIOUS
<1>1. CASE Next
  <2>1. TableStep
    BY <1>1, NextIsTableStep DEF IInv
  <2>2. TypeOK' /\ HandlerOK'
    BY <1>1, TypeStep, HandlerStepOK DEF IInv
  <2>3. AtMostOneActiveOffer' /\ OfferOnlyWhileAssigning'
    BY <2>1, OneActiveStep, OnlyWhileAssigningStep DEF IInv
  <2>4. AcceptedMatchesTrip' /\ OccupiedByOwnTrip'
    BY <2>1, AcceptedStep, OccupiedStep DEF IInv
  <2>5. EveryOfferIsWatched'
    BY <1>1, WatchedStep DEF IInv
  <2> QED BY <2>2, <2>3, <2>4, <2>5 DEF IInv
<1>2. CASE UNCHANGED vars
  BY <1>2 DEF vars, memVars, tripVars, offerVars, availVars, IInv, TypeOK, HandlerOK,
       AtMostOneActiveOffer, OfferOnlyWhileAssigning, AcceptedMatchesTrip, OccupiedByOwnTrip,
       EveryOfferIsWatched, Active
<1> QED BY <1>1, <1>2

\* The inductive invariant holds of every behaviour of the dispatch.
THEOREM Invariance == Spec => []IInv
<1>1. Init => IInv
  BY InitIInv
<1>2. IInv /\ [Next]_vars => IInv'
  BY NextIInv
<1> QED BY <1>1, <1>2, PTL DEF Spec

\* Every variable keeps its type.
THEOREM TypeCorrect == Spec => []TypeOK
<1>1. IInv => TypeOK
  BY DEF IInv
<1> QED BY <1>1, Invariance, PTL

\* For any number of trips, drivers and concurrent handlers, a trip is offered to one
\* driver at a time, only while it is being assigned.
THEOREM OffersExclusive == Spec => []OffersAreExclusive
<1>1. IInv => OffersAreExclusive
  BY DEF IInv, OffersAreExclusive
<1> QED BY <1>1, Invariance, PTL

\* The assignments table, the trips table and the drivers' current trips agree.
THEOREM TablesAgree == Spec => []TablesConsistent
<1>1. IInv => TablesConsistent
  BY DEF IInv, TablesConsistent
<1> QED BY <1>1, Invariance, PTL

\* Until something fails, no active offer is left without somebody to expire it.
THEOREM OffersWatched == Spec => []EveryOfferIsWatched
<1>1. IInv => EveryOfferIsWatched
  BY DEF IInv
<1> QED BY <1>1, Invariance, PTL

\* No step, of whatever handler, changes an assignment that has been answered.
THEOREM AnswersFinal == Spec => AnswerIsFinal
<1>1. IInv /\ [Next]_vars =>
        [\A a \in Assignment : asg[a] # Unused /\ ~Active(a) => asg'[a] = asg[a]]_vars
  BY NextIsTableStep, RowsKept DEF IInv
<1> QED BY <1>1, Invariance, PTL DEF Spec, AnswerIsFinal

----------------------------------------------------------------------------
(* Refinement of TripLifecycle *)

ActiveIn(table, t) == {a \in Assignment : table[a].status = "offered" /\ table[a].trip = t}

HolderIn(table) == [t \in Trip |->
  IF ActiveIn(table, t) = {} THEN NoDriver
  ELSE table[CHOOSE a \in ActiveIn(table, t) : TRUE].driver]

\* The mapped holder, now and in the next state, is read off the table of that state.
LEMMA HolderIsHolderIn == Holder = HolderIn(asg) /\ Holder' = HolderIn(asg')
BY DEF Holder, HolderIn, ActiveIn, ActiveOf, Active

\* Whoever is being offered a trip holds it; when nobody is, nobody does.
LEMMA HolderValue ==
  ASSUME NEW table, NEW t \in Trip
  PROVE  /\ ActiveIn(table, t) = {} => HolderIn(table)[t] = NoDriver
         /\ \A a \in ActiveIn(table, t) :
              (\A b \in ActiveIn(table, t) : b = a) => HolderIn(table)[t] = table[a].driver
BY DEF HolderIn

\* A table that keeps the active rows of a trip keeps its holder.
LEMMA HolderSame ==
  ASSUME NEW table, NEW new, NEW u \in Trip,
         ActiveIn(new, u) = ActiveIn(table, u),
         \A a \in ActiveIn(table, u) : new[a] = table[a]
  PROVE  HolderIn(new)[u] = HolderIn(table)[u]
<1>1. CASE ActiveIn(table, u) = {}
  BY <1>1, HolderValue
<1>2. CASE ActiveIn(table, u) # {}
  <2> DEFINE c == CHOOSE a \in ActiveIn(table, u) : TRUE
  <2>1. c \in ActiveIn(table, u)
    BY <1>2
  <2>2. HolderIn(new)[u] = new[c].driver
    BY <1>2 DEF HolderIn
  <2>3. HolderIn(table)[u] = table[c].driver
    BY <1>2 DEF HolderIn
  <2> QED BY <2>1, <2>2, <2>3
<1> QED BY <1>1, <1>2

\* A step that concerns the active rows of one trip changes that trip's holder only.
LEMMA HolderChange ==
  ASSUME NEW t \in Trip, NEW value, Holder'[t] = value,
         \A u \in Trip \ {t} :
           /\ ActiveIn(asg', u) = ActiveIn(asg, u)
           /\ \A a \in ActiveIn(asg, u) : asg'[a] = asg[a]
  PROVE  Holder' = [Holder EXCEPT ![t] = value]
<1>1. \A u \in Trip \ {t} : Holder'[u] = Holder[u]
  <2> SUFFICES ASSUME NEW u \in Trip \ {t}
               PROVE  HolderIn(asg')[u] = HolderIn(asg)[u]
    BY HolderIsHolderIn
  <2> QED BY HolderSame
<1>2. Holder' = [u \in Trip |-> Holder'[u]] /\ Holder = [u \in Trip |-> Holder[u]]
  BY DEF Holder
<1> QED BY <1>1, <1>2

\* The initial states map to the initial states of TripLifecycle.
LEMMA InitLifecycle == Init => Lifecycle!Init
BY DEF Init, Lifecycle!Init, Holder, ActiveOf, Active, Unused

\* Every step maps to a step of TripLifecycle or to a stutter.
LEMMA StepLifecycle ==
  ASSUME IInv, TableStep
  PROVE  [Lifecycle!Next]_(Lifecycle!lvars)
<1> USE DEF IInv
<1>1. CASE Untouched
  BY <1>1, HolderIsHolderIn DEF Untouched, Lifecycle!lvars
<1>2. ASSUME NEW t \in Trip, Opens(t) \/ Rides(t) \/ Ends(t)
      PROVE  Lifecycle!Next
  <2>1. Holder' = Holder /\ tripDriver' = tripDriver
    BY <1>2, HolderIsHolderIn DEF Opens, Rides, Ends
  <2>2. Lifecycle!Request(t) \/ Lifecycle!Assigning(t) \/ Lifecycle!Advance(t)
    BY <1>2, <2>1 DEF Opens, Rides, Ends, Lifecycle!Request, Lifecycle!Assigning,
                      Lifecycle!Advance, Lifecycle!Move
  <2> QED BY <2>2 DEF Lifecycle!Next
<1>3. ASSUME NEW t \in Trip, Closes(t)
      PROVE  Lifecycle!Next
  <2>1. \A a \in Assignment :
          \/ asg'[a] = asg[a] /\ ~(asg[a].status = "offered" /\ asg[a].trip = t)
          \/ /\ asg[a].status = "offered" /\ asg[a].trip = t
             /\ asg'[a].status = "cancelled"
    BY <1>3, ClosesTable DEF Active
  <2>2. ActiveIn(asg', t) = {}
    BY <2>1 DEF ActiveIn
  <2>3. \A u \in Trip \ {t} :
          /\ ActiveIn(asg', u) = ActiveIn(asg, u)
          /\ \A a \in ActiveIn(asg, u) : asg'[a] = asg[a]
    BY <2>1 DEF ActiveIn
  <2>4. Holder'[t] = NoDriver
    BY <2>2, HolderValue, HolderIsHolderIn
  <2>5. Holder' = [Holder EXCEPT ![t] = NoDriver]
    BY <2>3, <2>4, HolderChange
  <2>6. Lifecycle!Close(t)
    BY <1>3, <2>5 DEF Closes, MarkNoDriversFound, Lifecycle!Close, Lifecycle!Move
  <2> QED BY <2>6 DEF Lifecycle!Next
<1>4. ASSUME NEW t \in Trip, NEW d \in Driver, NEW a \in Assignment, Offers(t, d, a)
      PROVE  Lifecycle!Next
  <2>1. /\ asg'[a].status = "offered" /\ asg'[a].trip = t /\ asg'[a].driver = d
        /\ \A b \in Assignment \ {a} : asg'[b] = asg[b]
        /\ asg[a].status # "offered"
    BY <1>4 DEF Offers, TypeOK, Unused
  <2>2. ActiveIn(asg, t) = {}
    BY <1>4 DEF Offers, MayOffer, ActiveOf, Active, ActiveIn
  <2>3. ActiveIn(asg', t) = {a}
    BY <2>1, <2>2 DEF ActiveIn
  <2>4. Holder[t] = NoDriver /\ Holder'[t] = d
    BY <2>1, <2>2, <2>3, HolderValue, HolderIsHolderIn
  <2>5. \A u \in Trip \ {t} :
          /\ ActiveIn(asg', u) = ActiveIn(asg, u)
          /\ \A b \in ActiveIn(asg, u) : asg'[b] = asg[b]
    BY <2>1 DEF ActiveIn
  <2>6. Holder' = [Holder EXCEPT ![t] = d]
    BY <2>4, <2>5, HolderChange
  <2>7. Lifecycle!Offer(t, d)
    BY <1>4, <2>4, <2>6 DEF Offers, MayOffer, Lifecycle!Offer
  <2> QED BY <2>7 DEF Lifecycle!Next
<1>5. ASSUME NEW a \in Assignment, NEW by \in {"reject", "expire"}, Answers(a, by)
      PROVE  [Lifecycle!Next]_(Lifecycle!lvars)
  <2> DEFINE t == asg[a].trip
  <2>1. t \in Trip
    BY <1>5, RowOrUnused DEF Answers
  <2>2. CASE ~Active(a)
    <3>1. \A b \in Assignment : asg'[b] = asg[b]
      BY <1>5, <2>2, AnswersTable
    <3>2. asg' = asg
      BY <1>5, <3>1 DEF Answers, TypeOK
    <3> QED BY <1>5, <3>2, HolderIsHolderIn DEF Answers, Lifecycle!lvars
  <2>3. CASE Active(a)
    <3>1. asg'[a].status # "offered" /\ \A b \in Assignment \ {a} : asg'[b] = asg[b]
      BY <1>5, AnswersTable
    <3>2. \A b \in ActiveIn(asg, t) : b = a
      BY <2>3 DEF AtMostOneActiveOffer, Active, ActiveIn
    <3>3. ActiveIn(asg', t) = {}
      BY <3>1, <3>2 DEF ActiveIn
    <3>4. \A u \in Trip \ {t} :
            /\ ActiveIn(asg', u) = ActiveIn(asg, u)
            /\ \A b \in ActiveIn(asg, u) : asg'[b] = asg[b]
      BY <3>1 DEF ActiveIn
    <3> HIDE DEF t
    <3>5. Holder'[t] = NoDriver
      BY <2>1, <3>3, HolderValue, HolderIsHolderIn
    <3>6. Holder' = [Holder EXCEPT ![t] = NoDriver]
      BY <2>1, <3>4, <3>5, HolderChange
    <3>7. Lifecycle!Withdraw(t)
      BY <1>5, <3>6 DEF Answers, Lifecycle!Withdraw
    <3> QED BY <2>1, <3>7 DEF Lifecycle!Next
  <2> QED BY <2>2, <2>3
<1>6. ASSUME NEW a \in Assignment, Takes(a)
      PROVE  Lifecycle!Next
  <2> DEFINE t == asg[a].trip
             d == asg[a].driver
  <2>1. t \in Trip /\ d \in Driver /\ Active(a) /\ tripStatus[t] = "assigning"
    BY <1>6, RowOrUnused DEF Takes, OfferOnlyWhileAssigning
  <2>2. a \in ActiveIn(asg, t) /\ \A b \in ActiveIn(asg, t) : b = a
    BY <2>1 DEF AtMostOneActiveOffer, Active, ActiveIn
  <2>3. asg'[a].status = "accepted"
    BY <1>6, TakesTable
  <2>4. \A b \in Assignment \ {a} : asg'[b] = asg[b]
    <3> SUFFICES ASSUME NEW b \in Assignment \ {a}
                 PROVE  asg'[b] = asg[b]
      OBVIOUS
    <3>1. ~(Active(b) /\ asg[b].trip = asg[a].trip)
      BY <2>2 DEF ActiveIn, Active
    <3> QED BY <1>6, <3>1, TakesTable
  <2>5. ActiveIn(asg', t) = {}
    BY <2>2, <2>3, <2>4 DEF ActiveIn
  <2>6. \A u \in Trip \ {t} :
          /\ ActiveIn(asg', u) = ActiveIn(asg, u)
          /\ \A b \in ActiveIn(asg, u) : asg'[b] = asg[b]
    BY <2>3, <2>4 DEF ActiveIn
  <2>7. tripStatus' = [tripStatus EXCEPT ![t] = "accepted"] /\ tripDriver' = [tripDriver EXCEPT ![t] = d]
    BY <1>6, <2>1 DEF Takes
  <2>8. d = asg[a].driver
    OBVIOUS
  <2> HIDE DEF t, d
  <2>9. Holder[t] = d /\ Holder'[t] = NoDriver
    BY <2>1, <2>2, <2>5, <2>8, HolderValue, HolderIsHolderIn
  <2>10. Holder' = [Holder EXCEPT ![t] = NoDriver]
    BY <2>1, <2>6, <2>9, HolderChange
  <2>11. Lifecycle!Take(t)
    BY <2>1, <2>7, <2>9, <2>10 DEF Lifecycle!Take, Lifecycle!Move
  <2> QED BY <2>1, <2>11 DEF Lifecycle!Next
<1> QED BY <1>1, <1>2, <1>3, <1>4, <1>5, <1>6 DEF TableStep

\* A step of the dispatch is a step of the lifecycle, or leaves the trips as they are.
LEMMA StepsImplement ==
  ASSUME IInv, [Next]_vars
  PROVE  [Lifecycle!Next]_(Lifecycle!lvars)
<1>1. CASE Next
  <2>1. TableStep
    BY <1>1, NextIsTableStep DEF IInv
  <2> QED BY <2>1, StepLifecycle
<1>2. CASE UNCHANGED vars
  BY <1>2, HolderIsHolderIn DEF vars, tripVars, offerVars, Lifecycle!lvars
<1> QED BY <1>1, <1>2

\* Dispatch implements the lifecycle of a trip: the driver who takes a trip is the one
\* it was being offered to, and no step moves a trip back or replaces its driver.
THEOREM DispatchImplementsLifecycle == Spec => ImplementsLifecycle
<1>1. Init => Lifecycle!Init
  BY InitLifecycle
<1>2. IInv /\ [Next]_vars => [Lifecycle!Next]_(Lifecycle!lvars)
  BY StepsImplement
<1> QED BY <1>1, <1>2, Invariance, PTL DEF Spec, ImplementsLifecycle, Lifecycle!Spec

----------------------------------------------------------------------------
(* What follows from the lifecycle alone *)

\* How far a trip has come.
Progress ==
  [none |-> 0, pending |-> 1, assigning |-> 2, accepted |-> 3, arriving |-> 4,
   in_progress |-> 5, completed |-> 6, no_drivers_found |-> 6]

GoesForward(t) ==
  /\ Progress[tripStatus[t]] <= Progress[tripStatus'[t]]
  /\ tripStatus[t] \in {"completed", "no_drivers_found"} => tripStatus'[t] = tripStatus[t]
  /\ tripDriver[t] # NoDriver => tripDriver'[t] = tripDriver[t]
  /\ tripDriver'[t] # tripDriver[t] => /\ tripStatus[t] = "assigning" /\ tripStatus'[t] = "accepted"
                                      /\ tripDriver'[t] = Holder[t]

LEMMA LifecycleGoesForward ==
  ASSUME tripStatus \in [Trip -> TripStatuses], tripDriver \in [Trip -> Driver \cup {NoDriver}],
         \A t \in Trip : tripStatus[t] \notin Taken => tripDriver[t] = NoDriver,
         [Lifecycle!Next]_(Lifecycle!lvars), NEW t \in Trip
  PROVE  GoesForward(t)
<1> USE DEF GoesForward, Progress, TripStatuses, Taken, Lifecycle!Move
<1>1. CASE UNCHANGED Lifecycle!lvars
  <2>1. tripStatus' = tripStatus /\ tripDriver' = tripDriver
    BY <1>1 DEF Lifecycle!lvars
  <2> QED BY <2>1
<1>2. ASSUME NEW u \in Trip, Lifecycle!Request(u) \/ Lifecycle!Assigning(u) \/ Lifecycle!Close(u)
      PROVE  GoesForward(t)
  BY <1>2 DEF Lifecycle!Request, Lifecycle!Assigning, Lifecycle!Close
<1>3. ASSUME NEW u \in Trip, Lifecycle!Withdraw(u) \/ \E d \in Driver : Lifecycle!Offer(u, d)
      PROVE  GoesForward(t)
  BY <1>3 DEF Lifecycle!Withdraw, Lifecycle!Offer
<1>4. ASSUME NEW u \in Trip, Lifecycle!Take(u)
      PROVE  GoesForward(t)
  BY <1>4 DEF Lifecycle!Take
<1>5. ASSUME NEW u \in Trip, Lifecycle!Advance(u)
      PROVE  GoesForward(t)
  BY <1>5 DEF Lifecycle!Advance
<1> QED
  BY <1>1, <1>2, <1>3, <1>4, <1>5 DEF Lifecycle!Next

\* Whatever handlers, timers and crashes do, a trip only goes forward, a completed trip
\* and a closed one stay as they are, a trip that has a driver keeps him, and the
\* driver it gets is the one it was being offered to.
THEOREM TripsGoForward == Spec => [][\A t \in Trip : GoesForward(t)]_vars
<1>1. IInv /\ [Next]_vars => \A t \in Trip : GoesForward(t)
  <2> SUFFICES ASSUME IInv, [Next]_vars, NEW t \in Trip PROVE GoesForward(t)
    OBVIOUS
  <2>1. [Lifecycle!Next]_(Lifecycle!lvars)
    BY StepsImplement
  <2>2. /\ tripStatus \in [Trip -> TripStatuses]
        /\ tripDriver \in [Trip -> Driver \cup {NoDriver}]
        /\ \A u \in Trip : tripStatus[u] \notin Taken => tripDriver[u] = NoDriver
    BY DEF IInv, TypeOK, AcceptedMatchesTrip
  <2> QED BY <2>1, <2>2, LifecycleGoesForward
<1> QED BY <1>1, Invariance, PTL DEF Spec
=============================================================================
