----------------------- MODULE TripNotificationsProofs -----------------------
(***************************************************************************)
(* Proofs about TripNotifications for any sets of trips and drivers and    *)
(* any bounds.  The inductive invariant is IInv: what is on its way to the *)
(* sockets is true and has an addressee (QueuedOK), what the history holds *)
(* is on its way, told or lost (SettledOK), and what has been told is true *)
(* (ToldOK).  StageOK is what these need to know of the trips themselves.  *)
(***************************************************************************)
EXTENDS TripNotifications, TLAPS

\* e is a step the history holds, or one of an open or rolled back transaction.
Justified(e) ==
  \/ e \in retracted
  \/ \E row \in log : e \in Truth(row)
  \/ \E t \in Trip : e \in Uncommitted(t)

\* Somebody is to be told of e.
Owed(e) ==
  \/ \E row \in log : row.type \notin Silent /\ e \in EventsOf(row)
  \/ \E t \in Trip : e \in Uncommitted(t)

Queued(e) == e \in inflight \/ \E b \in due : e \in b

Settled(e) == Queued(e) \/ Heard(e) \subseteq told \cup lost

\* Events that concern the passenger only; the others name a driver.
Quiet == {"requested", "assigning", "no_drivers"}
Addressed(e) == e.type \in Quiet \/ e.to \in Driver

QueuedOK == \A e \in Event : Queued(e) => Justified(e) /\ Addressed(e)
SettledOK == \A e \in Event : Owed(e) => Settled(e)
ToldOK == \A m \in told : \E e \in Event : Justified(e) /\ m \in Heard(e)

OnTheWay == {"accepted", "arriving", "in_progress", "completed"}

Stage(t) ==
  /\ open[t] = "start" => status[t] = "pending"
  /\ open[t] = "expire" => Offered(t) # {}
  /\ status[t] \in {"none", "pending"} => Offered(t) = {}
  /\ t \in first => /\ Offered(t) = {}
                    /\ status[t] = "assigning" \/ Ev("closed_by_hand", t, NoDriver) \in log
  /\ holder[t] # NoDriver => holder[t] \in Offered(t)
  /\ status[t] \in OnTheWay => driver[t] \in Driver

StageOK == \A t \in Trip : Stage(t)

IInv == TypeOK /\ StageOK /\ QueuedOK /\ SettledOK /\ ToldOK

----------------------------------------------------------------------------
(* Small facts *)

\* The fields of an event, and that they determine it.
LEMMA EvFacts ==
  ASSUME NEW type, NEW t, NEW d
  PROVE  Ev(type, t, d).type = type /\ Ev(type, t, d).trip = t /\ Ev(type, t, d).to = d
BY DEF Ev

LEMMA EvTyped ==
  ASSUME NEW type, NEW t \in Trip, NEW d \in Driver \cup {NoDriver}
  PROVE  /\ type \in Types => Ev(type, t, d) \in Event
         /\ type \in LogTypes => Ev(type, t, d) \in Row
BY DEF Ev, Event, Row

LEMMA RowIsEv ==
  ASSUME NEW row \in Row
  PROVE  /\ row = Ev(row.type, row.trip, row.to)
         /\ row.trip \in Trip /\ row.to \in Driver \cup {NoDriver} /\ row.type \in LogTypes
BY DEF Ev, Row

\* The offers of a trip are rows of its history.
LEMMA OfferedFacts ==
  ASSUME log \subseteq Row, NEW t \in Trip, NEW d
  PROVE  d \in Offered(t) <=> Ev("offered", t, d) \in log
<1>1. ASSUME d \in Offered(t) PROVE Ev("offered", t, d) \in log
  <2>1. PICK f \in log : f.type = "offered" /\ f.trip = t /\ f.to = d
    BY <1>1 DEF Offered
  <2> QED BY <2>1, RowIsEv
<1>2. ASSUME Ev("offered", t, d) \in log PROVE d \in Offered(t)
  BY <1>2, EvFacts DEF Offered
<1> QED BY <1>1, <1>2

\* The events of a row: the row, and for the way to the passenger one more.
LEMMA EventsFacts ==
  ASSUME NEW row \in Row, row.type \notin Silent, NEW e
  PROVE  /\ row \in EventsOf(row)
         /\ Truth(row) = EventsOf(row)
         /\ row.type # "en_route" => EventsOf(row) = {row}
         /\ e \in EventsOf(row) => e \in Event /\ e.to = row.to
                                   /\ (e.type = row.type \/ e.type = "arriving")
<1>1. row \in Event /\ [row EXCEPT !.type = "arriving"] \in Event
  BY DEF Row, Event, LogTypes, Types, Silent
<1>2. /\ [row EXCEPT !.type = "arriving"].to = row.to
      /\ [row EXCEPT !.type = "arriving"].type = "arriving"
  BY DEF Row
<1> QED BY <1>1, <1>2 DEF EventsOf, Truth, Silent

\* An open transaction has emitted one event, of the passenger's.
LEMMA UncommittedFacts ==
  ASSUME TypeOK, NEW t \in Trip, NEW e \in Uncommitted(t)
  PROVE  /\ e \in Event /\ e \in Row
         /\ e.type \in Quiet
         /\ e.type \notin Silent \cup {"en_route", "offered"}
         /\ e.trip = t
         /\ open[t] # "none"
<1>1. open[t] \in {"none", "start", "expire"}
  BY DEF TypeOK
<1>2. \/ e = Ev("assigning", t, NoDriver) /\ open[t] # "none"
      \/ e = Ev("no_drivers", t, NoDriver) /\ open[t] # "none"
  BY <1>1 DEF Uncommitted
<1>3. "assigning" \in Types \cap LogTypes /\ "no_drivers" \in Types \cap LogTypes
  BY DEF Types, LogTypes
<1> QED BY <1>2, <1>3, EvTyped, EvFacts DEF Quiet, Silent

LEMMA EvArriving ==
  ASSUME NEW t, NEW d
  PROVE  [Ev("en_route", t, d) EXCEPT !.type = "arriving"] = Ev("arriving", t, d)
BY DEF Ev

\* An addressed event is heard as messages to users.
LEMMA HeardTyped ==
  ASSUME NEW e \in Event, Addressed(e)
  PROVE  Heard(e) \subseteq Message
<1> USE DEF User, Message, To, Broadcast, Rooms, Namespace
<1>1. e.trip \in Trip /\ e.type \in Types
  BY DEF Event
<1>2. Passenger \in User
  OBVIOUS
<1>3. CASE e.type \in Quiet
  <2>1. ASSUME NEW S, S \subseteq {Passenger} PROVE To(S, e) \subseteq Message
    BY <1>1, <2>1
  <2> QED BY <1>3, <2>1 DEF Heard, Quiet, tripRequested, assigningStarted, noDriversFound
<1>4. CASE e.type \notin Quiet
  <2>0. e.to \in Driver
    BY <1>4 DEF Addressed
  <2>1. ASSUME NEW S, S \subseteq {Passenger, e.to}
        PROVE  /\ To(S, e) \subseteq Message /\ Rooms(S, e) \subseteq Message
               /\ Broadcast(S, e) \subseteq Message
    BY <1>1, <2>0, <2>1
  <2>2. CASE e.type = "accepted"
    <3>1. Ev("assigned", e.trip, e.to) \in Event
      BY <1>1, <2>0, EvTyped DEF Types
    <3>2. Rooms({Passenger}, Ev("assigned", e.trip, e.to)) \subseteq Message
      BY <1>1, EvFacts DEF Types
    <3> QED BY <2>1, <2>2, <3>2 DEF Heard, emitDriverAcceptedToPassenger
  <2>3. CASE e.type # "accepted"
    BY <1>1, <1>4, <2>1, <2>3 DEF Heard, Types, Quiet, driverOffered, driverAssigned,
       arrivingStarted, driverEnRoute, driverArrivedPickup, tripStarted, tripCompleted
  <2> QED BY <2>2, <2>3
<1> QED BY <1>3, <1>4

----------------------------------------------------------------------------
(* What every step does to the messages *)

\* The part of TypeOK that is about messages, and the part that is about trips.
MessagesTyped ==
  /\ log \subseteq Row
  /\ due \subseteq SUBSET Event
  /\ inflight \subseteq Event
  /\ online \subseteq User
  /\ told \subseteq Message /\ lost \subseteq Message
  /\ retracted \subseteq Event
  /\ faults \in 0 .. MaxFaults

TripsTyped ==
  /\ status \in [Trip -> {"none", "pending", "assigning", "accepted", "arriving",
                          "in_progress", "completed", "no_drivers_found"}]
  /\ driver \in [Trip -> Driver \cup {NoDriver}]
  /\ holder \in [Trip -> Driver \cup {NoDriver}]
  /\ first \subseteq Trip
  /\ open \in [Trip -> {"none", "start", "expire"}]

MessagesOK == MessagesTyped /\ QueuedOK /\ SettledOK /\ ToldOK

LEMMA Parts == IInv <=> TripsTyped /\ StageOK /\ MessagesOK
BY DEF IInv, TypeOK, MessagesOK, MessagesTyped, TripsTyped

\* A step keeps the messages in order when what was true stays true, what is queued by
\* it is true and addressed, what was settled stays settled, what it makes owed it
\* settles, and what it tells was queued.
LEMMA MessagesKept ==
  ASSUME MessagesOK, MessagesTyped',
         \A e \in Event : Justified(e) => Justified(e)',
         \A e \in Event : Queued(e)' => Queued(e) \/ (Justified(e)' /\ Addressed(e)),
         \A e \in Event : Settled(e) => Settled(e)',
         \A e \in Event : Owed(e)' => Owed(e) \/ Settled(e)',
         \A m \in told' : m \in told \/ \E e \in Event : Queued(e) /\ m \in Heard(e)
  PROVE  MessagesOK'
<1>1. QueuedOK'
  BY DEF MessagesOK, QueuedOK, Addressed
<1>2. SettledOK'
  BY DEF MessagesOK, SettledOK
<1>3. ToldOK'
  <2>1. ASSUME NEW m \in told' PROVE \E e \in Event : Justified(e)' /\ m \in Heard(e)
    BY <2>1 DEF MessagesOK, ToldOK, QueuedOK
  <2> QED BY <2>1 DEF ToldOK
<1> QED BY <1>1, <1>2, <1>3 DEF MessagesOK

\* An event is settled as soon as it is queued, and stays settled when nothing is
\* dequeued and nothing forgotten.
LEMMA SettledGrows ==
  ASSUME NEW e, told \cup lost \subseteq (told \cup lost)', Queued(e) => Queued(e)'
  PROVE  Settled(e) => Settled(e)'
BY DEF Settled

----------------------------------------------------------------------------
(* The handlers *)

\* A handler that commits rows with their batch.
LEMMA CommitsKeep ==
  ASSUME IInv, NEW rows \in SUBSET Row, NEW batch \in SUBSET Event,
         Commits(rows, batch),
         \A e \in batch : Justified(e)' /\ Addressed(e),
         \A row \in rows : row.type \notin Silent /\ EventsOf(row) \subseteq batch
  PROVE  MessagesOK'
<1>1. /\ log' = log \cup rows
      /\ due' = due \cup {batch}
      /\ UNCHANGED <<open, inflight, online, told, lost, retracted, faults>>
  BY DEF Commits, heardState
<1>2. MessagesTyped /\ MessagesOK
  BY Parts DEF MessagesOK
<1>3. MessagesTyped'
  BY <1>1, <1>2 DEF MessagesTyped
<1>4. ASSUME NEW t \in Trip PROVE Uncommitted(t)' = Uncommitted(t)
  BY <1>1 DEF Uncommitted
<1>5. ASSUME NEW e \in Event, Justified(e) PROVE Justified(e)'
  BY <1>1, <1>4, <1>5 DEF Justified
<1>6. ASSUME NEW e \in Event, Queued(e)'
      PROVE  Queued(e) \/ (Justified(e)' /\ Addressed(e))
  BY <1>1, <1>6 DEF Queued
<1>7. ASSUME NEW e \in Event PROVE Queued(e) \/ e \in batch => Queued(e)'
  BY <1>1, <1>7 DEF Queued
<1>8. ASSUME NEW e \in Event PROVE Settled(e) => Settled(e)'
  BY <1>1, <1>7, <1>8, SettledGrows
<1>9. ASSUME NEW e \in Event, Owed(e)' PROVE Owed(e) \/ Settled(e)'
  <2>1. \/ \E row \in log : row.type \notin Silent /\ e \in EventsOf(row)
        \/ \E row \in rows : row.type \notin Silent /\ e \in EventsOf(row)
        \/ \E t \in Trip : e \in Uncommitted(t)
    BY <1>1, <1>4, <1>9 DEF Owed
  <2>2. CASE \E row \in rows : row.type \notin Silent /\ e \in EventsOf(row)
    BY <1>7, <2>2 DEF Settled
  <2> QED BY <2>1, <2>2 DEF Owed
<1> QED BY <1>1, <1>2, <1>3, <1>5, <1>6, <1>8, <1>9, MessagesKept

\* A transaction emits an event of the passenger's before it commits.
LEMMA OpensKeep ==
  ASSUME IInv, NEW t \in Trip, NEW name \in {"start", "expire"}, NEW e \in Event,
         Opens(t, name, e), e.type \in Quiet, Uncommitted(t)' = {e}
  PROVE  MessagesOK'
<1>1. /\ open[t] = "none"
      /\ open' = [open EXCEPT ![t] = name]
      /\ inflight' = inflight \cup {e}
      /\ UNCHANGED <<log, due, online, told, lost, retracted, faults>>
  BY DEF Opens, heardState
<1>2. MessagesTyped /\ MessagesOK /\ TripsTyped
  BY Parts DEF MessagesOK
<1>3. MessagesTyped'
  BY <1>1, <1>2 DEF MessagesTyped
<1>4. ASSUME NEW u \in Trip PROVE u # t => Uncommitted(u)' = Uncommitted(u)
  BY <1>1, <1>2, <1>4 DEF Uncommitted, TripsTyped
<1>5. Uncommitted(t) = {}
  BY <1>1 DEF Uncommitted
<1>6. ASSUME NEW f \in Event, Justified(f) PROVE Justified(f)'
  BY <1>1, <1>4, <1>5, <1>6 DEF Justified
<1>7. Justified(e)' /\ Addressed(e)
  BY DEF Justified, Addressed
<1>8. ASSUME NEW f \in Event, Queued(f)'
      PROVE  Queued(f) \/ (Justified(f)' /\ Addressed(f))
  BY <1>1, <1>7, <1>8 DEF Queued
<1>9. ASSUME NEW f \in Event PROVE Queued(f) \/ f = e => Queued(f)'
  BY <1>1, <1>9 DEF Queued
<1>10. ASSUME NEW f \in Event PROVE Settled(f) => Settled(f)'
  BY <1>1, <1>9, <1>10, SettledGrows
<1>11. ASSUME NEW f \in Event, Owed(f)' PROVE Owed(f) \/ Settled(f)'
  BY <1>1, <1>4, <1>5, <1>9, <1>11 DEF Owed, Settled
<1> QED BY <1>1, <1>2, <1>3, <1>6, <1>8, <1>10, <1>11, MessagesKept

\* The commit moves its event into the history.
LEMMA CommitKeeps ==
  ASSUME IInv, NEW t \in Trip, Commit(t)
  PROVE  MessagesOK'
<1>1. /\ log' = log \cup Uncommitted(t)
      /\ open' = [open EXCEPT ![t] = "none"]
      /\ UNCHANGED <<due, inflight, online, told, lost, retracted, faults>>
  BY DEF Commit, chain, heardState
<1>2. MessagesTyped /\ MessagesOK /\ TripsTyped /\ TypeOK
  BY Parts DEF MessagesOK, IInv
<1>3. MessagesTyped'
  BY <1>1, <1>2, UncommittedFacts DEF MessagesTyped
<1>4. ASSUME NEW u \in Trip PROVE u # t => Uncommitted(u)' = Uncommitted(u)
  BY <1>1, <1>2, <1>4 DEF Uncommitted, TripsTyped
<1>5. Uncommitted(t)' = {}
  BY <1>1, <1>2 DEF Uncommitted, TripsTyped
<1>6. ASSUME NEW e \in Uncommitted(t)
      PROVE  EventsOf(e) = {e} /\ Truth(e) = {e} /\ e.type \notin Silent
  BY <1>2, UncommittedFacts, EventsFacts
<1>7. ASSUME NEW e \in Event, Justified(e) PROVE Justified(e)'
  BY <1>1, <1>4, <1>6, <1>7 DEF Justified
<1>8. ASSUME NEW e \in Event PROVE Queued(e)' <=> Queued(e)
  BY <1>1 DEF Queued
<1>9. ASSUME NEW e \in Event PROVE Settled(e) => Settled(e)'
  BY <1>1, <1>8, <1>9, SettledGrows
<1>10. ASSUME NEW e \in Event, Owed(e)' PROVE Owed(e)
  BY <1>1, <1>4, <1>5, <1>6, <1>10 DEF Owed
<1> QED BY <1>1, <1>2, <1>3, <1>7, <1>8, <1>9, <1>10, MessagesKept

\* A rollback takes its event back, which may have been told.
LEMMA RollBackKeeps ==
  ASSUME IInv, NEW t \in Trip, RollBack(t)
  PROVE  MessagesOK'
<1>1. /\ retracted' = retracted \cup Uncommitted(t)
      /\ open' = [open EXCEPT ![t] = "none"]
      /\ UNCHANGED <<log, due, inflight, online, told, lost>>
      /\ faults < MaxFaults /\ faults' = faults + 1
  BY DEF RollBack, chain, heardState, Fault
<1>2. MessagesTyped /\ MessagesOK /\ TripsTyped /\ TypeOK
  BY Parts DEF MessagesOK, IInv
<1>3. MessagesTyped'
  <2>1. faults' \in 0 .. MaxFaults
    BY <1>1, <1>2, NotificationAssumption DEF MessagesTyped
  <2>2. retracted' \subseteq Event
    BY <1>1, <1>2, UncommittedFacts DEF MessagesTyped
  <2> QED BY <1>1, <1>2, <2>1, <2>2 DEF MessagesTyped
<1>4. ASSUME NEW u \in Trip PROVE u # t => Uncommitted(u)' = Uncommitted(u)
  BY <1>1, <1>2, <1>4 DEF Uncommitted, TripsTyped
<1>5. Uncommitted(t)' = {}
  BY <1>1, <1>2 DEF Uncommitted, TripsTyped
<1>6. ASSUME NEW e \in Event, Justified(e) PROVE Justified(e)'
  BY <1>1, <1>4, <1>6 DEF Justified
<1>7. ASSUME NEW e \in Event PROVE Queued(e)' <=> Queued(e)
  BY <1>1 DEF Queued
<1>8. ASSUME NEW e \in Event PROVE Settled(e) => Settled(e)'
  BY <1>1, <1>7, <1>8, SettledGrows
<1>9. ASSUME NEW e \in Event, Owed(e)' PROVE Owed(e)
  BY <1>1, <1>4, <1>5, <1>9 DEF Owed
<1> QED BY <1>1, <1>2, <1>3, <1>6, <1>7, <1>8, <1>9, MessagesKept

\* A row that nobody is told of is written into the history and owed to nobody.
LEMMA SilentKeeps ==
  ASSUME IInv, NEW row \in Row, row.type \in Silent,
         log' = log \cup {row},
         UNCHANGED <<open, due, inflight, online, told, lost, retracted, faults>>
  PROVE  MessagesOK'
<1>1. MessagesTyped /\ MessagesOK
  BY Parts DEF MessagesOK
<1>2. MessagesTyped'
  BY <1>1 DEF MessagesTyped
<1>3. ASSUME NEW u \in Trip PROVE Uncommitted(u)' = Uncommitted(u)
  BY DEF Uncommitted
<1>4. ASSUME NEW e \in Event, Justified(e) PROVE Justified(e)'
  BY <1>3, <1>4 DEF Justified
<1>5. ASSUME NEW e \in Event PROVE Queued(e)' <=> Queued(e)
  BY DEF Queued
<1>6. ASSUME NEW e \in Event PROVE Settled(e) => Settled(e)'
  BY <1>5, <1>6, SettledGrows
<1>7. ASSUME NEW e \in Event, Owed(e)' PROVE Owed(e)
  BY <1>3, <1>7 DEF Owed
<1> QED BY <1>1, <1>2, <1>4, <1>5, <1>6, <1>7, MessagesKept

\* Steps that touch neither messages nor history: connections, disconnections.
LEMMA QuietKeeps ==
  ASSUME IInv, MessagesTyped',
         UNCHANGED <<open, log, due, inflight, told, lost, retracted>>
  PROVE  MessagesOK'
<1>1. MessagesOK
  BY Parts
<1>2. ASSUME NEW u \in Trip PROVE Uncommitted(u)' = Uncommitted(u)
  BY DEF Uncommitted
<1>3. ASSUME NEW e \in Event PROVE (Justified(e) <=> Justified(e)') /\ (Owed(e) <=> Owed(e)')
  BY <1>2 DEF Justified, Owed
<1>4. ASSUME NEW e \in Event PROVE Queued(e)' <=> Queued(e)
  BY DEF Queued
<1>5. ASSUME NEW e \in Event PROVE Settled(e) => Settled(e)'
  BY <1>4, <1>5, SettledGrows
<1> QED BY <1>1, <1>3, <1>4, <1>5, MessagesKept

----------------------------------------------------------------------------
(* From the handlers to the sockets *)

\* Steps that move events along: what leaves the queues is told or lost.
LEMMA MovesKeep ==
  ASSUME IInv, MessagesTyped',
         UNCHANGED <<open, log, retracted>>,
         told \cup lost \subseteq (told \cup lost)',
         \A e \in Event : Queued(e)' => Queued(e),
         \A e \in Event : Queued(e) => Queued(e)' \/ Heard(e) \subseteq (told \cup lost)',
         \A m \in told' : m \in told \/ \E e \in Event : Queued(e) /\ m \in Heard(e)
  PROVE  MessagesOK'
<1>1. MessagesOK
  BY Parts
<1>2. ASSUME NEW u \in Trip PROVE Uncommitted(u)' = Uncommitted(u)
  BY DEF Uncommitted
<1>3. ASSUME NEW e \in Event PROVE (Justified(e) <=> Justified(e)') /\ (Owed(e) <=> Owed(e)')
  BY <1>2 DEF Justified, Owed
<1>4. ASSUME NEW e \in Event PROVE Settled(e) => Settled(e)'
  BY <1>4 DEF Settled
<1> QED BY <1>1, <1>3, <1>4, MessagesKept

LEMMA EmitKeeps ==
  ASSUME IInv, NEW b \in due, Emit(b)
  PROVE  MessagesOK'
<1>1. /\ due' = due \ {b}
      /\ inflight' = inflight \cup b
      /\ UNCHANGED <<open, log, online, told, lost, retracted, faults>>
  BY DEF Emit, heardState
<1>2. MessagesTyped
  BY Parts DEF MessagesOK
<1>3. MessagesTyped'
  BY <1>1, <1>2 DEF MessagesTyped
<1>4. ASSUME NEW e \in Event PROVE Queued(e)' <=> Queued(e)
  BY <1>1 DEF Queued
<1> QED BY <1>1, <1>3, <1>4, MovesKeep

LEMMA EmitFailsKeeps ==
  ASSUME IInv, NEW b \in due, EmitFails(b)
  PROVE  MessagesOK'
<1>1. /\ due' = due \ {b}
      /\ lost' = lost \cup UNION {Heard(e) : e \in b}
      /\ UNCHANGED <<open, log, inflight, online, told, retracted>>
      /\ faults < MaxFaults /\ faults' = faults + 1
  BY DEF EmitFails, Fault
<1>2. MessagesTyped /\ QueuedOK
  BY Parts DEF MessagesOK
<1>3. MessagesTyped'
  <2>1. faults' \in 0 .. MaxFaults
    BY <1>1, <1>2, NotificationAssumption DEF MessagesTyped
  <2>2. ASSUME NEW e \in b PROVE Heard(e) \subseteq Message
    BY <1>2, <2>2, HeardTyped DEF MessagesTyped, QueuedOK, Queued
  <2>3. lost' \subseteq Message
    BY <1>1, <1>2, <2>2 DEF MessagesTyped
  <2> QED BY <1>1, <1>2, <2>1, <2>3 DEF MessagesTyped
<1>4. ASSUME NEW e \in Event, Queued(e)' PROVE Queued(e)
  BY <1>1, <1>4 DEF Queued
<1>5. ASSUME NEW e \in Event, Queued(e)
      PROVE  Queued(e)' \/ Heard(e) \subseteq (told \cup lost)'
  <2>1. CASE e \in b
    BY <1>1, <2>1
  <2>2. CASE e \notin b
    BY <1>1, <1>5, <2>2 DEF Queued
  <2> QED BY <2>1, <2>2
<1> QED BY <1>1, <1>3, <1>4, <1>5, MovesKeep

\* The process stops: everything on its way is lost, every open transaction rolled back.
LEMMA CrashKeeps ==
  ASSUME IInv, Crash
  PROVE  MessagesOK'
<1>1. /\ lost' = lost \cup UNION {Heard(e) : e \in inflight \cup UNION due}
      /\ retracted' = retracted \cup UNION {Uncommitted(t) : t \in Trip}
      /\ open' = [t \in Trip |-> "none"]
      /\ due' = {} /\ inflight' = {}
      /\ UNCHANGED <<log, online, told>>
      /\ faults < MaxFaults /\ faults' = faults + 1
  BY DEF Crash, Fault
<1>2. MessagesTyped /\ MessagesOK /\ QueuedOK /\ TypeOK
  BY Parts DEF MessagesOK, IInv
<1>3. MessagesTyped'
  <2>1. faults' \in 0 .. MaxFaults
    BY <1>1, <1>2, NotificationAssumption DEF MessagesTyped
  <2>2. ASSUME NEW e \in inflight \cup UNION due PROVE Heard(e) \subseteq Message
    BY <1>2, <2>2, HeardTyped DEF MessagesTyped, QueuedOK, Queued
  <2>3. lost' \subseteq Message
    BY <1>1, <1>2, <2>2 DEF MessagesTyped
  <2>4. retracted' \subseteq Event
    BY <1>1, <1>2, UncommittedFacts DEF MessagesTyped
  <2> QED BY <1>1, <1>2, <2>1, <2>3, <2>4 DEF MessagesTyped
<1>4. ASSUME NEW u \in Trip PROVE Uncommitted(u)' = {}
  BY <1>1, <1>4 DEF Uncommitted
<1>5. ASSUME NEW e \in Event, Justified(e) PROVE Justified(e)'
  BY <1>1, <1>5 DEF Justified
<1>6. ASSUME NEW e \in Event PROVE ~Queued(e)'
  BY <1>1 DEF Queued
<1>7. ASSUME NEW e \in Event, Settled(e) PROVE Settled(e)'
  <2>1. CASE Queued(e)
    <3>1. Heard(e) \subseteq lost'
      BY <1>1, <2>1 DEF Queued
    <3> QED BY <3>1 DEF Settled
  <2>2. CASE ~Queued(e)
    BY <1>1, <1>7, <2>2 DEF Settled
  <2> QED BY <2>1, <2>2
<1>8. ASSUME NEW e \in Event, Owed(e)' PROVE Owed(e)
  BY <1>1, <1>4, <1>8 DEF Owed
<1> QED BY <1>1, <1>2, <1>3, <1>5, <1>6, <1>7, <1>8, MessagesKept

----------------------------------------------------------------------------
(* The listeners *)

\* A listener takes its event off the queue and reaches some of those it concerns.
Heeds(e) ==
  /\ inflight' = inflight \ {e}
  /\ UNCHANGED <<tripState, open, log, due, online, retracted>>
  /\ told' \cup lost' = told \cup lost \cup Heard(e)
  /\ told' \subseteq told \cup Heard(e)

LEMMA PublishHeeds ==
  ASSUME NEW e, NEW type, NEW messages, NEW unheard,
         Publish(e, type, messages, unheard), messages \cup unheard = Heard(e)
  PROVE  Heeds(e)
BY DEF Publish, Heeds

\* What each listener publishes and what it leaves unheard is what the event concerns.
LEMMA ListenHeeds ==
  ASSUME NEW e, Listen(e)
  PROVE  Heeds(e)
<1>1. CASE OnTripRequested(e)
  <2>1. Publish(e, "requested", tripRequested(e), {}) /\ e.type = "requested"
    BY <1>1 DEF OnTripRequested, Publish
  <2>2. tripRequested(e) \cup {} = Heard(e)
    BY <2>1 DEF Heard
  <2> QED BY <2>1, <2>2, PublishHeeds
<1>2. CASE OnAssigningStarted(e)
  <2>1. Publish(e, "assigning", assigningStarted(e), {}) /\ e.type = "assigning"
    BY <1>2 DEF OnAssigningStarted, Publish
  <2>2. assigningStarted(e) \cup {} = Heard(e)
    BY <2>1 DEF Heard
  <2> QED BY <2>1, <2>2, PublishHeeds
<1>3. CASE OnDriverOffered(e)
  <2>1. Publish(e, "offered", driverOffered(e), {}) /\ e.type = "offered"
    BY <1>3 DEF OnDriverOffered, Publish
  <2>2. driverOffered(e) \cup {} = Heard(e)
    BY <2>1 DEF Heard
  <2> QED BY <2>1, <2>2, PublishHeeds
<1>4. CASE OnArrivingStarted(e)
  <2>1. Publish(e, "arriving", arrivingStarted(e), {}) /\ e.type = "arriving"
    BY <1>4 DEF OnArrivingStarted, Publish
  <2>2. arrivingStarted(e) \cup {} = Heard(e)
    BY <2>1 DEF Heard
  <2> QED BY <2>1, <2>2, PublishHeeds
<1>5. ASSUME NEW pax, GetPassengerId(pax) PROVE pax = {Passenger} \/ pax = {}
  BY <1>5 DEF GetPassengerId, Found, NotFound
<1>6. ASSUME NEW pax, OnNoDriversFound(e, pax) PROVE Heeds(e)
  <2>1. /\ Publish(e, "no_drivers", noDriversFound(e, pax), Untold(e, pax))
        /\ GetPassengerId(pax)
        /\ e.type = "no_drivers"
    BY <1>6 DEF OnNoDriversFound, Publish
  <2>2. Heard(e) = noDriversFound(e, {Passenger})
    BY <2>1 DEF Heard
  <2>3. noDriversFound(e, pax) \cup Untold(e, pax) = Heard(e)
    BY <1>5, <2>1, <2>2 DEF noDriversFound, Untold, To, Broadcast, Rooms
  <2> QED BY <2>1, <2>3, PublishHeeds
<1>7. ASSUME NEW pax, OnDriverEnRoute(e, pax) PROVE Heeds(e)
  <2>1. /\ Publish(e, "en_route", driverEnRoute(e, pax), Untold(e, pax))
        /\ GetPassengerId(pax)
        /\ e.type = "en_route"
    BY <1>7 DEF OnDriverEnRoute, Publish
  <2>2. Heard(e) = driverEnRoute(e, {Passenger})
    BY <2>1 DEF Heard
  <2>3. driverEnRoute(e, pax) \cup Untold(e, pax) = Heard(e)
    BY <1>5, <2>1, <2>2 DEF driverEnRoute, Untold, To, Broadcast, Rooms
  <2> QED BY <2>1, <2>3, PublishHeeds
<1>8. ASSUME NEW pax, OnDriverArrivedPickup(e, pax) PROVE Heeds(e)
  <2>1. /\ Publish(e, "arrived", driverArrivedPickup(e, pax), Untold(e, pax))
        /\ GetPassengerId(pax)
        /\ e.type = "arrived"
    BY <1>8 DEF OnDriverArrivedPickup, Publish
  <2>2. Heard(e) = driverArrivedPickup(e, {Passenger})
    BY <2>1 DEF Heard
  <2>3. driverArrivedPickup(e, pax) \cup Untold(e, pax) = Heard(e)
    BY <1>5, <2>1, <2>2 DEF driverArrivedPickup, Untold, To, Broadcast, Rooms
  <2> QED BY <2>1, <2>3, PublishHeeds
<1>9. ASSUME NEW pax, OnTripStarted(e, pax) PROVE Heeds(e)
  <2>1. /\ Publish(e, "started", tripStarted(e, pax), Untold(e, pax))
        /\ GetPassengerId(pax)
        /\ e.type = "started"
    BY <1>9 DEF OnTripStarted, Publish
  <2>2. Heard(e) = tripStarted(e, {Passenger})
    BY <2>1 DEF Heard
  <2>3. tripStarted(e, pax) \cup Untold(e, pax) = Heard(e)
    BY <1>5, <2>1, <2>2 DEF tripStarted, Untold, To, Broadcast, Rooms
  <2> QED BY <2>1, <2>3, PublishHeeds
<1>10. ASSUME NEW pax, OnTripCompleted(e, pax) PROVE Heeds(e)
  <2>1. /\ Publish(e, "completed", tripCompleted(e, pax), Untold(e, pax))
        /\ GetPassengerId(pax)
        /\ e.type = "completed"
    BY <1>10 DEF OnTripCompleted, Publish
  <2>2. Heard(e) = tripCompleted(e, {Passenger})
    BY <2>1 DEF Heard
  <2>3. tripCompleted(e, pax) \cup Untold(e, pax) = Heard(e)
    BY <1>5, <2>1, <2>2 DEF tripCompleted, Untold, To, Broadcast, Rooms
  <2> QED BY <2>1, <2>3, PublishHeeds
<1>11. ASSUME NEW pax, OnDriverAccepted(e, pax) PROVE Heeds(e)
  <2>1. /\ e.type = "accepted"
        /\ \/ Publish(e, "accepted", emitDriverAcceptedToPassenger(e), {})
           \/ Publish(e, "accepted", {}, emitDriverAcceptedToPassenger(e))
    BY <1>11 DEF OnDriverAccepted, Publish
  <2>2. /\ emitDriverAcceptedToPassenger(e) \cup {} = Heard(e)
        /\ {} \cup emitDriverAcceptedToPassenger(e) = Heard(e)
    BY <2>1 DEF Heard
  <2> QED BY <2>1, <2>2, PublishHeeds
<1>12. ASSUME NEW pax, OnDriverAssigned(e, pax) PROVE Heeds(e)
  <2>1. /\ e.type = "assigned"
        /\ \/ Publish(e, "assigned", driverAssigned(e, {Passenger}), {})
           \/ Publish(e, "assigned", {}, driverAssigned(e, {Passenger}))
    BY <1>12 DEF OnDriverAssigned, Publish, Found
  <2>2. /\ driverAssigned(e, {Passenger}) \cup {} = Heard(e)
        /\ {} \cup driverAssigned(e, {Passenger}) = Heard(e)
    BY <2>1 DEF Heard
  <2> QED BY <2>1, <2>2, PublishHeeds
<1> QED
  BY <1>1, <1>2, <1>3, <1>4, <1>6, <1>7, <1>8, <1>9, <1>10, <1>11, <1>12 DEF Listen

LEMMA ListenFaults ==
  ASSUME NEW e, Listen(e), faults \in 0 .. MaxFaults
  PROVE  faults' \in 0 .. MaxFaults
<1>1. faults' = faults \/ (faults < MaxFaults /\ faults' = faults + 1)
  BY DEF Listen, OnTripRequested, OnAssigningStarted, OnDriverOffered, OnArrivingStarted,
     OnNoDriversFound, OnDriverAccepted, OnDriverAssigned, OnDriverEnRoute,
     OnDriverArrivedPickup, OnTripStarted, OnTripCompleted, GetPassengerId, Found, NotFound,
     Fault
<1> QED BY <1>1, NotificationAssumption

LEMMA ListenKeeps ==
  ASSUME IInv, NEW e \in inflight, Listen(e)
  PROVE  MessagesOK'
<1>1. Heeds(e)
  BY ListenHeeds
<1>2. MessagesTyped /\ QueuedOK
  BY Parts DEF MessagesOK
<1>3. e \in Event /\ Queued(e) /\ Heard(e) \subseteq Message
  <2>1. e \in Event /\ Queued(e)
    BY <1>2 DEF MessagesTyped, Queued
  <2> QED BY <1>2, <2>1, HeardTyped DEF QueuedOK
<1>4. MessagesTyped'
  <2>1. faults' \in 0 .. MaxFaults
    BY <1>2, ListenFaults DEF MessagesTyped
  <2> QED BY <1>1, <1>2, <1>3, <2>1 DEF MessagesTyped, Heeds
<1>5. ASSUME NEW f \in Event, Queued(f)' PROVE Queued(f)
  BY <1>1, <1>5 DEF Heeds, Queued
<1>6. ASSUME NEW f \in Event, Queued(f)
      PROVE  Queued(f)' \/ Heard(f) \subseteq (told \cup lost)'
  BY <1>1, <1>6 DEF Heeds, Queued
<1>7. ASSUME NEW m \in told'
      PROVE  m \in told \/ \E f \in Event : Queued(f) /\ m \in Heard(f)
  BY <1>1, <1>3, <1>7 DEF Heeds
<1> QED BY <1>1, <1>4, <1>5, <1>6, <1>7, MovesKeep DEF Heeds

----------------------------------------------------------------------------
(* The trips *)

\* Rows of other types, and of other trips, leave the offers of a trip as they are.
LEMMA OfferedKept ==
  ASSUME log \subseteq Row, NEW rows \in SUBSET Row, log' = log \cup rows,
         NEW u \in Trip, \A row \in rows : row.type # "offered" \/ row.trip # u
  PROVE  Offered(u)' = Offered(u)
<1>1. {f \in log' : f.type = "offered" /\ f.trip = u} = {f \in log : f.type = "offered" /\ f.trip = u}
  OBVIOUS
<1> QED BY <1>1 DEF Offered

\* A trip whose row, transaction and offers stay as they are keeps its stage.
LEMMA StageSame ==
  ASSUME NEW u \in Trip, Stage(u),
         status'[u] = status[u], driver'[u] = driver[u], holder'[u] = holder[u],
         open'[u] = open[u] \/ open'[u] = "none",
         u \in first' => u \in first,
         Offered(u)' = Offered(u),
         log \subseteq log'
  PROVE  Stage(u)'
BY DEF Stage

\* A trip that moves on from one of these statuses with its offers, with no transaction
\* open that waits for it to be PENDING.
LEMMA StageMoves ==
  ASSUME NEW t \in Trip, Stage(t),
         status'[t] \notin {"none", "pending", "assigning"},
         status[t] # "pending", status[t] # "assigning" \/ t \notin first,
         driver'[t] = driver[t], holder'[t] \in {holder[t], NoDriver},
         status'[t] \in OnTheWay => driver[t] \in Driver,
         open'[t] = open[t], t \in first' => t \in first,
         Offered(t)' = Offered(t),
         log \subseteq log'
  PROVE  Stage(t)'
BY DEF Stage

LEMMA TripFacts ==
  ASSUME IInv, NEW t \in Trip
  PROVE  /\ TripsTyped /\ MessagesTyped /\ Stage(t)
         /\ log \subseteq Row
         /\ driver[t] \in Driver \cup {NoDriver} /\ holder[t] \in Driver \cup {NoDriver}
BY Parts DEF MessagesOK, MessagesTyped, TripsTyped, StageOK

\* A new row justifies the events it stands for.
LEMMA NewRowJustifies ==
  ASSUME NEW row \in Row, row \in log', row.type \notin Silent,
         NEW e \in EventsOf(row)
  PROVE  Justified(e)'
BY EventsFacts DEF Justified

\* A handler that commits one row and the one event it stands for.
LEMMA CommitsOne ==
  ASSUME IInv, NEW type \in Types \ {"arriving", "en_route"}, NEW t \in Trip,
         NEW d \in Driver \cup {NoDriver}, type \in Quiet \/ d \in Driver,
         Commits({Ev(type, t, d)}, {Ev(type, t, d)})
  PROVE  MessagesOK'
<1> DEFINE e == Ev(type, t, d)
<1>1. e \in Event /\ e \in Row /\ e.type = type /\ e.to = d
  BY EvTyped, EvFacts DEF LogTypes
<1>2. e.type \notin Silent \cup {"en_route"} /\ Addressed(e)
  BY <1>1 DEF Types, Silent, Addressed
<1>3. Commits({e}, {e})
  OBVIOUS
<1> HIDE DEF e
<1>4. EventsOf(e) = {e}
  BY <1>1, <1>2, EventsFacts
<1>5. Justified(e)'
  BY <1>1, <1>2, <1>3, <1>4, NewRowJustifies DEF Commits
<1> QED BY <1>1, <1>2, <1>3, <1>4, <1>5, CommitsKeep

\* What a commit of one row leaves of the offers.
LEMMA CommitsOffers ==
  ASSUME IInv, NEW type \in Types \ {"arriving"}, NEW t \in Trip,
         NEW d \in Driver \cup {NoDriver}, NEW batch,
         Commits({Ev(type, t, d)}, batch), NEW u \in Trip
  PROVE  /\ type # "offered" \/ u # t => Offered(u)' = Offered(u)
         /\ log \subseteq log' /\ open' = open
         /\ Ev(type, t, d) \in log' /\ Ev(type, t, d) \in Row
<1>1. Ev(type, t, d) \in Row /\ Ev(type, t, d).type = type /\ Ev(type, t, d).trip = t
  BY EvTyped, EvFacts DEF LogTypes
<1>2. log' = log \cup {Ev(type, t, d)} /\ open' = open
  BY DEF Commits
<1> QED BY <1>1, <1>2, OfferedKept, TripFacts

LEMMA RequestKeeps ==
  ASSUME IInv, NEW t \in Trip, RequestTrip(t)
  PROVE  TripsTyped' /\ StageOK' /\ MessagesOK'
<1> DEFINE e == Ev("requested", t, NoDriver)
<1>1. /\ status[t] = "none"
      /\ status' = [status EXCEPT ![t] = "pending"]
      /\ UNCHANGED <<driver, holder, first>>
      /\ Commits({e}, {e})
  BY DEF RequestTrip, L!Request, L!Move
<1>2. MessagesOK'
  BY <1>1, CommitsOne DEF Types, Quiet
<1>3. ASSUME NEW u \in Trip
      PROVE  Offered(u)' = Offered(u) /\ log \subseteq log' /\ open' = open
  <2>1. "requested" \in Types \ {"arriving"}
    BY DEF Types
  <2> QED BY <1>1, <1>3, <2>1, CommitsOffers
<1>4. TripsTyped'
  BY <1>1, <1>3, TripFacts DEF TripsTyped
<1>5. ASSUME NEW u \in Trip PROVE Stage(u)'
  <2>1. CASE u = t
    BY <1>1, <1>3, <2>1, TripFacts DEF Stage, TripsTyped, OnTheWay
  <2>2. CASE u # t
    BY <1>1, <1>3, <2>2, TripFacts, StageSame DEF TripsTyped
  <2> QED BY <2>1, <2>2
<1> QED BY <1>2, <1>4, <1>5 DEF StageOK

LEMMA StartAssigningKeeps ==
  ASSUME IInv, NEW t \in Trip, StartAssigning(t)
  PROVE  TripsTyped' /\ StageOK' /\ MessagesOK'
<1> DEFINE e == Ev("assigning", t, NoDriver)
<1>1. /\ status[t] = "pending"
      /\ open' = [open EXCEPT ![t] = "start"]
      /\ Opens(t, "start", e)
      /\ UNCHANGED <<status, driver, holder, first, log>>
  BY DEF StartAssigning, Opens, tripState
<1>2. TripsTyped'
  BY <1>1, TripFacts DEF TripsTyped
<1>3. MessagesOK'
  <2>1. e \in Event /\ e.type \in Quiet
    BY EvTyped, EvFacts DEF Types, Quiet
  <2>2. Uncommitted(t)' = {e}
    BY <1>1, TripFacts DEF Uncommitted, TripsTyped
  <2> QED BY <1>1, <2>1, <2>2, OpensKeep
<1>4. ASSUME NEW u \in Trip PROVE Stage(u)'
  <2>1. Offered(u)' = Offered(u)
    BY <1>1 DEF Offered
  <2>2. CASE u = t
    BY <1>1, <2>1, <2>2, TripFacts DEF Stage, TripsTyped
  <2>3. CASE u # t
    BY <1>1, <2>1, <2>3, TripFacts, StageSame DEF TripsTyped
  <2> QED BY <2>2, <2>3
<1> QED BY <1>2, <1>3, <1>4 DEF StageOK

LEMMA ExpireKeeps ==
  ASSUME IInv, NEW t \in Trip, ExpireFindsNobody(t)
  PROVE  TripsTyped' /\ StageOK' /\ MessagesOK'
<1> DEFINE e == Ev("no_drivers", t, NoDriver)
<1>1. /\ Offered(t) # {}
      /\ open' = [open EXCEPT ![t] = "expire"]
      /\ Opens(t, "expire", e)
      /\ UNCHANGED <<status, driver, holder, first, log>>
  BY DEF ExpireFindsNobody, Opens, tripState
<1>2. TripsTyped'
  BY <1>1, TripFacts DEF TripsTyped
<1>3. MessagesOK'
  <2>1. e \in Event /\ e.type \in Quiet
    BY EvTyped, EvFacts DEF Types, Quiet
  <2>2. Uncommitted(t)' = {e}
    BY <1>1, TripFacts DEF Uncommitted, TripsTyped
  <2> QED BY <1>1, <2>1, <2>2, OpensKeep
<1>4. ASSUME NEW u \in Trip PROVE Stage(u)'
  <2>1. Offered(u)' = Offered(u)
    BY <1>1 DEF Offered
  <2>2. CASE u = t
    BY <1>1, <2>1, <2>2, TripFacts DEF Stage, TripsTyped
  <2>3. CASE u # t
    BY <1>1, <2>1, <2>3, TripFacts, StageSame DEF TripsTyped
  <2> QED BY <2>2, <2>3
<1> QED BY <1>2, <1>3, <1>4 DEF StageOK

LEMMA CommitStage ==
  ASSUME IInv, NEW t \in Trip, Commit(t)
  PROVE  TripsTyped' /\ StageOK' /\ MessagesOK'
<1>1. /\ UNCHANGED driver
      /\ log' = log \cup Uncommitted(t)
      /\ open' = [open EXCEPT ![t] = "none"]
  BY DEF Commit, L!Assigning, L!Close, L!Move
<1>2. MessagesOK'
  BY CommitKeeps
<1>3. ASSUME NEW u \in Trip PROVE Offered(u)' = Offered(u) /\ log \subseteq log'
  <2>1. ASSUME NEW e \in Uncommitted(t) PROVE e \in Row /\ e.type # "offered"
    BY <2>1, UncommittedFacts DEF IInv
  <2> QED BY <1>1, <2>1, TripFacts, OfferedKept
<1>4. CASE open[t] = "start" /\ L!Assigning(t) /\ first' = first \cup {t}
  <2>1. /\ status[t] = "pending"
        /\ status' = [status EXCEPT ![t] = "assigning"]
        /\ UNCHANGED holder
    BY <1>4 DEF L!Assigning, L!Move
  <2>2. TripsTyped'
    BY <1>1, <1>4, <2>1, TripFacts DEF TripsTyped
  <2>3. ASSUME NEW u \in Trip PROVE Stage(u)'
    <3>1. CASE u = t
      BY <1>1, <1>3, <1>4, <2>1, <3>1, TripFacts DEF Stage, TripsTyped, OnTheWay
    <3>2. CASE u # t
      BY <1>1, <1>3, <1>4, <2>1, <3>2, TripFacts, StageSame DEF TripsTyped
    <3> QED BY <3>1, <3>2
  <2> QED BY <1>2, <2>2, <2>3 DEF StageOK
<1>5. CASE open[t] = "expire" /\ L!Close(t) /\ UNCHANGED first
  <2>1. /\ status' = [status EXCEPT ![t] = "no_drivers_found"]
        /\ holder' = [holder EXCEPT ![t] = NoDriver]
    BY <1>5 DEF L!Close, L!Move
  <2>2. TripsTyped'
    BY <1>1, <1>5, <2>1, TripFacts DEF TripsTyped
  <2>3. ASSUME NEW u \in Trip PROVE Stage(u)'
    <3>1. CASE u = t
      BY <1>1, <1>3, <1>5, <2>1, <3>1, TripFacts DEF Stage, TripsTyped, OnTheWay
    <3>2. CASE u # t
      BY <1>1, <1>3, <1>5, <2>1, <3>2, TripFacts, StageSame DEF TripsTyped
    <3> QED BY <3>1, <3>2
  <2> QED BY <1>2, <2>2, <2>3 DEF StageOK
<1> QED BY <1>4, <1>5 DEF Commit

LEMMA RollBackStage ==
  ASSUME IInv, NEW t \in Trip, RollBack(t)
  PROVE  TripsTyped' /\ StageOK' /\ MessagesOK'
<1>1. /\ UNCHANGED <<status, driver, holder, first, log>>
      /\ open' = [open EXCEPT ![t] = "none"]
  BY DEF RollBack, tripState
<1>2. TripsTyped'
  BY <1>1, TripFacts DEF TripsTyped
<1>3. ASSUME NEW u \in Trip PROVE Stage(u)'
  <2>1. Offered(u)' = Offered(u)
    BY <1>1 DEF Offered
  <2> QED BY <1>1, <2>1, TripFacts, StageSame DEF TripsTyped
<1> QED BY <1>2, <1>3, RollBackKeeps DEF StageOK

LEMMA AnswerKeeps ==
  ASSUME IInv, NEW t \in Trip, NEW d \in Driver, NEW type, AnswerOffer(t, d, type)
  PROVE  TripsTyped' /\ StageOK' /\ MessagesOK'
<1> DEFINE row == Ev(type, t, d)
<1>1. /\ UNCHANGED <<status, driver, first, open, due, inflight, online, told, lost>>
      /\ UNCHANGED <<retracted, faults>>
      /\ holder' \in {holder, [holder EXCEPT ![t] = NoDriver]}
      /\ log' = log \cup {row}
  BY DEF AnswerOffer, L!Withdraw, chain, heardState
<1>2. row \in Row /\ row.type \in Silent /\ row.type # "offered"
  BY EvTyped, EvFacts DEF AnswerOffer, LogTypes, Silent
<1> HIDE DEF row
<1>3. TripsTyped'
  BY <1>1, TripFacts DEF TripsTyped
<1>4. ASSUME NEW u \in Trip PROVE Stage(u)'
  <2>1. Offered(u)' = Offered(u)
    <3>1. {row} \in SUBSET Row /\ \A r \in {row} : r.type # "offered"
      BY <1>2
    <3> QED BY <1>1, <3>1, TripFacts, OfferedKept
  <2>2. CASE u = t
    BY <1>1, <2>1, <2>2, TripFacts DEF Stage, TripsTyped
  <2>3. CASE u # t
    BY <1>1, <2>1, <2>3, TripFacts, StageSame DEF TripsTyped
  <2> QED BY <2>2, <2>3
<1> QED BY <1>1, <1>2, <1>3, <1>4, SilentKeeps DEF StageOK

LEMMA MarkStage ==
  ASSUME IInv, NEW t \in Trip, MarkTripNoDriversFound(t)
  PROVE  TripsTyped' /\ StageOK' /\ MessagesOK'
<1> DEFINE row == Ev("closed_by_hand", t, NoDriver)
<1>1. /\ UNCHANGED <<driver, first, open>>
      /\ open[t] = "none"
      /\ status' = [status EXCEPT ![t] = "no_drivers_found"]
      /\ holder' = [holder EXCEPT ![t] = NoDriver]
      /\ log' = log \cup {row}
      /\ UNCHANGED <<due, inflight, online, told, lost, retracted, faults>>
  BY DEF MarkTripNoDriversFound, L!Close, L!Move, chain, heardState
<1>2. row \in Row /\ row.type = "closed_by_hand" /\ row.type \in Silent
  <2>1. "closed_by_hand" \in LogTypes /\ "closed_by_hand" \in Silent
    BY DEF LogTypes, Silent
  <2> QED BY <2>1, EvTyped, EvFacts
<1> HIDE DEF row
<1>3. ASSUME NEW u \in Trip PROVE Offered(u)' = Offered(u)
  <2>1. {row} \in SUBSET Row /\ \A r \in {row} : r.type # "offered"
    BY <1>2
  <2> QED BY <1>1, <2>1, TripFacts, OfferedKept
<1>4. TripsTyped'
  BY <1>1, TripFacts DEF TripsTyped
<1>5. ASSUME NEW u \in Trip PROVE Stage(u)'
  <2>1. CASE u = t
    BY <1>1, <1>3, <2>1, TripFacts DEF Stage, TripsTyped, OnTheWay, row
  <2>2. CASE u # t
    BY <1>1, <1>3, <2>2, TripFacts, StageSame DEF TripsTyped
  <2> QED BY <2>1, <2>2
<1> QED BY <1>1, <1>2, <1>4, <1>5, SilentKeeps DEF StageOK

LEMMA OfferKeeps ==
  ASSUME IInv, NEW t \in Trip, NEW d \in Driver, Offer(t, d)
  PROVE  TripsTyped' /\ StageOK' /\ MessagesOK'
<1> DEFINE e == Ev("offered", t, d)
<1>1. /\ status[t] = "assigning" /\ open[t] = "none"
      /\ UNCHANGED <<status, driver>>
      /\ holder' = [holder EXCEPT ![t] = d]
      /\ first' = first \ {t}
      /\ Commits({e}, {e})
  BY DEF Offer, L!Offer
<1>2. "offered" \in Types \ {"arriving", "en_route"}
  BY DEF Types
<1>3. MessagesOK'
  BY <1>1, <1>2, CommitsOne
<1>4. ASSUME NEW u \in Trip
      PROVE  /\ u # t => Offered(u)' = Offered(u)
             /\ log \subseteq log' /\ open' = open
             /\ e \in log'
  BY <1>1, <1>2, <1>4, CommitsOffers
<1>5. TripsTyped'
  BY <1>1, <1>4, TripFacts DEF TripsTyped
<1>6. ASSUME NEW u \in Trip PROVE Stage(u)'
  <2>1. CASE u = t
    <3>1. d \in Offered(t)'
      BY <1>4, EvFacts DEF Offered
    <3> QED BY <1>1, <1>4, <2>1, <3>1, TripFacts DEF Stage, TripsTyped, OnTheWay
  <2>2. CASE u # t
    BY <1>1, <1>4, <2>2, TripFacts, StageSame DEF TripsTyped
  <2> QED BY <2>1, <2>2
<1> QED BY <1>3, <1>5, <1>6 DEF StageOK

\* The first matching finds nobody: it closes the trip, or finds it closed by hand.
LEMMA StartFindsKeeps ==
  ASSUME IInv, NEW t \in Trip, StartFindsNobody(t)
  PROVE  TripsTyped' /\ StageOK' /\ MessagesOK'
<1> DEFINE e == Ev("no_drivers", t, NoDriver)
<1>1. /\ t \in first
      /\ open[t] = "none"
      /\ first' = first \ {t}
      /\ \/ L!Close(t) /\ Commits({e}, {e})
         \/ /\ status[t] \notin {"pending", "assigning"}
            /\ Commits({}, {e})
            /\ UNCHANGED <<status, driver, holder>>
  BY DEF StartFindsNobody
<1>2. "no_drivers" \in Types \ {"arriving", "en_route"} /\ "no_drivers" \in Quiet
  BY DEF Types, Quiet
<1>3. CASE L!Close(t) /\ Commits({e}, {e})
  <2>1. /\ UNCHANGED driver
        /\ status' = [status EXCEPT ![t] = "no_drivers_found"]
        /\ holder' = [holder EXCEPT ![t] = NoDriver]
    BY <1>3 DEF L!Close, L!Move
  <2>2. MessagesOK'
    BY <1>2, <1>3, CommitsOne
  <2>3. ASSUME NEW u \in Trip
        PROVE  Offered(u)' = Offered(u) /\ log \subseteq log' /\ open' = open
    <3>1. "no_drivers" \in Types \ {"arriving"}
      BY DEF Types
    <3> QED BY <1>3, <2>3, <3>1, CommitsOffers
  <2>4. TripsTyped'
    BY <1>1, <2>1, <2>3, TripFacts DEF TripsTyped
  <2>5. ASSUME NEW u \in Trip PROVE Stage(u)'
    <3>1. CASE u = t
      BY <1>1, <2>1, <2>3, <3>1, TripFacts DEF Stage, TripsTyped, OnTheWay
    <3>2. CASE u # t
      BY <1>1, <2>1, <2>3, <3>2, TripFacts, StageSame DEF TripsTyped
    <3> QED BY <3>1, <3>2
  <2> QED BY <2>2, <2>4, <2>5 DEF StageOK
<1>4. CASE /\ status[t] \notin {"pending", "assigning"}
           /\ Commits({}, {e})
           /\ UNCHANGED <<status, driver, holder>>
  <2> DEFINE row == Ev("closed_by_hand", t, NoDriver)
  <2>1. log' = log /\ open' = open
    BY <1>4 DEF Commits
  <2>2. row \in log /\ row.type = "closed_by_hand"
    BY <1>1, <1>4, TripFacts, EvFacts DEF Stage
  <2>3. Truth(row) = {e}
    <3>1. [row EXCEPT !.type = "no_drivers"] = e
      BY DEF Ev
    <3> QED BY <2>2, <3>1 DEF Truth
  <2>4. e \in Event /\ Addressed(e)
    BY <1>2, EvTyped, EvFacts DEF Addressed
  <2>5. MessagesOK'
    <3>1. Justified(e)'
      BY <2>1, <2>2, <2>3 DEF Justified
    <3> HIDE DEF e
    <3>2. {} \in SUBSET Row /\ {e} \in SUBSET Event
      BY <2>4
    <3> QED BY <1>4, <2>4, <3>1, <3>2, CommitsKeep
  <2>6. TripsTyped'
    BY <1>1, <1>4, <2>1, TripFacts DEF TripsTyped
  <2>7. ASSUME NEW u \in Trip PROVE Stage(u)'
    <3>1. Offered(u)' = Offered(u)
      BY <2>1 DEF Offered
    <3> QED BY <1>1, <1>4, <2>1, <3>1, TripFacts, StageSame
  <2> QED BY <2>5, <2>6, <2>7 DEF StageOK
<1> QED BY <1>1, <1>3, <1>4

\* An acceptance: one transaction, two rows, two events, told to the driver who held
\* the offer.
LEMMA AcceptKeeps ==
  ASSUME IInv, NEW t \in Trip, Accept(t)
  PROVE  TripsTyped' /\ StageOK' /\ MessagesOK'
<1> DEFINE both == {Ev(type, t, holder[t]) : type \in {"accepted", "assigned"}}
<1>1. /\ open[t] = "none" /\ holder[t] \in Driver /\ status[t] = "assigning"
      /\ status' = [status EXCEPT ![t] = "accepted"]
      /\ driver' = [driver EXCEPT ![t] = holder[t]]
      /\ holder' = [holder EXCEPT ![t] = NoDriver]
      /\ UNCHANGED first
      /\ Commits(both, both)
  BY DEF Accept, L!Take, L!Move
<1>2. ASSUME NEW row \in both
      PROVE  /\ row \in Row /\ row \in Event /\ row.to \in Driver
             /\ row.type \in {"accepted", "assigned"}
  <2>1. {"accepted", "assigned"} \subseteq Types /\ {"accepted", "assigned"} \subseteq LogTypes
    BY DEF Types, LogTypes
  <2> QED BY <1>1, <1>2, <2>1, EvTyped, EvFacts
<1>3. both \in SUBSET Row /\ both \in SUBSET Event
  BY <1>2
<1> HIDE DEF both
<1>4. log' = log \cup both /\ open' = open
  BY <1>1 DEF Commits
<1>5. ASSUME NEW row \in both
      PROVE  EventsOf(row) = {row} /\ row.type \notin Silent /\ Addressed(row)
  BY <1>2, <1>5, EventsFacts DEF Addressed, Silent
<1>6. MessagesOK'
  <2>1. ASSUME NEW e \in both PROVE Justified(e)' /\ Addressed(e)
    BY <1>2, <1>4, <1>5, <2>1, NewRowJustifies
  <2>2. ASSUME NEW row \in both
        PROVE  row.type \notin Silent /\ EventsOf(row) \subseteq both
    BY <1>5, <2>2
  <2> QED BY <1>1, <1>3, <2>1, <2>2, CommitsKeep
<1>7. ASSUME NEW u \in Trip PROVE Offered(u)' = Offered(u)
  BY <1>2, <1>3, <1>4, <1>7, TripFacts, OfferedKept
<1>8. TripsTyped'
  BY <1>1, <1>4, TripFacts DEF TripsTyped
<1>9. ASSUME NEW u \in Trip PROVE Stage(u)'
  <2>1. CASE u = t
    BY <1>1, <1>4, <1>7, <2>1, NotificationAssumption, TripFacts DEF Stage, TripsTyped, OnTheWay
  <2>2. CASE u # t
    BY <1>1, <1>4, <1>7, <2>2, TripFacts, StageSame DEF TripsTyped
  <2> QED BY <2>1, <2>2
<1> QED BY <1>6, <1>8, <1>9 DEF StageOK

\* The steps of a ride take a trip that has a driver on to another such status.
LEMMA RideStage ==
  ASSUME IInv, NEW t \in Trip, NEW to \in OnTheWay,
         status[t] \in OnTheWay, status' = [status EXCEPT ![t] = to],
         UNCHANGED <<driver, holder, first, open>>,
         log \subseteq log', \A u \in Trip : Offered(u)' = Offered(u)
  PROVE  TripsTyped' /\ StageOK'
<1>1. TripsTyped'
  BY TripFacts DEF TripsTyped, OnTheWay
<1>2. ASSUME NEW u \in Trip PROVE Stage(u)'
  <2>1. CASE u = t
    BY <2>1, TripFacts DEF Stage, TripsTyped, OnTheWay
  <2>2. CASE u # t
    BY <2>2, TripFacts, StageSame DEF TripsTyped
  <2> QED BY <2>1, <2>2
<1> QED BY <1>1, <1>2 DEF StageOK

LEMMA RideKeeps ==
  ASSUME IInv, NEW t \in Trip, NEW to \in OnTheWay, NEW from \in SUBSET OnTheWay,
         NEW type \in {"arrived", "started", "completed"},
         Ride(t, from, type), status' = [status EXCEPT ![t] = to]
  PROVE  TripsTyped' /\ StageOK' /\ MessagesOK'
<1>1. /\ status[t] \in OnTheWay
      /\ Commits({Ev(type, t, driver[t])}, {Ev(type, t, driver[t])})
      /\ UNCHANGED <<driver, holder, first>>
  BY DEF Ride
<1>2. type \in Types \ {"arriving", "en_route"} /\ type # "offered"
  BY DEF Types
<1>3. driver[t] \in Driver
  BY <1>1, TripFacts DEF Stage
<1>4. MessagesOK'
  BY <1>1, <1>2, <1>3, CommitsOne
<1>5. ASSUME NEW u \in Trip
      PROVE  Offered(u)' = Offered(u) /\ log \subseteq log' /\ open' = open
  BY <1>1, <1>2, <1>3, <1>5, CommitsOffers
<1>6. TripsTyped' /\ StageOK'
  BY <1>1, <1>5, RideStage
<1> QED BY <1>4, <1>6

LEMMA StartArrivingKeeps ==
  ASSUME IInv, NEW t \in Trip, StartArriving(t)
  PROVE  TripsTyped' /\ StageOK' /\ MessagesOK'
<1> DEFINE row == Ev("en_route", t, driver[t])
           other == Ev("arriving", t, driver[t])
           batch == {Ev(type, t, driver[t]) : type \in {"arriving", "en_route"}}
<1>1. /\ status[t] = "accepted"
      /\ status' = [status EXCEPT ![t] = "arriving"]
      /\ UNCHANGED <<driver, holder, first>>
      /\ Commits({row}, batch)
  BY DEF StartArriving, L!Move
<1>2. driver[t] \in Driver
  BY <1>1, TripFacts DEF Stage, OnTheWay
<1>3. /\ row \in Row /\ row \in Event /\ other \in Event
      /\ row.type = "en_route" /\ Addressed(row) /\ Addressed(other)
  <2>1. {"arriving", "en_route"} \subseteq Types /\ "en_route" \in LogTypes
    BY DEF Types, LogTypes
  <2> QED BY <1>2, <2>1, EvTyped, EvFacts DEF Addressed
<1>4. EventsOf(row) = {row, other} /\ batch = {row, other}
  <2>1. [row EXCEPT !.type = "arriving"] = other
    BY EvArriving
  <2>2. EventsOf(row) = {row, other}
    BY <1>3, <2>1 DEF EventsOf
  <2>3. batch = {row, other}
    OBVIOUS
  <2> QED BY <2>2, <2>3
<1>5. ASSUME NEW u \in Trip
      PROVE  Offered(u)' = Offered(u) /\ log \subseteq log' /\ open' = open
  <2>1. "en_route" \in Types \ {"arriving"}
    BY DEF Types
  <2> QED BY <1>1, <1>2, <1>5, <2>1, CommitsOffers
<1> HIDE DEF row, other, batch
<1>6. MessagesOK'
  <2>1. {row} \in SUBSET Row /\ batch \in SUBSET Event /\ row \in log'
    BY <1>1, <1>3, <1>4 DEF Commits
  <2>2. ASSUME NEW e \in batch PROVE Justified(e)' /\ Addressed(e)
    BY <1>3, <1>4, <2>1, <2>2, NewRowJustifies DEF Silent
  <2>3. \A r \in {row} : r.type \notin Silent /\ EventsOf(r) \subseteq batch
    BY <1>3, <1>4 DEF Silent
  <2> QED BY <1>1, <2>1, <2>2, <2>3, CommitsKeep
<1>7. TripsTyped' /\ StageOK'
  BY <1>1, <1>5, RideStage DEF OnTheWay
<1> QED BY <1>6, <1>7

LEMMA OnTheRoadKeeps ==
  ASSUME IInv, NEW t \in Trip, OnTheRoad(t)
  PROVE  TripsTyped' /\ StageOK' /\ MessagesOK'
<1>0. {"accepted", "arriving"} \in SUBSET OnTheWay /\ {"in_progress"} \in SUBSET OnTheWay
  BY DEF OnTheWay
<1>1. CASE MarkArrivedPickup(t)
  <2>1. Ride(t, {"accepted", "arriving"}, "arrived") /\ UNCHANGED status
    BY <1>1 DEF MarkArrivedPickup
  <2>2. status[t] \in OnTheWay
    BY <1>0, <2>1 DEF Ride
  <2>3. status' = [status EXCEPT ![t] = status[t]]
    BY <2>1, TripFacts DEF TripsTyped
  <2> QED BY <1>0, <2>1, <2>2, <2>3, RideKeeps
<1>2. CASE StartTrip(t)
  BY <1>0, <1>2, RideKeeps DEF StartTrip, SetStatus, OnTheWay
<1>3. CASE CompleteTrip(t)
  BY <1>0, <1>3, RideKeeps DEF CompleteTrip, SetStatus, OnTheWay
<1> QED BY <1>1, <1>2, <1>3, StartArrivingKeeps DEF OnTheRoad

----------------------------------------------------------------------------
(* The invariant *)

LEMMA InitOK == Init => IInv
<1> SUFFICES ASSUME Init PROVE IInv
  OBVIOUS
<1>1. /\ status = [t \in Trip |-> "none"]
      /\ driver = [t \in Trip |-> NoDriver]
      /\ holder = [t \in Trip |-> NoDriver]
      /\ first = {} /\ open = [t \in Trip |-> "none"]
      /\ log = {} /\ due = {} /\ inflight = {} /\ online = User
      /\ told = {} /\ lost = {} /\ retracted = {} /\ faults = 0
  BY DEF Init, L!Init
<1>2. TripsTyped
  BY <1>1 DEF TripsTyped
<1>3. MessagesTyped
  BY <1>1, NotificationAssumption DEF MessagesTyped
<1>4. StageOK
  BY <1>1 DEF StageOK, Stage, Offered, OnTheWay
<1>5. QueuedOK /\ ToldOK
  BY <1>1 DEF QueuedOK, Queued, ToldOK
<1>6. SettledOK
  <2>1. ASSUME NEW t \in Trip PROVE Uncommitted(t) = {}
    BY <1>1 DEF Uncommitted
  <2> QED BY <1>1, <2>1 DEF SettledOK, Owed
<1> QED BY <1>2, <1>3, <1>4, <1>5, <1>6, Parts DEF MessagesOK

\* Steps that leave the trips, their transactions and the history alone.
LEMMA TripsSame ==
  ASSUME IInv, UNCHANGED <<tripState, open, log>>
  PROVE  TripsTyped' /\ StageOK'
<1>1. UNCHANGED <<status, driver, holder, first, open, log>>
  BY DEF tripState
<1>2. TripsTyped'
  BY <1>1, Parts DEF TripsTyped
<1>3. ASSUME NEW u \in Trip PROVE Stage(u)'
  <2>1. Offered(u)' = Offered(u)
    BY <1>1 DEF Offered
  <2> QED BY <1>1, <2>1, TripFacts, StageSame
<1> QED BY <1>2, <1>3 DEF StageOK

LEMMA CrashStage ==
  ASSUME IInv, Crash
  PROVE  TripsTyped' /\ StageOK'
<1>1. /\ UNCHANGED <<status, driver, holder, log>>
      /\ first' = {}
      /\ open' = [t \in Trip |-> "none"]
  BY DEF Crash
<1>2. TripsTyped'
  BY <1>1, Parts DEF TripsTyped
<1>3. ASSUME NEW u \in Trip PROVE Stage(u)'
  <2>1. Offered(u)' = Offered(u)
    BY <1>1 DEF Offered
  <2> QED BY <1>1, <2>1, TripFacts, StageSame
<1> QED BY <1>2, <1>3 DEF StageOK

LEMMA SocketsKeep ==
  ASSUME IInv, NEW u \in User, Connect(u) \/ Disconnect(u)
  PROVE  MessagesOK'
<1>1. /\ UNCHANGED <<open, log, due, inflight, told, lost, retracted>>
      /\ online' \subseteq online \cup {u}
      /\ faults' = faults \/ (faults < MaxFaults /\ faults' = faults + 1)
  BY DEF Connect, Disconnect, Fault, chain, heardState
<1>2. MessagesTyped
  BY Parts DEF MessagesOK
<1>3. faults' \in 0 .. MaxFaults
  BY <1>1, <1>2, NotificationAssumption DEF MessagesTyped
<1>4. MessagesTyped'
  BY <1>1, <1>2, <1>3 DEF MessagesTyped
<1> QED BY <1>1, <1>4, QuietKeeps

LEMMA DispatchKeeps ==
  ASSUME IInv, NEW t \in Trip, Dispatch(t)
  PROVE  TripsTyped' /\ StageOK' /\ MessagesOK'
BY RequestKeeps, StartAssigningKeeps, ExpireKeeps, CommitStage, RollBackStage, AnswerKeeps,
   StartFindsKeeps, MarkStage, AcceptKeeps, OfferKeeps DEF Dispatch

LEMMA NextKeeps == IInv /\ [Next]_vars => IInv'
<1> SUFFICES ASSUME IInv, [Next]_vars PROVE TripsTyped' /\ StageOK' /\ MessagesOK'
  BY Parts DEF IInv, TypeOK, MessagesOK, MessagesTyped, TripsTyped
<1>1. CASE \E t \in Trip : Dispatch(t) \/ OnTheRoad(t)
  BY <1>1, DispatchKeeps, OnTheRoadKeeps
<1>2. CASE \E b \in due : Emit(b) \/ EmitFails(b)
  <2>1. PICK b \in due : Emit(b) \/ EmitFails(b)
    BY <1>2
  <2>2. UNCHANGED <<tripState, open, log>>
    BY <2>1 DEF Emit, EmitFails
  <2> QED BY <2>1, <2>2, EmitKeeps, EmitFailsKeeps, TripsSame
<1>3. CASE \E e \in inflight : Listen(e)
  <2>1. PICK e \in inflight : Listen(e)
    BY <1>3
  <2>2. UNCHANGED <<tripState, open, log>>
    BY <2>1, ListenHeeds DEF Heeds
  <2> QED BY <2>1, <2>2, ListenKeeps, TripsSame
<1>4. CASE \E u \in User : Connect(u) \/ Disconnect(u)
  <2>1. PICK u \in User : Connect(u) \/ Disconnect(u)
    BY <1>4
  <2>2. UNCHANGED <<tripState, open, log>>
    BY <2>1 DEF Connect, Disconnect
  <2> QED BY <2>1, <2>2, SocketsKeep, TripsSame
<1>5. CASE Crash
  BY <1>5, CrashKeeps, CrashStage
<1>6. CASE UNCHANGED vars
  <2>1. /\ UNCHANGED <<tripState, open, log>>
        /\ UNCHANGED <<due, inflight, online, told, lost, retracted, faults>>
    BY <1>6 DEF vars, chain, heardState
  <2>2. MessagesTyped'
    BY <2>1, Parts DEF MessagesOK, MessagesTyped
  <2> QED BY <2>1, <2>2, QuietKeeps, TripsSame
<1> QED BY <1>1, <1>2, <1>3, <1>4, <1>5, <1>6 DEF Next

LEMMA Invariance == Spec => []IInv
BY InitOK, NextKeeps, PTL DEF Spec

----------------------------------------------------------------------------
(* Theorems *)

\* Trips, history, queues and messages keep their types: nobody is sent a message that
\* has no addressee, a driver's message for a trip without a driver included.
THEOREM TypesHold == Spec => []TypeOK
<1>1. IInv => TypeOK
  BY DEF IInv
<1> QED BY <1>1, Invariance, PTL

\* Nobody is told of a step of a trip that its history does not hold, except by a
\* transaction that is open or was rolled back, in whatever order the handlers' events
\* reach the sockets, in a room or by broadcast.
THEOREM NothingFalseIsTold == Spec => []ToldIsLogged
<1>1. IInv => ToldIsLogged
  <2> SUFFICES ASSUME IInv PROVE ToldIsLogged
    OBVIOUS
  <2>1. ASSUME NEW m \in told
        PROVE  \E e \in ((UNION {Truth(row) : row \in log}) \cup retracted
                          \cup (UNION {Uncommitted(t) : t \in Trip})) : m \in Heard(e)
    <3>1. PICK e \in Event : Justified(e) /\ m \in Heard(e)
      BY <2>1 DEF IInv, ToldOK
    <3>2. e \in (UNION {Truth(row) : row \in log}) \cup retracted
                \cup (UNION {Uncommitted(t) : t \in Trip})
      BY <3>1 DEF Justified
    <3> QED BY <3>1, <3>2
  <2> QED BY <2>1 DEF ToldIsLogged
<1> QED BY <1>1, Invariance, PTL

\* When no event is waiting, every step in the history has been told to all it concerns
\* or is known to have been lost, but for the three that nobody is told of.
THEOREM EveryStepIsTold == Spec => []CaughtUp
<1>1. IInv => CaughtUp
  <2> SUFFICES ASSUME IInv, due = {}, inflight = {}, NEW row \in log, row.type \notin Silent,
                      NEW e \in EventsOf(row)
               PROVE  Heard(e) \subseteq told \cup lost
    BY DEF CaughtUp
  <2>1. row \in Row
    BY DEF IInv, TypeOK
  <2>2. e \in Event /\ Owed(e)
    BY <2>1, EventsFacts DEF Owed
  <2>3. ~Queued(e)
    BY DEF Queued
  <2> QED BY <2>2, <2>3 DEF IInv, SettledOK, Settled
<1> QED BY <1>1, Invariance, PTL

----------------------------------------------------------------------------
(* The trips behind the notifications *)

LEMMA DispatchFollows ==
  ASSUME NEW t \in Trip, Dispatch(t)
  PROVE  [L!Next]_(L!lvars)
<1>1. CASE RequestTrip(t)
  BY <1>1 DEF RequestTrip, L!Next
<1>2. CASE StartAssigning(t) \/ ExpireFindsNobody(t) \/ RollBack(t)
  BY <1>2 DEF StartAssigning, ExpireFindsNobody, RollBack, Opens, tripState, L!lvars
<1>3. CASE Commit(t)
  BY <1>3 DEF Commit, L!Next
<1>4. CASE \E d \in Driver, type \in {"rejected", "expired"} : AnswerOffer(t, d, type)
  BY <1>4 DEF AnswerOffer, L!Next, L!lvars
<1>5. CASE StartFindsNobody(t)
  BY <1>5 DEF StartFindsNobody, L!Next, L!lvars
<1>6. CASE MarkTripNoDriversFound(t)
  BY <1>6 DEF MarkTripNoDriversFound, L!Next
<1>7. CASE Accept(t)
  BY <1>7 DEF Accept, L!Next
<1>8. CASE \E d \in Driver : Offer(t, d)
  BY <1>8 DEF Offer, L!Next
<1> QED
  BY <1>1, <1>2, <1>3, <1>4, <1>5, <1>6, <1>7, <1>8 DEF Dispatch

LEMMA OnTheRoadFollows ==
  ASSUME NEW t \in Trip, OnTheRoad(t)
  PROVE  [L!Next]_(L!lvars)
<1>1. CASE MarkArrivedPickup(t)
  BY <1>1 DEF MarkArrivedPickup, Ride, L!lvars
<1>2. CASE StartArriving(t) \/ StartTrip(t) \/ CompleteTrip(t)
  <2>1. L!Advance(t)
    BY <1>2 DEF StartArriving, StartTrip, CompleteTrip, Ride, SetStatus, L!Advance, L!Move
  <2> QED
    BY <2>1 DEF L!Next
<1> QED
  BY <1>1, <1>2 DEF OnTheRoad

\* The trips that are told about live as TripLifecycle says, as do those of
\* TripDispatch: what is proved here of messages is about trips that model allows.
THEOREM TripsFollowLifecycle == Spec => L!Spec
<1>1. Init => L!Init
  BY DEF Init
<1>2. IInv /\ [Next]_vars => [L!Next]_(L!lvars)
  <2> SUFFICES ASSUME IInv, [Next]_vars PROVE [L!Next]_(L!lvars)
    OBVIOUS
  <2>1. CASE \E t \in Trip : Dispatch(t) \/ OnTheRoad(t)
    BY <2>1, DispatchFollows, OnTheRoadFollows
  <2>2. CASE \E b \in due : Emit(b) \/ EmitFails(b)
    BY <2>2 DEF Emit, EmitFails, tripState, L!lvars
  <2>3. CASE \E e \in inflight : Listen(e)
    BY <2>3, ListenHeeds DEF Heeds, tripState, L!lvars
  <2>4. CASE \E u \in User : Connect(u) \/ Disconnect(u)
    BY <2>4 DEF Connect, Disconnect, tripState, L!lvars
  <2>5. CASE Crash
    BY <2>5 DEF Crash, L!lvars
  <2>6. CASE UNCHANGED vars
    BY <2>6 DEF vars, tripState, L!lvars
  <2> QED
    BY <2>1, <2>2, <2>3, <2>4, <2>5, <2>6 DEF Next
<1> QED
  BY <1>1, <1>2, Invariance, PTL DEF Spec, L!Spec
=============================================================================
