------------------------ MODULE DriverAvailability ------------------------
(***************************************************************************)
(* The drivers_availability row of each driver and everything that writes  *)
(* it: drivers-availability/services/driver-availability.service.ts over   *)
(* its repository, the login and logout listeners of realtime/listeners,   *)
(* the trip service (acceptance and completion), the onboarding of a       *)
(* driver profile, and the PresenceSweeperJob of core/domain/jobs.         *)
(*                                                                         *)
(* updateStatusByDriverId reads the row and then updates it by id without  *)
(* a transaction, and markOnlineFromLogin decides on an even earlier read: *)
(* these are separate actions, with what was read kept in call[d].  The    *)
(* sweeper is two actions for the same reason.  A dto field is "yes",      *)
(* "no" or "keep" (undefined).                                             *)
(***************************************************************************)
EXTENDS Naturals, FiniteSets

CONSTANTS
  Driver, Vehicle, NoVehicle, NoDriver,
  ClientReasons,       \* the reasons clients send with a status
  Departed,            \* drivers who have left: their rows are OFFLINE and old,
                       \* and nobody but an administrator touches them
  BatchSize,           \* DA_SWEEP_BATCH
  MaxRides,            \* bound on the offers and rides of a driver at once, each
                       \* change counting as one
  MaxAge,              \* bound on how far presence timestamps are told apart
  MaxChanges           \* bound on what is changed behind the row's back: users,
                       \* profiles, wallets, vehicles, and raw writes of the row

ASSUME AvailabilityAssumption ==
  /\ NoVehicle \notin Vehicle
  /\ NoDriver \notin Driver
  /\ ClientReasons \subseteq {"NONE", "OFFLINE", "ON_TRIP", "UNAVAILABLE"}
  /\ Departed \subseteq Driver
  /\ BatchSize \in Nat \ {0}
  /\ MaxRides \in Nat \ {0}
  /\ MaxAge \in Nat \ {0}
  /\ MaxChanges \in Nat

VARIABLES
  live,      \* drivers with a row that is not soft-deleted
  flags,     \* is_online, is_available_for_trips, availability_reason
  trip,      \* whether current_trip_id is set
  vehicle,   \* current_vehicle_id
  age,       \* of last_presence_timestamp: 0 is within the TTL
  user,      \* the users row of the driver
  profile,   \* the driver profile: "fit" when approved and active
  wallet,    \* driver_balance.status
  fleet,     \* the vehicles
  offered,   \* how many offers a driver may still accept
  riding,    \* how many trips of his are under way in the trips table
  call,      \* the status change in flight for a driver
  sweep,     \* the rows the sweeper has selected and not updated yet
  by,        \* who wrote the flags last: the service's rules, the rules over
             \* another pointer than the row has, or a client
  adrift,    \* what put current_trip_id out of step with the rides: a request
             \* that sent it or deleted the row, the end of one of two rides
  changes

rowVars   == <<live, flags, trip, vehicle, age>>
fitVars   == <<user, profile, wallet, fleet>>
rideVars  == <<offered, riding>>
auditVars == <<by, adrift>>
vars == <<rowVars, fitVars, rideVars, call, sweep, auditVars, changes>>

----------------------------------------------------------------------------
(* Types *)

AvailabilityReason == {"NONE", "OFFLINE", "ON_TRIP", "UNAVAILABLE"}

Flags == [online : BOOLEAN, available : BOOLEAN, reason : AvailabilityReason]
Is(on, av, why) == [online |-> on, available |-> av, reason |-> why]
Offline == Is(FALSE, FALSE, "OFFLINE")

Choice == {"yes", "no", "keep"}
Patch == [online : Choice, available : Choice,
          reason : AvailabilityReason \cup {"keep"}]
Ask(on, av, why) == [online |-> on, available |-> av, reason |-> why]

Never == MaxAge + 1        \* last_presence_timestamp IS NULL

ProfileRow == {"none", "unfit", "fit"}

NoVehicleRow == [owner |-> NoDriver, profileOf |-> NoDriver, inService |-> FALSE]
VehicleRow == [owner : Driver \cup {NoDriver}, profileOf : Driver \cup {NoDriver},
               inService : BOOLEAN]

Idle == [at |-> "idle", trip |-> FALSE, vehicle |-> NoVehicle,
         patch |-> Ask("keep", "keep", "keep"), from |-> "none"]
Call == [at : {"idle", "read", "decided", "checked"}, trip : BOOLEAN,
         vehicle : Vehicle \cup {NoVehicle}, patch : Patch,
         from : {"none", "login", "client"}]

\* A driver without a row: what a later ensureForDriver starts from.
Blank(d) ==
  /\ flags[d] = Offline
  /\ ~trip[d]
  /\ vehicle[d] = NoVehicle
  /\ age[d] = Never

\* A deleted row is gone whole: nothing of it reaches the row that replaces it,
\* not even through a write that was on its way.
TypeOK ==
  /\ live \in [Driver -> BOOLEAN]
  /\ flags \in [Driver -> Flags]
  /\ trip \in [Driver -> BOOLEAN]
  /\ vehicle \in [Driver -> Vehicle \cup {NoVehicle}]
  /\ age \in [Driver -> 0 .. Never]
  /\ user \in [Driver -> {"active", "banned", "gone"}]
  /\ profile \in [Driver -> ProfileRow]
  /\ wallet \in [Driver -> {"none", "active", "blocked"}]
  /\ fleet \in [Vehicle -> VehicleRow]
  /\ offered \in [Driver -> 0 .. MaxRides]
  /\ riding \in [Driver -> 0 .. MaxRides]
  /\ call \in [Driver -> Call]
  /\ sweep \in SUBSET Driver
  /\ by \in [Driver -> {"app", "stale", "client"}]
  /\ adrift \in [Driver -> {"no", "sent", "ended"}]
  /\ changes \in 0 .. MaxChanges
  /\ \A d \in Driver : offered[d] + riding[d] <= MaxRides
  /\ \A d \in Driver : ~live[d] => Blank(d)

Init ==
  /\ live = [d \in Driver |-> d \in Departed]
  /\ flags = [d \in Driver |-> Offline]
  /\ trip = [d \in Driver |-> FALSE]
  /\ vehicle = [d \in Driver |-> NoVehicle]
  /\ age = [d \in Driver |-> IF d \in Departed THEN MaxAge ELSE Never]
  /\ user \in {u \in [Driver -> {"active", "banned"}] : \A d \in Departed : u[d] = "active"}
  /\ profile = [d \in Driver |-> "none"]
  /\ wallet = [d \in Driver |-> "none"]
  /\ fleet = [v \in Vehicle |-> NoVehicleRow]
  /\ offered = [d \in Driver |-> 0]
  /\ riding = [d \in Driver |-> 0]
  /\ call = [d \in Driver |-> Idle]
  /\ sweep = {}
  /\ by = [d \in Driver |-> "app"]
  /\ adrift = [d \in Driver |-> "no"]
  /\ changes = 0

----------------------------------------------------------------------------
(* Rules *)

Chosen(c, old) == IF c = "keep" THEN old ELSE c = "yes"

Patched(f, p) ==
  Is(Chosen(p.online, f.online), Chosen(p.available, f.available),
     IF p.reason = "keep" THEN f.reason ELSE p.reason)

\* findPrimaryInServiceByDriver: by user only, among vehicles not deleted.
InServiceOf(d) == {v \in Vehicle : fleet[v].owner = d /\ fleet[v].inService}

VehicleFits(d, v) ==
  /\ fleet[v].owner # NoDriver
  /\ fleet[v].inService
  /\ \/ fleet[v].owner = d
     \/ profile[d] # "none" /\ fleet[v].profileOf = d

\* The vehicle the check looks at: the one given, else any in service of his.
Checked(d, v) == IF v # NoVehicle THEN {v} ELSE InServiceOf(d)

WalletActive(d) == wallet[d] = "active"
Fit(d) == user[d] = "active" /\ profile[d] = "fit" /\ WalletActive(d)

CheckOperationalEligibility(d, v) ==
  Fit(d) /\ \E w \in Checked(d, v) : VehicleFits(d, w)

\* The rules of updateStatusByDriverId over the row read.
Normalised(p, f, onTrip) ==
  LET off == p.online = "no"
      ready == p.online = "yes" /\ p.available = "yes"
      idle == /\ Chosen(p.online, f.online)
              /\ ~Chosen(p.available, f.available)
              /\ ~onTrip
              /\ p.reason = "keep"
  IN Ask(p.online,
         IF off THEN "no" ELSE p.available,
         CASE off -> "OFFLINE"
           [] ready -> "NONE"
           [] idle -> "UNAVAILABLE"
           [] OTHER -> p.reason)

\* What checkOperationalEligibility makes of a driver who is online.
Judged(ok) == IF ok THEN Is(TRUE, TRUE, "NONE") ELSE Is(TRUE, FALSE, "UNAVAILABLE")

Matchable(d) ==
  /\ live[d]
  /\ flags[d] = Is(TRUE, TRUE, "NONE")
  /\ ~trip[d]

\* findEligibleDrivers; the profile is not looked at.  Where a driver is, and that
\* his position is known, is left out.
FindEligible(d) ==
  /\ Matchable(d)
  /\ user[d] = "active"
  /\ age[d] = 0
  /\ WalletActive(d)
  /\ vehicle[d] # NoVehicle
  /\ fleet[vehicle[d]].owner # NoDriver
  /\ fleet[vehicle[d]].inService

\* Slip: rows that were never seen are forgotten.
SilentSeen(d) == live[d] /\ age[d] \in 1 .. MaxAge

\* The sweeper's WHERE: its OR is not in parentheses, so what is long silent
\* matches whether it is online or not.
Silent(d) ==
  /\ live[d]
  /\ \/ flags[d].online /\ age[d] = Never
     \/ age[d] \in 1 .. MaxAge

\* ORDER BY last_presence_timestamp ASC (nulls last) LIMIT batch.
Older(d, e) == IF age[d] = Never THEN FALSE ELSE age[e] = Never \/ age[d] > age[e]

Batches ==
  LET S == {d \in Driver : Silent(d)}
  IN {B \in SUBSET S :
        /\ Cardinality(B) = (IF Cardinality(S) < BatchSize THEN Cardinality(S) ELSE BatchSize)
        /\ \A d \in S \ B, e \in B : ~Older(d, e)}

----------------------------------------------------------------------------
(* Writes of the row *)

\* Bound: there is room for one more offer or change.
Room(d) == offered[d] + riding[d] + changes < MaxRides

\* Counts what MaxChanges bounds.
Changing ==
  /\ changes < MaxChanges
  /\ \A d \in Driver : Room(d)
  /\ changes' = changes + 1

\* ensureForDriver: an OFFLINE row when there is none; a deleted one stays deleted.
Ensured(d) == live' = [live EXCEPT ![d] = TRUE]

\* updatePartial by id: only the columns of the patch.
SetFlags(d, f, who) ==
  /\ flags' = [flags EXCEPT ![d] = f]
  /\ by' = [by EXCEPT ![d] = who]

\* The trip pointer as a client or an administrator sends it.
SetPointer(d, t) ==
  /\ trip' = [trip EXCEPT ![d] = t]
  /\ adrift' = [adrift EXCEPT ![d] = IF t = (riding[d] > 0) THEN "no" ELSE "sent"]

Seen(d) == age' = [age EXCEPT ![d] = 0]

OptVehicle == Vehicle \cup {NoVehicle}

SaveVehicle(v, r) == fleet' = [fleet EXCEPT ![v] = r]
SaveProfile(d, p) == profile' = [profile EXCEPT ![d] = p]

\* create, createWithinTx: the final flags of a request that wants the driver
\* online or not, that refuses availability or not, and that names a trip or not.
CreatedFlags(on, refuses, t, ok) ==
  IF t THEN Is(on, FALSE, "ON_TRIP")
  ELSE IF ~on THEN Offline
  ELSE IF ok /\ ~refuses THEN Is(TRUE, TRUE, "NONE")
  ELSE Is(TRUE, FALSE, "UNAVAILABLE")

\* The vehicle of the row after it: the request's, else one the check resolved.
CreatedVehicle(d, on, t, v) ==
  IF v \in Vehicle THEN {v}
  ELSE IF on /\ ~t /\ CheckOperationalEligibility(d, NoVehicle)
       THEN {w \in InServiceOf(d) : VehicleFits(d, w)}
  ELSE IF v = NoVehicle THEN {NoVehicle} ELSE {vehicle[d]}

\* POST /driver-availability, by an administrator for a user who drives.  A
\* request that names no trip leaves the pointer alone but decides as if it were
\* not set.
Create(d) ==
  /\ user[d] # "gone"
  /\ \E on \in BOOLEAN, t \in Choice, v \in OptVehicle \cup {"keep"} :
     \E refuses \in {FALSE, on} :
       LET given == t = "yes"
           ok == CheckOperationalEligibility(d, IF v = "keep" THEN NoVehicle ELSE v)
       IN /\ Ensured(d)
          /\ SetFlags(d, CreatedFlags(on, refuses, given, ok),
                      IF t = "keep" /\ trip[d] THEN "stale" ELSE "app")
          /\ IF t = "keep" THEN UNCHANGED <<trip, adrift, changes>>
             ELSE SetPointer(d, given) /\ Changing
          /\ \E w \in CreatedVehicle(d, on, given, v) :
               vehicle' = [vehicle EXCEPT ![d] = w]
          /\ IF on THEN Seen(d) ELSE UNCHANGED age
  /\ UNCHANGED <<fitVars, rideVars, call, sweep>>

\* Onboarding: profile, wallet, perhaps a vehicle, and the row, in one
\* transaction that fails for a driver who already has a wallet.
OnboardWallet(d) ==
  /\ wallet[d] = "none"
  /\ wallet' = [wallet EXCEPT ![d] = "active"]

OnboardVehicle(d, v) ==
  IF v = NoVehicle THEN UNCHANGED fleet
  ELSE /\ fleet[v].owner = NoDriver
       /\ SaveVehicle(v, [owner |-> d, profileOf |-> d, inService |-> TRUE])

\* createWithinTx, asked for a driver who is offline and on no trip.
OnboardRow(d, v) ==
  /\ Ensured(d)
  /\ SetFlags(d, Offline, "app")
  /\ SetPointer(d, FALSE)
  /\ vehicle' = [vehicle EXCEPT ![d] = v]

Onboard(d) ==
  /\ user[d] # "gone"
  /\ profile[d] = "none"
  /\ \E fit \in {"unfit", "fit"} : SaveProfile(d, fit)
  /\ OnboardWallet(d)
  /\ \E v \in OptVehicle : OnboardVehicle(d, v) /\ OnboardRow(d, v)
  /\ UNCHANGED <<age, user, rideVars, call, sweep, changes>>

\* POST /driver-availability/upsert: what it is sent, without any rule.
Upsert(d) ==
  /\ Changing
  /\ \E on, av, t \in Choice, v \in OptVehicle \cup {"keep"} :
       /\ Ensured(d)
       /\ SetFlags(d, Patched(flags[d], Ask(on, av, "keep")), "client")
       /\ IF t = "keep" THEN UNCHANGED <<trip, adrift>> ELSE SetPointer(d, t = "yes")
       /\ vehicle' = IF v = "keep" THEN vehicle ELSE [vehicle EXCEPT ![d] = v]
       /\ IF on = "yes" THEN Seen(d) ELSE UNCHANGED age
  /\ UNCHANGED <<fitVars, rideVars, call, sweep>>

\* PATCH /driver-availability/:id/trip.
SetOrClearTrip(d) ==
  /\ Changing
  /\ live[d]
  /\ \/ /\ SetPointer(d, TRUE)
        /\ SetFlags(d, Is(flags[d].online, FALSE, "ON_TRIP"), "client")
     \/ /\ SetPointer(d, FALSE)
        /\ SetFlags(d, Is(flags[d].online, flags[d].available,
                          IF flags[d].reason = "ON_TRIP" THEN "NONE" ELSE flags[d].reason),
                    "client")
  /\ UNCHANGED <<live, vehicle, age, fitVars, rideVars, call, sweep>>

\* A ping: presence always; the position it may bring is left out.
IngestLocationPing(d) ==
  /\ Ensured(d)
  /\ Seen(d)
  /\ UNCHANGED <<flags, trip, vehicle, fitVars, rideVars, call, sweep, auditVars, changes>>

\* POST /driver-availability/:id/location, of a row that exists.
UpdateLocation(d) ==
  /\ live[d]
  /\ Seen(d)
  /\ UNCHANGED <<live, flags, trip, vehicle, fitVars, rideVars, call, sweep, auditVars, changes>>

\* Slip: the deleted row's presence and flags are kept for the next one.
SoftDeleteKeeping(d) ==
  /\ live[d]
  /\ live' = [live EXCEPT ![d] = FALSE]
  /\ call' = [call EXCEPT ![d] = IF call[d].at = "checked" THEN Idle ELSE call[d]]
  /\ UNCHANGED <<flags, trip, vehicle, age, sweep, fitVars, rideVars, auditVars, changes>>

\* DELETE /driver-availability/:id.  What was about to be written to this row
\* by id goes to a row nobody reads again.
SoftDelete(d) ==
  /\ live[d]
  /\ live' = [live EXCEPT ![d] = FALSE]
  /\ flags' = [flags EXCEPT ![d] = Offline]
  /\ by' = [by EXCEPT ![d] = "app"]
  /\ SetPointer(d, FALSE)
  /\ vehicle' = [vehicle EXCEPT ![d] = NoVehicle]
  /\ age' = [age EXCEPT ![d] = Never]
  /\ call' = [call EXCEPT ![d] = IF call[d].at = "checked" THEN Idle ELSE call[d]]
  /\ sweep' = sweep \ {d}
  /\ IF d \in Departed THEN Changing ELSE UNCHANGED changes
  /\ UNCHANGED <<fitVars, rideVars>>

----------------------------------------------------------------------------
(* Login, logout and the driver's own status requests *)

\* The UserLoggedIn listener: ensure and read the row.
LoginRead(d) ==
  /\ user[d] = "active"
  /\ call[d].at = "idle"
  /\ Ensured(d)
  /\ call' = [call EXCEPT ![d] =
       [at |-> "read", trip |-> trip[d], vehicle |-> vehicle[d],
        patch |-> Ask("keep", "keep", "keep"), from |-> "login"]]
  /\ UNCHANGED <<flags, trip, vehicle, age, fitVars, rideVars, sweep, auditVars, changes>>

\* Slip: a driver who is logged in is available.
LoginPatchUnchecked(onTrip, ok) ==
  IF onTrip THEN Ask("yes", "no", "ON_TRIP") ELSE Ask("yes", "yes", "NONE")

LoginPatch(onTrip, ok) ==
  IF onTrip THEN Ask("yes", "no", "ON_TRIP")
  ELSE IF ok THEN Ask("yes", "yes", "NONE")
  ELSE Ask("yes", "no", "UNAVAILABLE")

\* markOnlineFromLogin: the eligibility is looked up unless he was on a trip.
LoginDecide(d) ==
  /\ call[d].at = "read"
  /\ LET ok == CheckOperationalEligibility(d, call[d].vehicle)
     IN call' = [call EXCEPT ![d] =
          [at |-> "decided", trip |-> FALSE, vehicle |-> NoVehicle,
           patch |-> LoginPatch(call[d].trip, ok), from |-> "login"]]
  /\ UNCHANGED <<rowVars, fitVars, rideVars, sweep, auditVars, changes>>

\* updateStatusByDriverId reads the row: 404 without one, 400 when a driver on
\* a trip is to be available.
Checking(d, p, from) ==
  call' = [call EXCEPT ![d] =
    IF ~live[d] \/ (trip[d] /\ p.available = "yes") THEN Idle
    ELSE [at |-> "checked", trip |-> FALSE, vehicle |-> NoVehicle,
          patch |-> Normalised(p, flags[d], trip[d]), from |-> from]]

\* The last step of markOnlineFromLogin ...
LoginCheck(d) ==
  /\ call[d].at = "decided"
  /\ Checking(d, call[d].patch, "login")
  /\ UNCHANGED <<rowVars, fitVars, rideVars, sweep, auditVars, changes>>

\* ... and PATCH /driver-availability/status-by-driver and :id/status, or the
\* gateway's status message, with any of the fields.
StatusRequest(d) ==
  /\ call[d].at = "idle"
  /\ \E on, av \in Choice, why \in ClientReasons \cup {"keep"} :
       Checking(d, Ask(on, av, why), "client")
  /\ UNCHANGED <<rowVars, fitVars, rideVars, sweep, auditVars, changes>>

\* A login decided on a pointer it had read; the rider may be on a trip by now,
\* or no longer.
Writer(d) ==
  IF call[d].from # "login" THEN "client"
  ELSE IF trip[d] = (call[d].patch.reason = "ON_TRIP") THEN "app"
  ELSE "stale"

\* Slip: the row is saved as the request saw it, off any trip.
StatusWriteWhole(d) ==
  /\ call[d].at = "checked"
  /\ SetFlags(d, Patched(flags[d], call[d].patch), Writer(d))
  /\ trip' = [trip EXCEPT ![d] = FALSE]
  /\ IF call[d].from = "login" THEN Seen(d) ELSE UNCHANGED age
  /\ call' = [call EXCEPT ![d] = Idle]
  /\ UNCHANGED <<live, vehicle, fitVars, rideVars, sweep, adrift, changes>>

\* ... and updates it by id.
StatusWrite(d) ==
  /\ call[d].at = "checked"
  /\ SetFlags(d, Patched(flags[d], call[d].patch), Writer(d))
  /\ IF call[d].from = "login" THEN Seen(d) ELSE UNCHANGED age
  /\ call' = [call EXCEPT ![d] = Idle]
  /\ UNCHANGED <<live, trip, vehicle, fitVars, rideVars, sweep, adrift, changes>>

\* The SessionRevoked listener of a logout.  Its patch does not depend on the
\* row, so reading and writing are one step.
Logout(d) ==
  /\ live[d]
  /\ SetFlags(d, Patched(flags[d], Normalised(Ask("no", "no", "keep"), flags[d], trip[d])), "app")
  /\ UNCHANGED <<live, trip, vehicle, age, fitVars, rideVars, call, sweep, adrift, changes>>

----------------------------------------------------------------------------
(* Trips *)

\* Dispatch offers a trip (TripDispatch models it); it may offer another before
\* the first is answered ...
Offer(d) ==
  /\ FindEligible(d)
  /\ Room(d)
  /\ offered' = [offered EXCEPT ![d] = @ + 1]
  /\ UNCHANGED <<rowVars, fitVars, riding, call, sweep, auditVars, changes>>

\* ... which may lapse ...
OfferLapses(d) ==
  /\ offered[d] > 0
  /\ offered' = [offered EXCEPT ![d] = @ - 1]
  /\ UNCHANGED <<rowVars, fitVars, riding, call, sweep, auditVars, changes>>

\* ... or be accepted, whatever has become of the driver's flags and pointer, as
\* long as he has a row: of two offers he may accept both.
TripStarts(d) ==
  /\ offered[d] > 0
  /\ live[d]
  /\ offered' = [offered EXCEPT ![d] = @ - 1]
  /\ riding' = [riding EXCEPT ![d] = @ + 1]
  /\ trip' = [trip EXCEPT ![d] = TRUE]
  /\ adrift' = [adrift EXCEPT ![d] = "no"]
  /\ SetFlags(d, Is(flags[d].online, FALSE, "ON_TRIP"), "app")
  /\ UNCHANGED <<live, vehicle, age, fitVars, call, sweep, changes>>

\* Slip: a driver who was set offline during his ride is judged like the others.
EndedFlagsOffline(d, v) ==
  LET f == Judged(CheckOperationalEligibility(d, v))
  IN Is(flags[d].online, f.available, f.reason)

\* onTripEnded judges the driver with the vehicle of the trip.
EndedFlags(d, v) ==
  IF flags[d].online THEN Judged(CheckOperationalEligibility(d, v)) ELSE Offline

\* completeTrip: under the lock of the row, whose pointer is cleared whichever
\* trip it names; a driver without a row just ends his ride.
TripEnds(d) ==
  /\ riding[d] > 0
  /\ riding' = [riding EXCEPT ![d] = @ - 1]
  /\ IF live[d]
     THEN /\ \E v \in OptVehicle : SetFlags(d, EndedFlags(d, v), "app")
          /\ trip' = [trip EXCEPT ![d] = FALSE]
          /\ Seen(d)
     ELSE UNCHANGED <<flags, by, trip, age>>
  /\ adrift' = [adrift EXCEPT ![d] = IF riding[d] = 1 THEN "no" ELSE "ended"]
  /\ UNCHANGED <<live, vehicle, fitVars, offered, call, sweep, changes>>

----------------------------------------------------------------------------
(* Presence *)

\* The clock: timestamps grow old; the order of the rows is kept.
PresenceElapses(d) ==
  /\ live[d]
  /\ age[d] < MaxAge
  /\ age' = [age EXCEPT ![d] = age[d] + 1]
  /\ UNCHANGED <<live, flags, trip, vehicle, fitVars, rideVars, call, sweep, auditVars, changes>>

\* sweepPresence: the ids of a batch ...
SweepSelect ==
  /\ sweep = {}
  /\ \E B \in Batches : B # {} /\ sweep' = B
  /\ UNCHANGED <<rowVars, fitVars, rideVars, call, auditVars, changes>>

\* ... which are set OFFLINE by id, whatever has happened to them since.
SweepWrite ==
  /\ sweep # {}
  /\ flags' = [d \in Driver |-> IF d \in sweep THEN Offline ELSE flags[d]]
  /\ by' = [d \in Driver |-> IF d \in sweep THEN "app" ELSE by[d]]
  /\ sweep' = {}
  /\ UNCHANGED <<live, trip, vehicle, age, fitVars, rideVars, call, adrift, changes>>

----------------------------------------------------------------------------
(* Users, profiles, wallets and vehicles; none of them visits the row *)

\* DELETE /users/:id, a soft delete.
RemoveUser(d) ==
  /\ Changing
  /\ user[d] # "gone"
  /\ user' = [user EXCEPT ![d] = "gone"]
  /\ UNCHANGED <<rowVars, profile, wallet, fleet, rideVars, call, sweep, auditVars>>

\* DriverProfileService.update: approval is taken with a status only; a request
\* that leaves the profile as it is is a stuttering step.
UpdateProfile(d) ==
  /\ Changing
  /\ profile[d] # "none"
  /\ SaveProfile(d, IF profile[d] = "fit" THEN "unfit" ELSE "fit")
  /\ UNCHANGED <<rowVars, user, wallet, fleet, rideVars, call, sweep, auditVars>>

RemoveProfile(d) ==
  /\ Changing
  /\ profile[d] # "none"
  /\ SaveProfile(d, "none")
  /\ UNCHANGED <<rowVars, user, wallet, fleet, rideVars, call, sweep, auditVars>>

\* Blocks and unblocks (CashSettlement models them).
BlockOrUnblock(d) ==
  /\ Changing
  /\ wallet[d] # "none"
  /\ wallet' = [wallet EXCEPT ![d] = IF wallet[d] = "active" THEN "blocked" ELSE "active"]
  /\ UNCHANGED <<rowVars, user, profile, fleet, rideVars, call, sweep, auditVars>>

\* VehiclesService.create.
CreateVehicle(v) ==
  /\ Changing
  /\ fleet[v].owner = NoDriver
  /\ \E d \in Driver, p \in Driver, s \in BOOLEAN :
       /\ user[d] # "gone"
       /\ profile[p] # "none"
       /\ SaveVehicle(v, [owner |-> d, profileOf |-> p, inService |-> s])
  /\ UNCHANGED <<rowVars, user, profile, wallet, rideVars, call, sweep, auditVars>>

\* VehiclesService.update: the status and the profile, never the driver.
UpdateVehicle(v) ==
  /\ Changing
  /\ fleet[v].owner # NoDriver
  /\ \E p \in {fleet[v].profileOf} \cup {d \in Driver : profile[d] # "none"}, s \in BOOLEAN :
       /\ <<p, s>> # <<fleet[v].profileOf, fleet[v].inService>>
       /\ SaveVehicle(v, [owner |-> fleet[v].owner, profileOf |-> p, inService |-> s])
  /\ UNCHANGED <<rowVars, user, profile, wallet, rideVars, call, sweep, auditVars>>

\* VehiclesService.remove: current_vehicle_id goes on naming it.
RemoveVehicle(v) ==
  /\ Changing
  /\ fleet[v].owner # NoDriver
  /\ SaveVehicle(v, NoVehicleRow)
  /\ UNCHANGED <<rowVars, user, profile, wallet, rideVars, call, sweep, auditVars>>

----------------------------------------------------------------------------

Next ==
  \/ \E d \in Driver \ Departed :
       \/ Create(d) \/ Onboard(d) \/ Upsert(d) \/ SetOrClearTrip(d)
       \/ IngestLocationPing(d) \/ UpdateLocation(d) \/ SoftDelete(d)
       \/ LoginRead(d) \/ LoginDecide(d) \/ StatusRequest(d)
       \/ LoginCheck(d) \/ StatusWrite(d) \/ Logout(d)
       \/ Offer(d) \/ OfferLapses(d) \/ TripStarts(d) \/ TripEnds(d)
       \/ PresenceElapses(d)
       \/ RemoveUser(d) \/ UpdateProfile(d) \/ RemoveProfile(d) \/ BlockOrUnblock(d)
  \/ \E d \in Departed : SoftDelete(d)
  \/ \E v \in Vehicle : CreateVehicle(v) \/ UpdateVehicle(v) \/ RemoveVehicle(v)
  \/ SweepSelect
  \/ SweepWrite

Spec == Init /\ [][Next]_vars

\* The cron job runs every 30 seconds and its update does not fail for ever.
\* Nothing else has to happen.
LiveSpec == Spec /\ WF_vars(SweepSelect) /\ WF_vars(SweepWrite)

----------------------------------------------------------------------------
(* Properties *)

\* What the service decides (login, logout, a trip's start or end, creation, the
\* sweeper) leaves flags that agree with each other, however these decisions
\* overtake each other: available only online and without a reason, and off a
\* trip OFFLINE exactly when not online.  They agree with current_trip_id as well,
\* available only off a trip, online on a trip with reason ON_TRIP and with that
\* reason only on one, unless the decision was taken over another pointer: a
\* login that a trip's start or end overtook, and a creation that names no trip,
\* may leave a driver available on a trip.
FlagsAgree ==
  \A d \in Driver :
    /\ by[d] # "client" =>
         /\ flags[d].available => flags[d].online /\ flags[d].reason = "NONE"
         /\ ~trip[d] => (flags[d].online <=> flags[d].reason # "OFFLINE")
    /\ by[d] = "app" =>
         /\ flags[d].available => ~trip[d]
         /\ flags[d].online /\ trip[d] => flags[d].reason = "ON_TRIP"
         /\ flags[d].reason = "ON_TRIP" => trip[d]

\* current_trip_id is set exactly while the driver has a trip under way, but for
\* two cases: a request sent it or deleted the row, and one of the rides of a
\* driver who accepted two offers has ended, which leaves it empty while the other
\* is under way.  No status change, ping, login or sweep that read the row earlier
\* puts it out of step.
PointerMatchesRide ==
  \A d \in Driver :
    /\ adrift[d] = "no" => (trip[d] <=> riding[d] > 0)
    /\ adrift[d] = "ended" => ~trip[d] /\ riding[d] > 0

\* As long as nothing was changed behind the row's back, a driver the service
\* has made available is one who may drive: active, approved, with an active
\* wallet and a vehicle in service.
AvailableWasFit ==
  \A d \in Driver :
    by[d] # "client" /\ flags[d].available /\ changes = 0 =>
      Fit(d) /\ \E v \in Vehicle : VehicleFits(d, v)

\* More rows match the sweeper's WHERE than it takes in one batch.
Outnumbered == Cardinality({d \in Driver : Silent(d)}) > BatchSize

\* A driver who shows as online and has gone silent is set offline by the
\* sweeper, unless he is heard of again or his row is deleted, provided that in
\* the end the rows it selects fit in its batch.  Those of drivers who left are
\* among them for ever, OFFLINE as they are, and are older: with a batch full of
\* them he is never reached.
SilentDriverGoesOffline ==
  \A d \in Driver \ Departed :
    <>[]~Outnumbered =>
      ((live[d] /\ flags[d].online /\ age[d] # 0)
         ~> (~flags[d].online \/ age[d] = 0))

=============================================================================
