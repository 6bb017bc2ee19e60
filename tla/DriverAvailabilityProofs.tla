---------------------- MODULE DriverAvailabilityProofs ----------------------
(***************************************************************************)
(* Proofs about DriverAvailability, for any fleet of drivers and vehicles  *)
(* and any batch of the sweeper.                                           *)
(***************************************************************************)
EXTENDS DriverAvailability, TLAPS

\* TypeOK but for what it says of deleted rows.
Types ==
  /\ live \in [Driver -> BOOLEAN]
  /\ flags \in [Driver -> Flags]
  /\ trip \in [Driver -> BOOLEAN]
  /\ vehicle \in [Driver -> Vehicle \cup {NoVehicle}]
  /\ age \in [Driver -> 0 .. Never]
  /\ user \in [Driver -> {"active", "banned", "gone"}]
  /\ profile \in [Driver -> ProfileRow]
  /\ wallet \in [Driver -> {"none", "active", "blocked"}]
  /\ fleet \in [Vehicle -> VehicleRow]
  /\ offered \in [Driver -> 0 .. MaxRides]
  /\ riding \in [Driver -> 0 .. MaxRides]
  /\ \A d \in Driver : offered[d] + riding[d] <= MaxRides
  /\ call \in [Driver -> Call]
  /\ sweep \in SUBSET Driver
  /\ by \in [Driver -> {"app", "stale", "client"}]
  /\ adrift \in [Driver -> {"no", "sent", "ended"}]
  /\ changes \in 0 .. MaxChanges

Agree(f, onTrip) ==
  /\ f.available => f.online /\ f.reason = "NONE"
  /\ ~onTrip => (f.online <=> f.reason # "OFFLINE")

FitNow(d) == Fit(d) /\ \E v \in Vehicle : VehicleFits(d, v)

\* What a login may be about to write: all three columns, so that nothing of the
\* row it overtakes is left.
LoginPatches ==
  {Ask("yes", "no", "ON_TRIP"), Ask("yes", "yes", "NONE"), Ask("yes", "no", "UNAVAILABLE")}

DeletedOK(d) == ~live[d] => Blank(d)

CallOK(d) ==
  /\ call[d].at = "checked" => live[d]
  /\ call[d].at \in {"decided", "checked"} /\ call[d].from = "login" =>
       /\ call[d].patch \in LoginPatches
       /\ call[d].patch.available = "yes" /\ changes = 0 => FitNow(d)
  /\ call[d].at = "decided" => call[d].from = "login"

\* ... and with the pointer.
OnPointer(f, onTrip) ==
  /\ f.available => ~onTrip
  /\ f.online /\ onTrip => f.reason = "ON_TRIP"
  /\ f.reason = "ON_TRIP" => onTrip

FlagsOK(d) ==
  /\ by[d] # "client" =>
       /\ Agree(flags[d], trip[d])
       /\ flags[d].available /\ changes = 0 => FitNow(d)
  /\ by[d] = "app" => OnPointer(flags[d], trip[d])

PointerOK(d) ==
  /\ adrift[d] = "no" => (trip[d] <=> riding[d] > 0)
  /\ adrift[d] = "ended" => ~trip[d] /\ riding[d] > 0

DriverOK(d) == DeletedOK(d) /\ CallOK(d) /\ FlagsOK(d) /\ PointerOK(d)

IInv ==
  /\ Types
  /\ \A d \in Driver : DriverOK(d)
  /\ \A d \in sweep : live[d]

----------------------------------------------------------------------------
(* Flags, patches and fitness *)

LEMMA IsFacts ==
  ASSUME NEW on \in BOOLEAN, NEW av \in BOOLEAN, NEW why \in AvailabilityReason
  PROVE  /\ Is(on, av, why) \in Flags
         /\ Is(on, av, why).online = on /\ Is(on, av, why).available = av
         /\ Is(on, av, why).reason = why
BY DEF Is, Flags

LEMMA AskFacts ==
  ASSUME NEW on \in Choice, NEW av \in Choice, NEW why \in AvailabilityReason \cup {"keep"}
  PROVE  /\ Ask(on, av, why) \in Patch
         /\ Ask(on, av, why).online = on /\ Ask(on, av, why).available = av
         /\ Ask(on, av, why).reason = why
BY DEF Ask, Patch

LEMMA FlagFacts ==
  ASSUME NEW f \in Flags
  PROVE  /\ f.online \in BOOLEAN /\ f.available \in BOOLEAN /\ f.reason \in AvailabilityReason
         /\ f = Is(f.online, f.available, f.reason)
BY DEF Flags, Is

LEMMA OfflineFacts ==
  /\ Offline \in Flags /\ ~Offline.available /\ ~Offline.online /\ Offline.reason = "OFFLINE"
  /\ \A t : Agree(Offline, t) /\ OnPointer(Offline, t)
BY DEF Offline, Is, Flags, AvailabilityReason, Agree, OnPointer

LEMMA PatchedFacts ==
  ASSUME NEW f \in Flags, NEW p \in Patch
  PROVE  Patched(f, p) \in Flags
<1>1. Chosen(p.online, f.online) \in BOOLEAN /\ Chosen(p.available, f.available) \in BOOLEAN
  BY FlagFacts DEF Chosen, Patch, Choice
<1>2. (IF p.reason = "keep" THEN f.reason ELSE p.reason) \in AvailabilityReason
  BY FlagFacts DEF Patch
<1> QED BY <1>1, <1>2, IsFacts DEF Patched

LEMMA NormalisedFacts ==
  ASSUME NEW f \in Flags, NEW p \in Patch, NEW t
  PROVE  Normalised(p, f, t) \in Patch
<1>1. /\ p.online \in Choice /\ p.available \in Choice
      /\ p.reason \in AvailabilityReason \cup {"keep"}
  BY DEF Patch
<1>2. (IF p.online = "no" THEN "no" ELSE p.available) \in Choice
  BY <1>1 DEF Choice
<1> QED BY <1>1, <1>2, AskFacts DEF Normalised, AvailabilityReason

\* A login's patch is the same whatever row it is checked against, and replaces the flags.
LEMMA LoginPatchFacts ==
  ASSUME NEW p \in LoginPatches, NEW f \in Flags, NEW t \in BOOLEAN
  PROVE  /\ p \in Patch
         /\ Normalised(p, f, t) = p
         /\ Agree(Patched(f, p), t)
         /\ Patched(f, p).available => p.available = "yes"
         /\ (t = (p.reason = "ON_TRIP")) => OnPointer(Patched(f, p), t)
<1>1. CASE p = Ask("yes", "no", "ON_TRIP")
  <2>1. Patched(f, p) = Is(TRUE, FALSE, "ON_TRIP")
    BY <1>1 DEF Patched, Chosen, Ask, Is
  <2> QED BY <1>1, <2>1 DEF Normalised, Chosen, Ask, Patch, Choice, AvailabilityReason, Agree, OnPointer, Is
<1>2. CASE p = Ask("yes", "yes", "NONE")
  <2>1. Patched(f, p) = Is(TRUE, TRUE, "NONE")
    BY <1>2 DEF Patched, Chosen, Ask, Is
  <2> QED BY <1>2, <2>1 DEF Normalised, Chosen, Ask, Patch, Choice, AvailabilityReason, Agree, OnPointer, Is
<1>3. CASE p = Ask("yes", "no", "UNAVAILABLE")
  <2>1. Patched(f, p) = Is(TRUE, FALSE, "UNAVAILABLE")
    BY <1>3 DEF Patched, Chosen, Ask, Is
  <2> QED BY <1>3, <2>1 DEF Normalised, Chosen, Ask, Patch, Choice, AvailabilityReason, Agree, OnPointer, Is
<1> QED BY <1>1, <1>2, <1>3 DEF LoginPatches

LEMMA EligibleIsFit ==
  ASSUME Types, NEW d \in Driver, NEW v \in OptVehicle, CheckOperationalEligibility(d, v)
  PROVE  FitNow(d)
BY DEF CheckOperationalEligibility, Checked, InServiceOf, FitNow, OptVehicle

LEMMA JudgedFacts ==
  ASSUME NEW ok \in BOOLEAN
  PROVE  /\ Judged(ok) \in Flags /\ (Judged(ok).available => ok)
         /\ (\A t : Agree(Judged(ok), t)) /\ OnPointer(Judged(ok), FALSE)
BY DEF Judged, Is, Flags, AvailabilityReason, Agree, OnPointer

LEMMA FitStays ==
  ASSUME UNCHANGED fitVars
  PROVE  \A d : FitNow(d)' <=> FitNow(d)
BY DEF FitNow, Fit, WalletActive, VehicleFits, fitVars

----------------------------------------------------------------------------
(* What a step has to show *)

\* Nothing of another driver changes.
Same(e) ==
  /\ live'[e] = live[e] /\ flags'[e] = flags[e] /\ trip'[e] = trip[e]
  /\ vehicle'[e] = vehicle[e] /\ age'[e] = age[e]
  /\ riding'[e] = riding[e] /\ call'[e] = call[e]
  /\ by'[e] = by[e] /\ adrift'[e] = adrift[e]

\* As long as nothing is changed behind the rows' back, a driver who is fit stays so.
StaysFit(e) == changes' = 0 => changes = 0 /\ (FitNow(e) => FitNow(e)')

LEMMA SameKeeps ==
  ASSUME NEW e \in Driver, DriverOK(e), Same(e), StaysFit(e)
  PROVE  DriverOK(e)'
<1>1. DeletedOK(e)'
  BY DEF DriverOK, DeletedOK, Blank, Same
<1>2. CallOK(e)'
  BY DEF DriverOK, CallOK, Same, StaysFit
<1>3. FlagsOK(e)'
  BY DEF DriverOK, FlagsOK, Same, StaysFit
<1>4. PointerOK(e)'
  BY DEF DriverOK, PointerOK, Same
<1> QED BY <1>1, <1>2, <1>3, <1>4 DEF DriverOK

\* A step that only concerns the row of one driver.
LEMMA RowStep ==
  ASSUME IInv, NEW d \in Driver, Types', \A e \in Driver : StaysFit(e),
         \A e \in Driver : e # d => Same(e),
         DriverOK(d)',
         sweep' = sweep \/ sweep' = sweep \ {d},
         d \in sweep' /\ live[d] => live'[d]
  PROVE  IInv'
<1>1. \A e \in Driver : DriverOK(e)'
  BY SameKeeps DEF IInv
<1>2. \A e \in sweep' : live'[e]
  BY DEF IInv, Types, Same
<1> QED BY <1>1, <1>2 DEF IInv

LEMMA StillFit ==
  ASSUME UNCHANGED fitVars, changes' = 0 => changes = 0
  PROVE  \A e : StaysFit(e)
BY FitStays DEF StaysFit

LEMMA ChangingFacts ==
  ASSUME Types, Changing
  PROVE  changes' \in 0 .. MaxChanges /\ changes' # 0
BY AvailabilityAssumption DEF Types, Changing

\* The columns, one by one.
LEMMA EnsuredFacts ==
  ASSUME Types, NEW d \in Driver, Ensured(d)
  PROVE  /\ live' \in [Driver -> BOOLEAN] /\ live'[d]
         /\ \A e \in Driver : e # d => live'[e] = live[e]
BY DEF Types, Ensured

LEMMA FlagsSet ==
  ASSUME Types, NEW d \in Driver, NEW f \in Flags, NEW who \in {"app", "stale", "client"}, SetFlags(d, f, who)
  PROVE  /\ flags' \in [Driver -> Flags] /\ by' \in [Driver -> {"app", "stale", "client"}]
         /\ flags'[d] = f /\ by'[d] = who
         /\ \A e \in Driver : e # d => flags'[e] = flags[e] /\ by'[e] = by[e]
BY DEF Types, SetFlags

LEMMA PointerSet ==
  ASSUME Types, NEW d \in Driver, NEW t \in BOOLEAN, SetPointer(d, t)
  PROVE  /\ trip' \in [Driver -> BOOLEAN] /\ adrift' \in [Driver -> {"no", "sent", "ended"}]
         /\ trip'[d] = t
         /\ adrift'[d] = IF t = (riding[d] > 0) THEN "no" ELSE "sent"
         /\ \A e \in Driver : e # d => trip'[e] = trip[e] /\ adrift'[e] = adrift[e]
BY DEF Types, SetPointer

LEMMA SeenFacts ==
  ASSUME Types, NEW d \in Driver, Seen(d) \/ UNCHANGED age
  PROVE  /\ age' \in [Driver -> 0 .. Never]
         /\ \A e \in Driver : e # d => age'[e] = age[e]
<1>1. 0 \in 0 .. Never
  BY AvailabilityAssumption DEF Never
<1> QED BY <1>1 DEF Types, Seen

\* The pointer of a row keeps its agreement with the ride where both stay.
LEMMA PointerSetOK ==
  ASSUME Types, NEW d \in Driver, NEW t \in BOOLEAN, SetPointer(d, t), UNCHANGED riding
  PROVE  PointerOK(d)'
<1>1. trip'[d] = t /\ adrift'[d] = IF t = (riding[d] > 0) THEN "no" ELSE "sent"
  BY PointerSet
<1> QED BY <1>1 DEF PointerOK

----------------------------------------------------------------------------
(* Requests about a row *)

LEMMA CreateKeeps ==
  ASSUME IInv, NEW d \in Driver, Create(d)
  PROVE  IInv'
<1>1. PICK on \in BOOLEAN, t \in Choice, v \in OptVehicle \cup {"keep"} :
      \E refuses \in {FALSE, on} :
        LET given == t = "yes"
            ok == CheckOperationalEligibility(d, IF v = "keep" THEN NoVehicle ELSE v)
        IN /\ Ensured(d)
           /\ SetFlags(d, CreatedFlags(on, refuses, given, ok),
                       IF t = "keep" /\ trip[d] THEN "stale" ELSE "app")
           /\ IF t = "keep" THEN UNCHANGED <<trip, adrift, changes>>
              ELSE SetPointer(d, given) /\ Changing
           /\ \E w \in CreatedVehicle(d, on, given, v) :
                vehicle' = [vehicle EXCEPT ![d] = w]
           /\ IF on THEN Seen(d) ELSE UNCHANGED age
  BY DEF Create
<1>b. PICK refuses \in BOOLEAN :
        LET given == t = "yes"
            ok == CheckOperationalEligibility(d, IF v = "keep" THEN NoVehicle ELSE v)
        IN /\ Ensured(d)
           /\ SetFlags(d, CreatedFlags(on, refuses, given, ok),
                       IF t = "keep" /\ trip[d] THEN "stale" ELSE "app")
           /\ IF t = "keep" THEN UNCHANGED <<trip, adrift, changes>>
              ELSE SetPointer(d, given) /\ Changing
           /\ \E w \in CreatedVehicle(d, on, given, v) :
                vehicle' = [vehicle EXCEPT ![d] = w]
           /\ IF on THEN Seen(d) ELSE UNCHANGED age
  BY <1>1
<1> DEFINE given == t = "yes"
           who == IF t = "keep" /\ trip[d] THEN "stale" ELSE "app"
           looked == IF v = "keep" THEN NoVehicle ELSE v
           ok == CheckOperationalEligibility(d, looked)
           f == CreatedFlags(on, refuses, given, ok)
<1>2. /\ Types /\ DriverOK(d) /\ UNCHANGED <<fitVars, rideVars, call, sweep>>
      /\ looked \in OptVehicle /\ given \in BOOLEAN /\ ok \in BOOLEAN
  BY DEF IInv, Create, OptVehicle, CheckOperationalEligibility, Fit, WalletActive
<1>3. ok => FitNow(d)
  BY <1>2, EligibleIsFit
<1> HIDE DEF ok
<1>4. /\ f \in Flags /\ (f.available => ok) /\ (~given => \A x : Agree(f, x))
      /\ OnPointer(f, given) /\ (given => ~f.available)
  BY <1>2, OfflineFacts DEF CreatedFlags, Is, Flags, AvailabilityReason, Agree, OnPointer
<1> HIDE DEF f
<1>w. who \in {"app", "stale", "client"} /\ who # "client"
  OBVIOUS
<1>5. /\ Ensured(d) /\ SetFlags(d, f, who) /\ (Seen(d) \/ UNCHANGED age)
      /\ IF t = "keep" THEN UNCHANGED <<trip, adrift, changes>>
         ELSE SetPointer(d, given) /\ Changing
  BY <1>b DEF f, ok
<1>6. /\ trip' \in [Driver -> BOOLEAN] /\ adrift' \in [Driver -> {"no", "sent", "ended"}]
      /\ changes' \in 0 .. MaxChanges /\ (changes' = 0 => changes = 0)
      /\ \A e \in Driver : e # d => trip'[e] = trip[e] /\ adrift'[e] = adrift[e]
      /\ trip'[d] = IF t = "keep" THEN trip[d] ELSE given
  BY <1>2, <1>5, PointerSet, ChangingFacts DEF Types
<1>7. /\ vehicle' \in [Driver -> OptVehicle]
      /\ \A e \in Driver : e # d => vehicle'[e] = vehicle[e]
  <2>1. PICK w \in CreatedVehicle(d, on, given, v) : vehicle' = [vehicle EXCEPT ![d] = w]
    BY <1>b
  <2>2. w \in OptVehicle
    BY <1>2, <2>1 DEF CreatedVehicle, InServiceOf, OptVehicle, Types
  <2> QED BY <1>2, <2>1, <2>2 DEF Types, OptVehicle
<1> HIDE DEF who
<1>8. Types'
  BY <1>2, <1>4, <1>5, <1>w, <1>6, <1>7, EnsuredFacts, FlagsSet, SeenFacts
  DEF Types, fitVars, rideVars, OptVehicle
<1>9. \A e \in Driver : e # d => Same(e)
  BY <1>2, <1>4, <1>5, <1>w, <1>6, <1>7, EnsuredFacts, FlagsSet, SeenFacts DEF Same, rideVars
<1>10. \A e \in Driver : StaysFit(e)
  BY <1>2, <1>6, StillFit
<1>11. DriverOK(d)'
  <2>1. live'[d] /\ flags'[d] = f /\ by'[d] = who /\ call'[d] = call[d]
    BY <1>2, <1>4, <1>5, <1>w, EnsuredFacts, FlagsSet
  <2>2. DeletedOK(d)' /\ CallOK(d)'
    BY <1>2, <1>10, <2>1 DEF DeletedOK, CallOK, DriverOK, StaysFit
  <2>3. FlagsOK(d)'
    <3>1. Agree(f, trip'[d])
      BY <1>4, <1>6 DEF Agree
    <3>3. who = "app" => OnPointer(f, trip'[d])
      <4>1. trip[d] \in BOOLEAN
        BY <1>2 DEF Types
      <4>2. who = "app" /\ t = "keep" => given = FALSE /\ trip'[d] = FALSE
        BY <1>6, <4>1 DEF who
      <4>3. t # "keep" => trip'[d] = given
        BY <1>6
      <4> HIDE DEF given
      <4> QED BY <1>4, <4>2, <4>3
    <3>2. f.available /\ changes' = 0 => FitNow(d)'
      BY <1>2, <1>3, <1>4, FitStays
    <3> QED BY <2>1, <3>1, <3>2, <3>3 DEF FlagsOK
  <2>4. PointerOK(d)'
    BY <1>2, <1>5, PointerSetOK DEF PointerOK, DriverOK, rideVars
  <2> QED BY <2>2, <2>3, <2>4 DEF DriverOK
<1> QED BY <1>2, <1>5, <1>8, <1>9, <1>10, <1>11, EnsuredFacts, RowStep

\* The requests that write what they are sent; nothing the service decided is left.
LEMMA ClientKeeps ==
  ASSUME IInv, NEW d \in Driver, NEW f \in Flags, NEW t \in BOOLEAN,
         Ensured(d) \/ (live[d] /\ UNCHANGED live),
         SetFlags(d, f, "client"),
         SetPointer(d, t) \/ UNCHANGED <<trip, adrift>>,
         Changing, Seen(d) \/ UNCHANGED age,
         vehicle' \in [Driver -> OptVehicle],
         \A e \in Driver : e # d => vehicle'[e] = vehicle[e],
         UNCHANGED <<fitVars, rideVars, call, sweep>>
  PROVE  IInv'
<1>1. Types /\ DriverOK(d) /\ changes' \in 0 .. MaxChanges /\ changes' # 0
  BY ChangingFacts DEF IInv
<1>2. /\ live' \in [Driver -> BOOLEAN] /\ live'[d]
      /\ \A e \in Driver : e # d => live'[e] = live[e]
  BY <1>1, EnsuredFacts DEF Types
<1>3. /\ trip' \in [Driver -> BOOLEAN] /\ adrift' \in [Driver -> {"no", "sent", "ended"}]
      /\ \A e \in Driver : e # d => trip'[e] = trip[e] /\ adrift'[e] = adrift[e]
  BY <1>1, PointerSet DEF Types
<1>4. Types'
  BY <1>1, <1>2, <1>3, FlagsSet, SeenFacts DEF Types, fitVars, rideVars, OptVehicle
<1>5. \A e \in Driver : e # d => Same(e)
  BY <1>1, <1>2, <1>3, FlagsSet, SeenFacts DEF Same, rideVars
<1>6. by'[d] = "client"
  BY <1>1, FlagsSet
<1>7. DriverOK(d)'
  <2>1. DeletedOK(d)' /\ CallOK(d)' /\ FlagsOK(d)'
    BY <1>1, <1>2, <1>6 DEF DeletedOK, CallOK, FlagsOK, DriverOK
  <2>2. PointerOK(d)'
    BY <1>1, PointerSetOK DEF PointerOK, DriverOK, rideVars
  <2> QED BY <2>1, <2>2 DEF DriverOK
<1>8. \A e \in Driver : StaysFit(e)
  BY <1>1 DEF StaysFit
<1> QED BY <1>2, <1>4, <1>5, <1>7, <1>8, RowStep

LEMMA UpsertKeeps ==
  ASSUME IInv, NEW d \in Driver, Upsert(d) \/ SetOrClearTrip(d)
  PROVE  IInv'
<1>1. Types /\ flags[d] \in Flags
  BY DEF IInv, Types
<1>2. CASE Upsert(d)
  <2>1. PICK on \in Choice, av \in Choice, t \in Choice, v \in OptVehicle \cup {"keep"} :
          /\ Ensured(d)
          /\ SetFlags(d, Patched(flags[d], Ask(on, av, "keep")), "client")
          /\ IF t = "keep" THEN UNCHANGED <<trip, adrift>> ELSE SetPointer(d, t = "yes")
          /\ vehicle' = IF v = "keep" THEN vehicle ELSE [vehicle EXCEPT ![d] = v]
          /\ IF on = "yes" THEN Seen(d) ELSE UNCHANGED age
    BY <1>2 DEF Upsert
  <2>2. Patched(flags[d], Ask(on, av, "keep")) \in Flags
    BY <1>1, AskFacts, PatchedFacts
  <2>3. /\ vehicle' \in [Driver -> OptVehicle]
        /\ \A e \in Driver : e # d => vehicle'[e] = vehicle[e]
    BY <1>1, <2>1 DEF Types, OptVehicle
  <2>4. (t = "yes") \in BOOLEAN /\ (SetPointer(d, t = "yes") \/ UNCHANGED <<trip, adrift>>)
    BY <2>1
  <2> QED BY <1>2, <2>1, <2>2, <2>3, <2>4, ClientKeeps DEF Upsert
<1>3. CASE SetOrClearTrip(d)
  <2>1. /\ vehicle' \in [Driver -> OptVehicle]
        /\ \A e \in Driver : e # d => vehicle'[e] = vehicle[e]
        /\ live[d] /\ UNCHANGED <<live, age>> /\ Changing
        /\ UNCHANGED <<fitVars, rideVars, call, sweep>>
    BY <1>1, <1>3 DEF SetOrClearTrip, Types, OptVehicle
  <2>2. PICK f \in Flags, t \in BOOLEAN : SetPointer(d, t) /\ SetFlags(d, f, "client")
    <3>1. /\ Is(flags[d].online, FALSE, "ON_TRIP") \in Flags
          /\ Is(flags[d].online, flags[d].available,
                IF flags[d].reason = "ON_TRIP" THEN "NONE" ELSE flags[d].reason) \in Flags
      BY <1>1, FlagFacts DEF Is, Flags, AvailabilityReason
    <3> QED BY <1>3, <3>1 DEF SetOrClearTrip
  <2> QED BY <2>1, <2>2, ClientKeeps
<1> QED BY <1>2, <1>3

\* What concerns presence and position only: the flags and the pointer stay.
LEMMA PresenceKeeps ==
  ASSUME IInv, NEW d \in Driver,
         IngestLocationPing(d) \/ UpdateLocation(d) \/ PresenceElapses(d)
  PROVE  IInv'
<1>1. /\ Types /\ DriverOK(d)
      /\ UNCHANGED <<flags, trip, vehicle, fitVars, rideVars, call, sweep, auditVars, changes>>
  BY DEF IInv, Types, IngestLocationPing, UpdateLocation, PresenceElapses
<1>2. /\ live' \in [Driver -> BOOLEAN] /\ live'[d]
      /\ \A e \in Driver : e # d => live'[e] = live[e]
  BY <1>1, EnsuredFacts DEF Types, IngestLocationPing, UpdateLocation, PresenceElapses
<1>3. /\ age' \in [Driver -> 0 .. Never]
      /\ \A e \in Driver : e # d => age'[e] = age[e]
  <2>1. CASE Seen(d)
    BY <1>1, <2>1, SeenFacts
  <2>2. CASE PresenceElapses(d)
    <3>1. age[d] + 1 \in 0 .. Never
      BY <1>1, <2>2, AvailabilityAssumption DEF PresenceElapses, Types, Never
    <3> QED BY <1>1, <2>2, <3>1 DEF PresenceElapses, Types
  <2> QED BY <2>1, <2>2 DEF IngestLocationPing, UpdateLocation
<1>5. Types'
  BY <1>1, <1>2, <1>3 DEF Types, fitVars, rideVars, auditVars
<1>6. \A e \in Driver : e # d => Same(e)
  BY <1>1, <1>2, <1>3 DEF Same, rideVars, auditVars
<1>7. \A e \in Driver : StaysFit(e)
  BY <1>1, StillFit
<1>8. DriverOK(d)'
  BY <1>1, <1>2, <1>7
  DEF DriverOK, DeletedOK, CallOK, FlagsOK, PointerOK, StaysFit, rideVars, auditVars
<1> QED BY <1>1, <1>2, <1>5, <1>6, <1>7, <1>8, RowStep

LEMMA IdleCall == Idle \in Call /\ Idle.at = "idle"
BY DEF Idle, Call, Patch, Ask, Choice

LEMMA SoftDeleteKeeps ==
  ASSUME IInv, NEW d \in Driver, SoftDelete(d)
  PROVE  IInv'
<1>1. /\ Types /\ DriverOK(d) /\ UNCHANGED <<fitVars, rideVars>>
      /\ changes' \in 0 .. MaxChanges /\ (changes' = 0 => changes = 0)
  <2>1. Types
    BY DEF IInv
  <2> QED BY <2>1, ChangingFacts DEF IInv, SoftDelete, Types
<1>2. Never \in 0 .. Never
  BY AvailabilityAssumption DEF Never
<1>3. /\ live' \in [Driver -> BOOLEAN] /\ live'[d] = FALSE
      /\ flags' \in [Driver -> Flags] /\ flags'[d] = Offline
      /\ by' \in [Driver -> {"app", "stale", "client"}]
      /\ vehicle' \in [Driver -> OptVehicle] /\ vehicle'[d] = NoVehicle
      /\ age' \in [Driver -> 0 .. Never] /\ age'[d] = Never
      /\ sweep' = sweep \ {d}
  BY <1>1, <1>2, OfflineFacts DEF SoftDelete, Types, OptVehicle
<1>4. /\ trip' \in [Driver -> BOOLEAN] /\ adrift' \in [Driver -> {"no", "sent", "ended"}] /\ ~trip'[d]
      /\ \A e \in Driver : e # d => trip'[e] = trip[e] /\ adrift'[e] = adrift[e]
  <2>1. SetPointer(d, FALSE)
    BY DEF SoftDelete
  <2> QED BY <1>1, <2>1, PointerSet
<1>5. /\ call' \in [Driver -> Call] /\ call'[d].at # "checked"
      /\ call'[d] = call[d] \/ call'[d] = Idle
      /\ \A e \in Driver : e # d => call'[e] = call[e]
  BY <1>1, IdleCall DEF SoftDelete, Types
<1>6. Types'
  BY <1>1, <1>3, <1>4, <1>5 DEF Types, fitVars, rideVars, OptVehicle
<1>7. \A e \in Driver : e # d => Same(e)
  BY <1>1, <1>4, <1>5 DEF Same, SoftDelete, Types, rideVars
<1>8. \A e \in Driver : StaysFit(e)
  BY <1>1, StillFit
<1>9. DriverOK(d)'
  <2>1. DeletedOK(d)'
    BY <1>3, <1>4 DEF DeletedOK, Blank
  <2>2. CallOK(d)'
    BY <1>1, <1>5, <1>8, IdleCall DEF CallOK, DriverOK, StaysFit
  <2>3. FlagsOK(d)'
    BY <1>3, OfflineFacts DEF FlagsOK
  <2>4. PointerOK(d)'
    <3>1. SetPointer(d, FALSE)
      BY DEF SoftDelete
    <3> QED BY <1>1, <3>1, PointerSetOK DEF rideVars
  <2> QED BY <2>1, <2>2, <2>3, <2>4 DEF DriverOK
<1>10. d \notin sweep'
  BY <1>3
<1> QED BY <1>3, <1>6, <1>7, <1>8, <1>9, <1>10, RowStep

----------------------------------------------------------------------------
(* Logins and status requests *)

\* A step that only moves the request in flight on.
LEMMA CallStep ==
  ASSUME IInv, NEW d \in Driver, NEW c \in Call, call' = [call EXCEPT ![d] = c],
         live' \in [Driver -> BOOLEAN], live[d] => live'[d],
         \A e \in Driver : e # d => live'[e] = live[e],
         UNCHANGED <<flags, trip, vehicle, age, fitVars, rideVars, sweep, auditVars, changes>>,
         c.at = "checked" => live'[d],
         c.at \in {"decided", "checked"} /\ c.from = "login" =>
           /\ c.patch \in LoginPatches
           /\ c.patch.available = "yes" /\ changes = 0 => FitNow(d),
         c.at = "decided" => c.from = "login"
  PROVE  IInv'
<1>1. Types /\ DriverOK(d) /\ call'[d] = c /\ \A e \in Driver : e # d => call'[e] = call[e]
  BY DEF IInv, Types
<1>2. Types'
  BY <1>1 DEF Types, fitVars, rideVars, auditVars
<1>3. \A e \in Driver : e # d => Same(e)
  BY <1>1 DEF Same, rideVars, auditVars
<1>4. \A e \in Driver : StaysFit(e)
  BY StillFit
<1>5. DriverOK(d)'
  <2>1. DeletedOK(d)'
    BY <1>1 DEF DeletedOK, DriverOK, Blank
  <2>2. CallOK(d)'
    BY <1>1, <1>4 DEF CallOK, StaysFit
  <2>3. FlagsOK(d)' /\ PointerOK(d)'
    BY <1>1, <1>4 DEF FlagsOK, PointerOK, DriverOK, StaysFit, rideVars, auditVars
  <2> QED BY <2>1, <2>2, <2>3 DEF DriverOK
<1> QED BY <1>2, <1>3, <1>4, <1>5, RowStep

LEMMA LoginKeeps ==
  ASSUME IInv, NEW d \in Driver, LoginRead(d) \/ LoginDecide(d)
  PROVE  IInv'
<1>1. Types /\ DriverOK(d) /\ call[d] \in Call
  BY DEF IInv, Types
<1>2. CASE LoginRead(d)
  <2> DEFINE c == [at |-> "read", trip |-> trip[d], vehicle |-> vehicle[d],
                   patch |-> Ask("keep", "keep", "keep"), from |-> "login"]
  <2>1. Ask("keep", "keep", "keep") \in Patch
    BY DEF Ask, Patch, Choice
  <2>2. c \in Call /\ c.at = "read"
    BY <1>1, <2>1 DEF Types, Call
  <2>3. call' = [call EXCEPT ![d] = c] /\ Ensured(d)
    BY <1>2 DEF LoginRead
  <2> HIDE DEF c
  <2> QED BY <1>1, <1>2, <2>2, <2>3, EnsuredFacts, CallStep DEF LoginRead
<1>3. CASE LoginDecide(d)
  <2> DEFINE ok == CheckOperationalEligibility(d, call[d].vehicle)
             p == LoginPatch(call[d].trip, ok)
             c == [at |-> "decided", trip |-> FALSE, vehicle |-> NoVehicle,
                   patch |-> p, from |-> "login"]
  <2>1. ok => FitNow(d)
    BY <1>1, EligibleIsFit DEF Call, OptVehicle
  <2> HIDE DEF ok
  <2>2. p \in LoginPatches /\ p \in Patch /\ (p.available = "yes" => ok)
    BY DEF LoginPatch, LoginPatches, Ask, Patch, Choice, AvailabilityReason
  <2> HIDE DEF p
  <2>3. c \in Call /\ c.at = "decided" /\ c.from = "login" /\ c.patch = p
    BY <2>2 DEF Call
  <2>4. call' = [call EXCEPT ![d] = c]
    BY <1>3 DEF LoginDecide, p, ok
  <2> HIDE DEF c
  <2>5. UNCHANGED <<rowVars, fitVars, rideVars, sweep, auditVars, changes>>
    BY <1>3 DEF LoginDecide
  <2> QED BY <1>1, <2>1, <2>2, <2>3, <2>4, <2>5, CallStep DEF Types, rowVars
<1> QED BY <1>2, <1>3

LEMMA CheckingKeeps ==
  ASSUME IInv, NEW d \in Driver, LoginCheck(d) \/ StatusRequest(d)
  PROVE  IInv'
<1>1. /\ Types /\ DriverOK(d) /\ call[d] \in Call /\ flags[d] \in Flags /\ trip[d] \in BOOLEAN
      /\ UNCHANGED <<rowVars, fitVars, rideVars, sweep, auditVars, changes>>
  BY DEF IInv, Types, LoginCheck, StatusRequest
<1>2. ASSUME NEW p \in Patch, NEW from \in {"login", "client"}, Checking(d, p, from),
             from = "login" => /\ p \in LoginPatches
                               /\ p.available = "yes" /\ changes = 0 => FitNow(d)
      PROVE  IInv'
  <2> DEFINE q == Normalised(p, flags[d], trip[d])
             c == [at |-> "checked", trip |-> FALSE, vehicle |-> NoVehicle,
                   patch |-> q, from |-> from]
  <2>1. q \in Patch /\ (p \in LoginPatches => q = p)
    BY <1>1, NormalisedFacts, LoginPatchFacts
  <2> HIDE DEF q
  <2>2. c \in Call /\ c.at = "checked" /\ c.from = from /\ c.patch = q
    BY <2>1 DEF Call
  <2>3. call' = [call EXCEPT ![d] = Idle] \/ (live[d] /\ call' = [call EXCEPT ![d] = c])
    BY <1>2 DEF Checking, q
  <2> HIDE DEF c
  <2>4. CASE call' = [call EXCEPT ![d] = Idle]
    BY <1>1, <2>4, IdleCall, CallStep DEF Types, rowVars
  <2>5. CASE live[d] /\ call' = [call EXCEPT ![d] = c]
    BY <1>1, <1>2, <2>1, <2>2, <2>5, CallStep DEF Types, rowVars
  <2> QED BY <2>3, <2>4, <2>5
<1>3. CASE LoginCheck(d)
  <2>1. /\ call[d].patch \in Patch /\ Checking(d, call[d].patch, "login")
        /\ call[d].patch \in LoginPatches
        /\ call[d].patch.available = "yes" /\ changes = 0 => FitNow(d)
    BY <1>1, <1>3 DEF LoginCheck, Call, DriverOK, CallOK
  <2> QED BY <1>2, <2>1
<1>4. CASE StatusRequest(d)
  <2>1. PICK on \in Choice, av \in Choice, why \in ClientReasons \cup {"keep"} :
          Checking(d, Ask(on, av, why), "client")
    BY <1>4 DEF StatusRequest
  <2>2. why \in AvailabilityReason \cup {"keep"}
    BY AvailabilityAssumption DEF AvailabilityReason
  <2>3. Ask(on, av, why) \in Patch
    BY <2>2, AskFacts
  <2> QED BY <1>2, <2>1, <2>3
<1> QED BY <1>3, <1>4

\* A step that writes the flags by id, with what the service has decided or a client said.
LEMMA FlagStep ==
  ASSUME IInv, NEW d \in Driver, live[d], NEW f \in Flags, NEW who \in {"app", "stale", "client"},
         SetFlags(d, f, who), Seen(d) \/ UNCHANGED age,
         NEW c \in {call[d], Idle}, call' = [call EXCEPT ![d] = c],
         who # "client" => Agree(f, trip[d]) /\ (f.available /\ changes = 0 => FitNow(d)),
         who = "app" => OnPointer(f, trip[d]),
         UNCHANGED <<live, trip, vehicle, fitVars, rideVars, sweep, adrift, changes>>
  PROVE  IInv'
<1>1. Types /\ DriverOK(d) /\ call[d] \in Call
  BY DEF IInv, Types
<1>2. /\ call' \in [Driver -> Call] /\ call'[d] = c
      /\ \A e \in Driver : e # d => call'[e] = call[e]
  BY <1>1, IdleCall DEF Types
<1>3. Types'
  BY <1>1, <1>2, FlagsSet, SeenFacts DEF Types, fitVars, rideVars
<1>4. \A e \in Driver : e # d => Same(e)
  BY <1>1, <1>2, FlagsSet, SeenFacts DEF Same, rideVars
<1>5. \A e \in Driver : StaysFit(e)
  BY StillFit
<1>6. DriverOK(d)'
  <2>1. flags'[d] = f /\ by'[d] = who
    BY <1>1, FlagsSet
  <2>2. DeletedOK(d)' /\ PointerOK(d)'
    BY <1>1 DEF DeletedOK, PointerOK, DriverOK, rideVars
  <2>3. CallOK(d)'
    BY <1>1, <1>2, <1>5, IdleCall DEF CallOK, DriverOK, StaysFit
  <2>4. FlagsOK(d)'
    BY <1>5, <2>1 DEF FlagsOK, StaysFit
  <2> QED BY <2>2, <2>3, <2>4 DEF DriverOK
<1> QED BY <1>3, <1>4, <1>5, <1>6, RowStep

LEMMA StatusWriteKeeps ==
  ASSUME IInv, NEW d \in Driver, StatusWrite(d)
  PROVE  IInv'
<1>1. /\ Types /\ DriverOK(d) /\ call[d] \in Call /\ flags[d] \in Flags /\ call[d].at = "checked"
      /\ live[d]
  BY DEF IInv, Types, StatusWrite, DriverOK, CallOK
<1> DEFINE f == Patched(flags[d], call[d].patch)
           who == Writer(d)
<1>2. /\ f \in Flags /\ who \in {"app", "stale", "client"} /\ trip[d] \in BOOLEAN
      /\ who # "client" => call[d].from = "login"
      /\ who = "app" => trip[d] = (call[d].patch.reason = "ON_TRIP")
  BY <1>1, PatchedFacts DEF Call, Writer, Types
<1>3. ASSUME who # "client"
      PROVE  /\ Agree(f, trip[d]) /\ (f.available /\ changes = 0 => FitNow(d))
             /\ who = "app" => OnPointer(f, trip[d])
  <2>1. /\ call[d].patch \in LoginPatches
        /\ call[d].patch.available = "yes" /\ changes = 0 => FitNow(d)
    BY <1>1, <1>2, <1>3 DEF DriverOK, CallOK
  <2> HIDE DEF who
  <2> QED BY <1>1, <1>2, <2>1, LoginPatchFacts
<1>4. /\ SetFlags(d, f, who) /\ (Seen(d) \/ UNCHANGED age)
      /\ call' = [call EXCEPT ![d] = Idle]
      /\ UNCHANGED <<live, trip, vehicle, fitVars, rideVars, sweep, adrift, changes>>
  BY DEF StatusWrite
<1> HIDE DEF f, who
<1> QED BY <1>1, <1>2, <1>3, <1>4, FlagStep

LEMMA LogoutKeeps ==
  ASSUME IInv, NEW d \in Driver, Logout(d)
  PROVE  IInv'
<1>1. Types /\ flags[d] \in Flags /\ live[d]
  BY DEF IInv, Types, Logout
<1>2. Patched(flags[d], Normalised(Ask("no", "no", "keep"), flags[d], trip[d])) = Offline
  BY DEF Patched, Normalised, Chosen, Ask, Offline, Is
<1>3. SetFlags(d, Offline, "app")
  BY <1>2 DEF Logout
<1>4. call' = [call EXCEPT ![d] = call[d]]
  BY <1>1 DEF Logout, Types
<1> QED BY <1>1, <1>3, <1>4, OfflineFacts, FlagStep DEF Logout

----------------------------------------------------------------------------
(* Trips *)

LEMMA OffersKeep ==
  ASSUME IInv, NEW d \in Driver, Offer(d) \/ OfferLapses(d)
  PROVE  IInv'
<1>1. /\ Types /\ DriverOK(d)
      /\ offered' \in [Driver -> 0 .. MaxRides]
      /\ \A e \in Driver : offered'[e] + riding[e] <= MaxRides
      /\ UNCHANGED <<rowVars, fitVars, riding, call, sweep, auditVars, changes>>
  <2>1. Types /\ DriverOK(d)
    BY DEF IInv
  <2>2. \E n \in 0 .. MaxRides : offered' = [offered EXCEPT ![d] = n] /\ n + riding[d] <= MaxRides
    BY <2>1, AvailabilityAssumption DEF Types, Offer, OfferLapses, Room
  <2> QED BY <2>1, <2>2 DEF Types, Offer, OfferLapses
<1>2. Types'
  BY <1>1 DEF Types, rowVars, fitVars, auditVars
<1>3. \A e \in Driver : Same(e)
  BY <1>1 DEF Same, rowVars, auditVars
<1>4. \A e \in Driver : StaysFit(e)
  BY <1>1, StillFit
<1>5. DriverOK(d)'
  BY <1>1, <1>3, <1>4, SameKeeps
<1> QED BY <1>1, <1>2, <1>3, <1>4, <1>5, RowStep DEF rowVars

LEMMA TripStartsKeeps ==
  ASSUME IInv, NEW d \in Driver, TripStarts(d)
  PROVE  IInv'
<1> DEFINE f == Is(flags[d].online, FALSE, "ON_TRIP")
<1>1. /\ Types /\ DriverOK(d) /\ flags[d] \in Flags /\ live[d]
      /\ UNCHANGED <<live, vehicle, age, fitVars, call, sweep, changes>>
  BY DEF IInv, Types, TripStarts
<1>2. f \in Flags /\ ~f.available /\ Agree(f, TRUE) /\ OnPointer(f, TRUE)
  BY <1>1, FlagFacts DEF Is, Flags, AvailabilityReason, Agree, OnPointer
<1> HIDE DEF f
<1>3. SetFlags(d, f, "app")
  BY DEF TripStarts, f
<1>0. /\ offered' \in [Driver -> 0 .. MaxRides] /\ riding' \in [Driver -> 0 .. MaxRides]
      /\ \A e \in Driver : offered'[e] + riding'[e] <= MaxRides
      /\ riding'[d] > 0 /\ \A e \in Driver : e # d => riding'[e] = riding[e]
  <2>1. /\ offered[d] - 1 \in 0 .. MaxRides /\ riding[d] + 1 \in 1 .. MaxRides
        /\ offered[d] - 1 + riding[d] + 1 <= MaxRides
    BY <1>1, AvailabilityAssumption DEF Types, TripStarts
  <2>2. /\ offered' = [offered EXCEPT ![d] = offered[d] - 1]
        /\ riding' = [riding EXCEPT ![d] = riding[d] + 1]
    BY DEF TripStarts
  <2> QED BY <1>1, <2>1, <2>2 DEF Types
<1>4. /\ trip' \in [Driver -> BOOLEAN] /\ adrift' \in [Driver -> {"no", "sent", "ended"}]
      /\ trip'[d] = TRUE /\ adrift'[d] = "no"
      /\ \A e \in Driver : e # d => trip'[e] = trip[e] /\ adrift'[e] = adrift[e]
  BY <1>1 DEF Types, TripStarts
<1>5. Types'
  BY <1>0, <1>1, <1>2, <1>3, <1>4, FlagsSet DEF Types, fitVars
<1>6. \A e \in Driver : e # d => Same(e)
  BY <1>0, <1>1, <1>2, <1>3, <1>4, FlagsSet DEF Same
<1>7. \A e \in Driver : StaysFit(e)
  BY <1>1, StillFit
<1>8. DriverOK(d)'
  <2>1. flags'[d] = f
    BY <1>1, <1>2, <1>3, FlagsSet
  <2>2. DeletedOK(d)' /\ CallOK(d)'
    BY <1>1, <1>7 DEF DeletedOK, CallOK, DriverOK, StaysFit
  <2>3. FlagsOK(d)'
    BY <1>2, <1>4, <2>1 DEF FlagsOK
  <2>4. PointerOK(d)'
    BY <1>0, <1>4 DEF PointerOK
  <2> QED BY <2>2, <2>3, <2>4 DEF DriverOK
<1> QED BY <1>1, <1>5, <1>6, <1>7, <1>8, RowStep

LEMMA TripEndsKeeps ==
  ASSUME IInv, NEW d \in Driver, TripEnds(d)
  PROVE  IInv'
<1>1. /\ Types /\ DriverOK(d) /\ flags[d] \in Flags
      /\ UNCHANGED <<live, vehicle, fitVars, offered, call, sweep, changes>>
  BY DEF IInv, Types, TripEnds
<1>2. /\ riding' \in [Driver -> 0 .. MaxRides] /\ adrift' \in [Driver -> {"no", "sent", "ended"}]
      /\ \A e \in Driver : offered[e] + riding'[e] <= MaxRides
      /\ adrift'[d] = "no" => riding'[d] = 0
      /\ adrift'[d] # "no" => riding'[d] > 0
      /\ \A e \in Driver : e # d => riding'[e] = riding[e] /\ adrift'[e] = adrift[e]
  <2>1. /\ riding[d] - 1 \in 0 .. MaxRides /\ offered[d] + (riding[d] - 1) <= MaxRides
        /\ riding[d] = 1 => riding[d] - 1 = 0
        /\ riding[d] # 1 => riding[d] - 1 > 0
    BY <1>1, AvailabilityAssumption DEF Types, TripEnds
  <2>2. /\ riding' = [riding EXCEPT ![d] = riding[d] - 1]
        /\ adrift' = [adrift EXCEPT ![d] = IF riding[d] = 1 THEN "no" ELSE "ended"]
    BY DEF TripEnds
  <2> QED BY <1>1, <2>1, <2>2 DEF Types
<1>3. \A e \in Driver : StaysFit(e)
  BY <1>1, StillFit
<1>4. CASE ~live[d]
  <2>1. UNCHANGED <<flags, by, trip, age>> /\ trip[d] = FALSE
    BY <1>1, <1>4 DEF TripEnds, DriverOK, DeletedOK, Blank, Types
  <2>2. Types'
    BY <1>1, <1>2, <2>1 DEF Types, fitVars
  <2>3. \A e \in Driver : e # d => Same(e)
    BY <1>1, <1>2, <2>1 DEF Same
  <2>4. DriverOK(d)'
    <3>1. DeletedOK(d)' /\ CallOK(d)' /\ FlagsOK(d)'
      BY <1>1, <1>3, <2>1 DEF DeletedOK, Blank, CallOK, FlagsOK, DriverOK, StaysFit
    <3>2. PointerOK(d)'
      BY <1>2, <2>1 DEF PointerOK
    <3> QED BY <3>1, <3>2 DEF DriverOK
  <2> QED BY <1>1, <1>3, <2>2, <2>3, <2>4, RowStep
<1>5. CASE live[d]
  <2>1. PICK v \in OptVehicle : SetFlags(d, EndedFlags(d, v), "app")
    BY <1>5 DEF TripEnds
  <2> DEFINE ok == CheckOperationalEligibility(d, v)
             f == EndedFlags(d, v)
  <2>2. ok \in BOOLEAN /\ (ok => FitNow(d))
    BY <1>1, EligibleIsFit DEF CheckOperationalEligibility, Fit, WalletActive
  <2>3. f = Judged(ok) \/ f = Offline
    BY DEF EndedFlags
  <2> HIDE DEF ok, f
  <2>4. f \in Flags /\ (f.available => FitNow(d)) /\ (\A t : Agree(f, t)) /\ OnPointer(f, FALSE)
    BY <2>2, <2>3, JudgedFacts, OfflineFacts
  <2>5. SetFlags(d, f, "app") /\ Seen(d)
    BY <1>5, <2>1 DEF f, TripEnds
  <2>6. /\ trip' \in [Driver -> BOOLEAN] /\ trip'[d] = FALSE
        /\ \A e \in Driver : e # d => trip'[e] = trip[e]
    BY <1>1, <1>5 DEF Types, TripEnds
  <2>7. Types'
    BY <1>1, <1>2, <2>4, <2>5, <2>6, FlagsSet, SeenFacts DEF Types, fitVars
  <2>8. \A e \in Driver : e # d => Same(e)
    BY <1>1, <1>2, <2>4, <2>5, <2>6, FlagsSet, SeenFacts DEF Same
  <2>9. DriverOK(d)'
    <3>1. flags'[d] = f
      BY <1>1, <2>4, <2>5, FlagsSet
    <3>2. DeletedOK(d)' /\ CallOK(d)'
      BY <1>1, <1>3, <1>5 DEF DeletedOK, CallOK, DriverOK, StaysFit
    <3>3. FlagsOK(d)'
      BY <1>3, <2>4, <2>6, <3>1 DEF FlagsOK, StaysFit
    <3>4. PointerOK(d)'
      BY <1>2, <2>6 DEF PointerOK
    <3> QED BY <3>2, <3>3, <3>4 DEF DriverOK
  <2> QED BY <1>1, <1>3, <2>7, <2>8, <2>9, RowStep
<1> QED BY <1>4, <1>5

----------------------------------------------------------------------------
(* Onboarding, the sweeper, and what is changed behind the row *)

\* Nothing of an approved driver is touched: the profile, the wallet and the vehicle
\* are new.
LEMMA OnboardKeeps ==
  ASSUME IInv, NEW d \in Driver, Onboard(d)
  PROVE  IInv'
<1>1. PICK v \in OptVehicle, fit \in {"unfit", "fit"} :
        SaveProfile(d, fit) /\ OnboardVehicle(d, v) /\ OnboardRow(d, v)
  BY DEF Onboard
<1>2. /\ Types /\ DriverOK(d) /\ wallet[d] = "none" /\ wallet' = [wallet EXCEPT ![d] = "active"]
      /\ profile' = [profile EXCEPT ![d] = fit]
      /\ UNCHANGED <<age, user, rideVars, call, sweep, changes>>
  BY <1>1 DEF IInv, Onboard, OnboardWallet, SaveProfile
<1>3. /\ Ensured(d) /\ SetFlags(d, Offline, "app") /\ SetPointer(d, FALSE)
      /\ vehicle' = [vehicle EXCEPT ![d] = v]
  BY <1>1 DEF OnboardRow
<1>4. /\ fleet' \in [Vehicle -> VehicleRow]
      /\ \A x \in Vehicle : fleet[x].owner # NoDriver => fleet'[x] = fleet[x]
  <2>1. [owner |-> d, profileOf |-> d, inService |-> TRUE] \in VehicleRow
    BY DEF VehicleRow
  <2> QED BY <1>1, <1>2, <2>1 DEF OnboardVehicle, SaveVehicle, Types, OptVehicle
<1>5. Types'
  <2>1. wallet' \in [Driver -> {"none", "active", "blocked"}] /\ profile' \in [Driver -> ProfileRow]
    BY <1>2 DEF Types, ProfileRow
  <2>2. vehicle' \in [Driver -> Vehicle \cup {NoVehicle}]
    BY <1>2, <1>3 DEF Types, OptVehicle
  <2>3. live' \in [Driver -> BOOLEAN]
    BY <1>2, <1>3, EnsuredFacts
  <2>4. flags' \in [Driver -> Flags] /\ by' \in [Driver -> {"app", "stale", "client"}]
    BY <1>2, <1>3, OfflineFacts, FlagsSet
  <2>5. trip' \in [Driver -> BOOLEAN] /\ adrift' \in [Driver -> {"no", "sent", "ended"}]
    BY <1>2, <1>3, PointerSet
  <2> QED BY <1>2, <1>4, <2>1, <2>2, <2>3, <2>4, <2>5 DEF Types, rideVars
<1>6. \A e \in Driver : e # d => Same(e)
  <2> TAKE e \in Driver
  <2> HAVE e # d
  <2>1. live'[e] = live[e]
    BY <1>2, <1>3, EnsuredFacts
  <2>2. flags'[e] = flags[e] /\ by'[e] = by[e]
    BY <1>2, <1>3, OfflineFacts, FlagsSet
  <2>3. trip'[e] = trip[e] /\ adrift'[e] = adrift[e]
    BY <1>2, <1>3, PointerSet
  <2>4. vehicle'[e] = vehicle[e]
    BY <1>2, <1>3 DEF Types
  <2> QED BY <1>2, <2>1, <2>2, <2>3, <2>4 DEF Same, rideVars
<1>7. ASSUME NEW e \in Driver PROVE StaysFit(e)
  <2>1. CASE e = d
    BY <1>2, <2>1 DEF StaysFit, FitNow, Fit, WalletActive
  <2>2. CASE e # d
    <3>1. profile'[e] = profile[e] /\ wallet'[e] = wallet[e] /\ user'[e] = user[e]
      BY <1>2, <2>2 DEF Types
    <3>2. \A x \in Vehicle : VehicleFits(e, x) => VehicleFits(e, x)'
      BY <1>4, <3>1 DEF VehicleFits
    <3> QED BY <1>2, <3>1, <3>2 DEF StaysFit, FitNow, Fit, WalletActive
  <2> QED BY <2>1, <2>2
<1>8. DriverOK(d)'
  <2>1. live'[d] /\ flags'[d] = Offline /\ call'[d] = call[d]
    BY <1>2, <1>3, EnsuredFacts, OfflineFacts, FlagsSet
  <2>2. DeletedOK(d)' /\ CallOK(d)'
    BY <1>2, <1>7, <2>1 DEF DeletedOK, CallOK, DriverOK, StaysFit
  <2>3. FlagsOK(d)'
    BY <2>1, OfflineFacts DEF FlagsOK
  <2>4. PointerOK(d)'
    BY <1>2, <1>3, PointerSetOK DEF rideVars
  <2> QED BY <2>2, <2>3, <2>4 DEF DriverOK
<1>9. live'[d]
  BY <1>2, <1>3, EnsuredFacts
<1> QED BY <1>2, <1>5, <1>6, <1>7, <1>8, <1>9, RowStep

LEMMA SweepKeeps ==
  ASSUME IInv, SweepSelect \/ SweepWrite
  PROVE  IInv'
<1>1. /\ Types /\ UNCHANGED <<live, trip, vehicle, age, fitVars, rideVars, call, adrift, changes>>
  BY DEF IInv, SweepSelect, SweepWrite, rowVars, auditVars
<1>2. \A e : StaysFit(e)
  BY <1>1, StillFit
<1>3. CASE SweepSelect
  <2>1. PICK B \in Batches : sweep' = B /\ UNCHANGED <<rowVars, auditVars>>
    BY <1>3 DEF SweepSelect
  <2>2. B \subseteq Driver /\ \A d \in B : live[d]
    BY DEF Batches, Silent
  <2>3. Types'
    BY <1>1, <2>1, <2>2 DEF Types, rowVars, fitVars, rideVars, auditVars
  <2>4. \A e \in Driver : Same(e)
    BY <1>1, <2>1 DEF Same, rowVars, rideVars, auditVars
  <2> QED BY <1>1, <1>2, <2>1, <2>2, <2>3, <2>4, SameKeeps DEF IInv
<1>4. CASE SweepWrite
  <2>1. /\ flags' = [d \in Driver |-> IF d \in sweep THEN Offline ELSE flags[d]]
        /\ by' = [d \in Driver |-> IF d \in sweep THEN "app" ELSE by[d]]
        /\ sweep' = {}
    BY <1>4 DEF SweepWrite
  <2>2. Types'
    BY <1>1, <2>1, OfflineFacts DEF Types, fitVars, rideVars
  <2>3. ASSUME NEW d \in Driver PROVE DriverOK(d)'
    <3>1. CASE d \in sweep
      <4>1. flags'[d] = Offline /\ live[d] /\ DriverOK(d)
        BY <2>1, <3>1 DEF IInv
      <4>2. FlagsOK(d)'
        BY <4>1, OfflineFacts DEF FlagsOK
      <4>3. DeletedOK(d)' /\ PointerOK(d)' /\ CallOK(d)'
        BY <1>1, <1>2, <4>1 DEF DeletedOK, PointerOK, CallOK, DriverOK, StaysFit, rideVars
      <4> QED BY <4>2, <4>3 DEF DriverOK
    <3>2. CASE d \notin sweep
      <4>1. Same(d)
        BY <1>1, <2>1, <3>2 DEF Same, rideVars
      <4> QED BY <1>2, <4>1, SameKeeps DEF IInv
    <3> QED BY <3>1, <3>2
  <2> QED BY <2>1, <2>2, <2>3 DEF IInv
<1> QED BY <1>3, <1>4

\* Users, profiles, wallets and vehicles change, the rows do not.
LEMMA BehindKeeps ==
  ASSUME IInv,
         \/ \E d \in Driver : RemoveUser(d) \/ UpdateProfile(d) \/ RemoveProfile(d) \/ BlockOrUnblock(d)
         \/ \E v \in Vehicle : CreateVehicle(v) \/ UpdateVehicle(v) \/ RemoveVehicle(v)
  PROVE  IInv'
<1>1. /\ Types /\ Changing /\ UNCHANGED <<rowVars, rideVars, call, sweep, auditVars>>
  BY DEF IInv, RemoveUser, UpdateProfile, RemoveProfile, BlockOrUnblock, CreateVehicle,
         UpdateVehicle, RemoveVehicle
<1>2. changes' \in 0 .. MaxChanges /\ changes' # 0
  BY <1>1, ChangingFacts
<1>3. /\ user' \in [Driver -> {"active", "banned", "gone"}]
      /\ profile' \in [Driver -> ProfileRow]
      /\ wallet' \in [Driver -> {"none", "active", "blocked"}]
      /\ fleet' \in [Vehicle -> VehicleRow]
  <2>1. ASSUME NEW d \in Driver, RemoveUser(d) \/ UpdateProfile(d) \/ RemoveProfile(d) \/ BlockOrUnblock(d)
        PROVE  /\ user' \in [Driver -> {"active", "banned", "gone"}]
               /\ profile' \in [Driver -> ProfileRow]
               /\ wallet' \in [Driver -> {"none", "active", "blocked"}]
               /\ UNCHANGED fleet
    <3>1. CASE RemoveUser(d)
      BY <1>1, <3>1 DEF Types, RemoveUser
    <3>2. CASE UpdateProfile(d) \/ RemoveProfile(d)
      BY <1>1, <3>2 DEF Types, UpdateProfile, RemoveProfile, SaveProfile, ProfileRow
    <3>3. CASE BlockOrUnblock(d)
      BY <1>1, <3>3 DEF Types, BlockOrUnblock
    <3> QED BY <2>1, <3>1, <3>2, <3>3
  <2>2. ASSUME NEW v \in Vehicle, CreateVehicle(v) \/ UpdateVehicle(v) \/ RemoveVehicle(v)
        PROVE  /\ UNCHANGED <<user, profile, wallet>>
               /\ \E r \in VehicleRow : fleet' = [fleet EXCEPT ![v] = r]
    <3>1. UNCHANGED <<user, profile, wallet>>
      BY <2>2 DEF CreateVehicle, UpdateVehicle, RemoveVehicle
    <3>2. CASE CreateVehicle(v)
      BY <3>2 DEF CreateVehicle, SaveVehicle, VehicleRow
    <3>3. CASE UpdateVehicle(v)
      <4>1. fleet[v] \in VehicleRow
        BY <1>1 DEF Types
      <4>2. PICK p \in {fleet[v].profileOf} \cup Driver, s \in BOOLEAN :
              SaveVehicle(v, [owner |-> fleet[v].owner, profileOf |-> p, inService |-> s])
        BY <3>3 DEF UpdateVehicle
      <4>3. [owner |-> fleet[v].owner, profileOf |-> p, inService |-> s] \in VehicleRow
        BY <4>1 DEF VehicleRow
      <4> QED BY <3>1, <4>2, <4>3 DEF SaveVehicle
    <3>4. CASE RemoveVehicle(v)
      BY <3>1, <3>4 DEF RemoveVehicle, SaveVehicle, NoVehicleRow, VehicleRow
    <3> QED BY <2>2, <3>1, <3>2, <3>3, <3>4
  <2> QED BY <1>1, <2>1, <2>2 DEF Types
<1>4. Types'
  BY <1>1, <1>2, <1>3 DEF Types, rowVars, rideVars, auditVars
<1>5. \A e \in Driver : Same(e) /\ StaysFit(e)
  BY <1>1, <1>2 DEF Same, StaysFit, rowVars, rideVars, auditVars
<1> QED BY <1>1, <1>4, <1>5, SameKeeps DEF IInv, rowVars

----------------------------------------------------------------------------
(* The invariant *)

LEMMA InitHolds == Init => IInv
<1> SUFFICES ASSUME Init PROVE IInv
  OBVIOUS
<1>1. Types
  <2>1. Never \in 0 .. Never /\ 0 \in 0 .. MaxChanges
    BY AvailabilityAssumption DEF Never
  <2>2. NoVehicleRow \in VehicleRow
    BY DEF NoVehicleRow, VehicleRow
  <2>3. /\ live \in [Driver -> BOOLEAN] /\ trip \in [Driver -> BOOLEAN]
        /\ age \in [Driver -> 0 .. Never]
        /\ adrift \in [Driver -> {"no", "sent", "ended"}]
    BY AvailabilityAssumption DEF Init, Never
  <2>4. /\ offered \in [Driver -> 0 .. MaxRides] /\ riding \in [Driver -> 0 .. MaxRides]
        /\ \A d \in Driver : offered[d] + riding[d] <= MaxRides
    BY AvailabilityAssumption DEF Init
  <2> QED BY <2>1, <2>2, <2>3, <2>4, IdleCall, OfflineFacts DEF Init, Types, ProfileRow
<1>2. ASSUME NEW d \in Driver PROVE DriverOK(d)
  <2>1. DeletedOK(d)
    BY DEF Init, DeletedOK, Blank
  <2>2. CallOK(d)
    BY IdleCall DEF Init, CallOK
  <2>3. FlagsOK(d)
    BY OfflineFacts DEF Init, FlagsOK
  <2>4. PointerOK(d)
    BY DEF Init, PointerOK
  <2> QED BY <2>1, <2>2, <2>3, <2>4 DEF DriverOK
<1> QED BY <1>1, <1>2 DEF IInv, Init

LEMMA Invariance == Spec => []IInv
<1>1. IInv /\ [Next]_vars => IInv'
  <2> SUFFICES ASSUME IInv, [Next]_vars PROVE IInv'
    OBVIOUS
  <2>1. CASE UNCHANGED vars
    <3>1. UNCHANGED <<rowVars, fitVars, rideVars, call, sweep, auditVars, changes>>
      BY <2>1 DEF vars
    <3>2. Types'
      BY <3>1 DEF IInv, Types, rowVars, fitVars, rideVars, auditVars
    <3>3. \A e \in Driver : Same(e) /\ StaysFit(e)
      BY <3>1, StillFit DEF Same, rowVars, rideVars, auditVars
    <3> QED BY <3>1, <3>2, <3>3, SameKeeps DEF IInv, rowVars
  <2>2. ASSUME NEW d \in Driver,
               \/ Create(d) \/ Onboard(d) \/ Upsert(d) \/ SetOrClearTrip(d)
               \/ IngestLocationPing(d) \/ UpdateLocation(d) \/ SoftDelete(d)
               \/ LoginRead(d) \/ LoginDecide(d) \/ StatusRequest(d)
               \/ LoginCheck(d) \/ StatusWrite(d) \/ Logout(d)
               \/ Offer(d) \/ OfferLapses(d) \/ TripStarts(d) \/ TripEnds(d)
               \/ PresenceElapses(d)
               \/ RemoveUser(d) \/ UpdateProfile(d) \/ RemoveProfile(d) \/ BlockOrUnblock(d)
        PROVE  IInv'
    BY <2>2, CreateKeeps, OnboardKeeps, UpsertKeeps, PresenceKeeps, SoftDeleteKeeps, LoginKeeps,
       CheckingKeeps, StatusWriteKeeps, LogoutKeeps, OffersKeep, TripStartsKeeps, TripEndsKeeps,
       BehindKeeps
  <2>3. CASE \E d \in Departed : SoftDelete(d)
    BY <2>3, AvailabilityAssumption, SoftDeleteKeeps
  <2>4. CASE \E v \in Vehicle : CreateVehicle(v) \/ UpdateVehicle(v) \/ RemoveVehicle(v)
    BY <2>4, BehindKeeps
  <2> QED BY <2>1, <2>2, <2>3, <2>4, SweepKeeps DEF Next
<1> QED BY <1>1, InitHolds, PTL DEF Spec

----------------------------------------------------------------------------
(* Results *)

\* Every column keeps its type, and nothing of a deleted row is ever written again.
THEOREM TypesHold == Spec => []TypeOK
<1>1. IInv => TypeOK
  BY DEF IInv, Types, TypeOK, DriverOK, DeletedOK
<1> QED BY <1>1, Invariance, PTL

\* The flags the service decides on agree, however decisions overtake each other;
\* with the pointer too, unless it was decided on before it changed.
THEOREM DecisionsAgree == Spec => []FlagsAgree
<1>1. IInv => FlagsAgree
  BY DEF IInv, DriverOK, FlagsOK, Agree, OnPointer, FlagsAgree
<1> QED BY <1>1, Invariance, PTL

\* current_trip_id follows the rides, however many offers a driver accepts, but for
\* what requests send and for the end of one of several rides, which clears it.
THEOREM PointersFollow == Spec => []PointerMatchesRide
<1>1. IInv => PointerMatchesRide
  BY DEF IInv, DriverOK, PointerOK, PointerMatchesRide
<1> QED BY <1>1, Invariance, PTL

\* A driver is made available only while he may drive.
THEOREM OnlyTheFit == Spec => []AvailableWasFit
<1>1. IInv => AvailableWasFit
  BY DEF IInv, DriverOK, FlagsOK, FitNow, AvailableWasFit
<1> QED BY <1>1, Invariance, PTL

=============================================================================
