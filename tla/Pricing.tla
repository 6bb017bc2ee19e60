------------------------------- MODULE Pricing -------------------------------
(***************************************************************************)
(* What a trip costs: settings/price-policies/services/                    *)
(* pricing-engine.service.ts over the price_policy, city, zone,            *)
(* vehicle_types and vehicle_service_classes tables, which administrators  *)
(* edit while trips are quoted and ridden.                                 *)
(*                                                                         *)
(* A quote reads its tables one after the other (READ COMMITTED) and       *)
(* stores a rate card with the trip.  The completion uses that card, but   *)
(* reads the rates and the multipliers again.  Factors and multipliers are *)
(* in hundredths, amounts in whole units; rounding to cents is left out    *)
(* (both sides of every comparison go through the same rounding).          *)
(*                                                                         *)
(* Init, Next, Spec, TypeOK and vars have names of their own here, so that *)
(* one module can prove things about these prices and about PlanPurchases. *)
(***************************************************************************)
EXTENDS Integers, FiniteSets

CONSTANTS
  Policy, NoPolicy,
  City, NoCity,
  Zone, NoZone,
  VehicleType,
  ServiceClass,
  Trip,
  Admin,          \* edits being made at the same time
  CityOf,         \* zone.cityId, which never changes
  Covers,         \* the cities and zones whose geometry covers a pickup
  Asked,          \* the service class a passenger asks for
  Route,          \* estimated kilometres and minutes of a trip
  Offset,         \* time zones, with their distance from UTC
  Day, Week,      \* moments in a day, days in a week
  PolicyRows, PolicyPatches, TypeRows, TypePatches, ClassRows,
  CityRows, ZoneRows,  \* what administrators may write
  Seed,           \* the tables at the beginning
  Take,           \* candidates looked at (50 in the code)
  Extras,         \* extra fees a driver may add
  MaxTime, MaxEdits

NoTime == -1
NoCap == -1
NoTz == "none"
UTC == "UTC"
Moments == 0 .. MaxTime

VARIABLES
  policies, cities, zones, types, classes,   \* the tables
  trip,                                      \* trips, with quote and bill
  edit,                                      \* edits between their read and their write
  now,
  edits                                      \* counts edits, up to MaxEdits

pricingVars == <<policies, cities, zones, types, classes, trip, edit, now, edits>>
tables == <<policies, cities, zones, types, classes>>

Absent == [status |-> "absent"]
Live(table, i) == table[i].status = "live"

-----------------------------------------------------------------------------
(* The rows *)

Scopes == {"GLOBAL", "CITY", "ZONE"}
Statuses == {"live", "removed"}
Created == -1 .. MaxEdits
\* The DTOs of types and classes ask for numbers only: they may be negative.
Multipliers == [base : Int, perKm : Int, perMin : Int, min : Int]

\* Empty sets stand for conditions that are not given; a range of dates is the set of
\* its dates, and the two white lists of dates are one, their intersection.
Conditions ==
  [exclude : SUBSET Int, dates : SUBSET Int, days : SUBSET Nat, hours : SUBSET (Nat \X Nat)]
PriceTerms ==
  [base : Nat, perKm : Nat, perMin : Nat, min : Nat, fees : Nat, cap : Nat \cup {NoCap}]

PolicyRow ==
  [status : Statuses, created : Created, scope : Scopes, active : BOOLEAN, priority : Int,
   city : City \cup {NoCity}, zone : Zone \cup {NoZone}, from : Int, to : Int,
   tz : DOMAIN Offset \cup {NoTz}, cond : Conditions, price : PriceTerms]
CityRow ==
  [status : Statuses, created : Created, active : BOOLEAN, tz : DOMAIN Offset, drawn : BOOLEAN]
ZoneRow == [status : Statuses, created : Created, active : BOOLEAN, priority : Int]
TypeRow ==
  [status : Statuses, created : Created, active : BOOLEAN, classes : SUBSET ServiceClass,
   rates : Multipliers]
ClassRow == [status : Statuses, created : Created, mult : Multipliers]

\* What the body of a PATCH may hold.
PolicyColumns ==
  [scope |-> Scopes, active |-> BOOLEAN, priority |-> Int, city |-> City \cup {NoCity},
   zone |-> Zone \cup {NoZone}, from |-> Int, to |-> Int, tz |-> DOMAIN Offset \cup {NoTz},
   cond |-> Conditions, price |-> PriceTerms]
TypeColumns == [active |-> BOOLEAN, classes |-> SUBSET ServiceClass, rates |-> Multipliers]

Fits(patch, columns) ==
  \A c \in DOMAIN patch : c \in DOMAIN columns /\ patch[c] \in columns[c]

Patched(row, patch) ==
  [c \in DOMAIN row |-> IF c \in DOMAIN patch THEN patch[c] ELSE row[c]]

\* What the snapshot of a trip keeps of its policy, and a trip's columns as they fill.
Card ==
  [policy : Policy, scope : Scopes, tz : DOMAIN Offset, base : Nat, perKm : Nat,
   perMin : Nat, min : Nat, fees : Nat, cap : Nat \cup {NoCap}]
Quote == [at : Moments, type : VehicleType, rates : Multipliers, mult : Multipliers]
Place == [city : City \cup {NoCity}, zone : Zone \cup {NoZone}, tz : DOMAIN Offset]
BillRow == [rates : Multipliers, mult : Multipliers, km : Nat, min : Nat, extras : Nat]

NewTrip == [phase |-> "new"]
TripRow ==
  {NewTrip}
  \cup [phase : {"rated"}, quote : Quote]
  \cup [phase : {"placed"}, quote : Quote, place : Place]
  \cup [phase : {"open"}, quote : Quote, place : Place, card : Card, est : Int]
  \cup [phase : {"done"}, quote : Quote, place : Place, card : Card, est : Int,
        bill : BillRow, total : Int]

-----------------------------------------------------------------------------
(* Price policies *)

\* assertScopeCoherence, and the CHECK constraint of the same meaning.
Coherent(row) ==
  /\ row.scope \in Scopes
  /\ (row.city # NoCity) <=> row.scope = "CITY"
  /\ (row.zone # NoZone) <=> row.scope = "ZONE"

Windowed(row) == row.from = NoTime \/ row.to = NoTime \/ row.from < row.to

\* Slip: only the service validates, the table has no CHECK constraints.
AllowedUnchecked(row) == TRUE

Allowed(row) == Coherent(row) /\ Windowed(row)

PlaceExists(r, cs, zs) ==
  /\ r.city # NoCity => Live(cs, r.city)
  /\ r.zone # NoZone => Live(zs, r.zone)

\* What holds of the tables at any time: the types of their columns, and what the
\* constraints and foreign keys of the policies say.
TablesTyped(ps, cs, zs, vs, ks) ==
  /\ ps \in [Policy -> PolicyRow \cup {Absent}]
  /\ cs \in [City -> CityRow \cup {Absent}]
  /\ zs \in [Zone -> ZoneRow \cup {Absent}]
  /\ vs \in [VehicleType -> TypeRow \cup {Absent}]
  /\ ks \in [ServiceClass -> ClassRow \cup {Absent}]

PoliciesSound(ps, cs, zs) ==
  \A p \in Policy : Live(ps, p) =>
    Coherent(ps[p]) /\ Windowed(ps[p]) /\ PlaceExists(ps[p], cs, zs)

ASSUME PricingAssumption ==
  /\ IsFiniteSet(Policy)
  /\ NoPolicy \notin Policy /\ NoCity \notin City /\ NoZone \notin Zone
  /\ CityOf \in [Zone -> City]
  /\ Covers \in [Trip -> SUBSET (City \cup Zone)]
  /\ Asked \in [Trip -> ServiceClass]
  /\ Route \in [Trip -> [km : Nat, min : Nat]]
  /\ Offset \in [DOMAIN Offset -> Int] /\ UTC \in DOMAIN Offset /\ Offset[UTC] = 0
  /\ NoTz \notin DOMAIN Offset
  /\ Day \in Nat \ {0} /\ Week \in Nat \ {0}
  /\ Take \in Nat /\ MaxTime \in Nat /\ MaxEdits \in Nat
  /\ Extras \subseteq Nat
  /\ PolicyRows \subseteq PolicyRow /\ TypeRows \subseteq TypeRow /\ ClassRows \subseteq ClassRow
  /\ CityRows \subseteq CityRow /\ ZoneRows \subseteq ZoneRow
  /\ \A patch \in PolicyPatches : Fits(patch, PolicyColumns)
  /\ \A patch \in TypePatches : Fits(patch, TypeColumns)
  /\ TablesTyped(Seed.policies, Seed.cities, Seed.zones, Seed.types, Seed.classes)
  /\ PoliciesSound(Seed.policies, Seed.cities, Seed.zones)

\* What a policy's moment is in its time zone: the minute, the date and the day.
Local(m, tz) ==
  LET l == m + Offset[tz] IN
  [slot |-> l % Day, date |-> l \div Day, dow |-> ((l \div Day) % Week) + 1]

\* Slip: a range over midnight is taken for an ordinary one.
TimeInRangeOfOneDay(c, s, e) == c >= s /\ c < e

TimeInRange(c, s, e) == IF s <= e THEN c >= s /\ c < e ELSE c >= s \/ c < e

ConditionsApply(cond, m, tz) ==
  LET local == Local(m, tz) IN
  /\ local.date \notin cond.exclude
  /\ cond.dates = {} \/ local.date \in cond.dates
  /\ cond.days = {} \/ local.dow \in cond.days
  /\ \/ cond.hours = {}
     \/ \E h \in cond.hours : TimeInRange(local.slot, h[1], h[2])

\* The zone conditions are judged in: 'UTC' unless the policy has another or an
\* empty one.
ZoneUsed(row, cityTz) ==
  IF row.tz # NoTz THEN row.tz ELSE IF cityTz # NoTz THEN cityTz ELSE UTC

-----------------------------------------------------------------------------
(* Selecting the policy *)

InWindow(row, m) == (row.from = NoTime \/ row.from <= m) /\ (row.to = NoTime \/ m <= row.to)

ScopeMatches(row, city, zone) ==
  \/ row.scope = "GLOBAL"
  \/ row.scope = "CITY" /\ row.city = city
  \/ row.scope = "ZONE" /\ row.zone = zone

\* The scopes are joined with OR in one andWhere, without parentheses: the
\* conditions before it bind the first scope only.
Candidates(m, city, zone) ==
  {p \in Policy : LET row == policies[p] IN
     /\ Live(policies, p)
     /\ \/ row.active /\ InWindow(row, m) /\ row.scope = "GLOBAL"
        \/ row.scope # "GLOBAL" /\ ScopeMatches(row, city, zone)}

Specificity(row) == CASE row.scope = "ZONE" -> 3 [] row.scope = "CITY" -> 2 [] OTHER -> 1

\* ORDER BY specificity, priority, effectiveFrom (nulls last), createdAt.
Precedes(q, p) ==
  LET a == policies[q]  b == policies[p] IN
  \/ Specificity(a) > Specificity(b)
  \/ /\ Specificity(a) = Specificity(b)
     /\ \/ a.priority > b.priority
        \/ /\ a.priority = b.priority
           /\ \/ a.from > b.from
              \/ a.from = b.from /\ a.created > b.created

\* The first candidate, among those looked at, whose conditions apply.
ResolveApplicablePolicy(m, city, zone, cityTz) ==
  LET found == Candidates(m, city, zone)
      looked == {p \in found : Cardinality({q \in found : Precedes(q, p)}) < Take}
      applies == {p \in looked : ConditionsApply(policies[p].cond, m, ZoneUsed(policies[p], cityTz))}
  IN {p \in applies : \A q \in applies \ {p} : ~Precedes(q, p)}

-----------------------------------------------------------------------------
(* The fare *)

\* 5 and more are percentages on top, less are factors, nothing is 1.
FactorFromPolicy(n) ==
  IF n <= 0 THEN 100 ELSE IF n >= 500 THEN 100 + n \div 100 ELSE n

RateCard(p, tz) ==
  LET price == policies[p].price IN
  [policy |-> p, scope |-> policies[p].scope, tz |-> tz,
   base |-> FactorFromPolicy(price.base), perKm |-> FactorFromPolicy(price.perKm),
   perMin |-> FactorFromPolicy(price.perMin), min |-> FactorFromPolicy(price.min),
   fees |-> price.fees, cap |-> price.cap]

DefaultMultipliers == [base |-> 100, perKm |-> 100, perMin |-> 100, min |-> 100]

\* Rates by hundredths by hundredths: amounts are in ten-thousandths here.
Unit == 10000

Larger(a, b) == IF a >= b THEN a ELSE b
Smaller(a, b) == IF a <= b THEN a ELSE b

\* Booking fee and night surcharge are one number; the surge is 1 in every quote.
ComputeFare(rates, mult, card, km, min, extras) ==
  LET subtotal == rates.base * mult.base * card.base
                  + rates.perKm * mult.perKm * card.perKm * km
                  + rates.perMin * mult.perMin * card.perMin * min
                  + card.fees * Unit
      totalBase == Larger(subtotal, rates.min * mult.min * card.min)
      capped == IF card.cap = NoCap THEN totalBase ELSE Smaller(totalBase, card.cap * Unit)
  IN capped + extras * Unit

-----------------------------------------------------------------------------
(* Quoting a trip *)

PricingInit ==
  /\ policies = Seed.policies
  /\ cities = Seed.cities
  /\ zones = Seed.zones
  /\ types = Seed.types
  /\ classes = Seed.classes
  /\ trip = [t \in Trip |-> NewTrip]
  /\ edit = [a \in Admin |-> [kind |-> "none"]]
  /\ now = 0
  /\ edits = 0

\* findEligibleVehicleType: the cheapest active type of the class.
EligibleTypes(class) ==
  LET fit == {v \in VehicleType : Live(types, v) /\ types[v].active /\ class \in types[v].classes} IN
  {v \in fit : \A w \in fit : types[v].rates.base <= types[w].rates.base}

\* The service class, then the vehicle type; without them there is no trip.
QuoteRates(t) ==
  /\ trip[t].phase = "new"
  /\ Live(classes, Asked[t])
  /\ \E v \in EligibleTypes(Asked[t]) :
       trip' = [trip EXCEPT ![t] =
         [phase |-> "rated",
          quote |-> [at |-> now, type |-> v, rates |-> types[v].rates,
                     mult |-> classes[Asked[t]].mult]]]
  /\ UNCHANGED <<tables, edit, now, edits>>

\* The newest of the active cities that cover the pickup.
ResolveCity(t) ==
  LET fit == {c \in City : Live(cities, c) /\ cities[c].active /\ cities[c].drawn /\ c \in Covers[t]} IN
  {c \in fit : \A d \in fit \ {c} : cities[c].created > cities[d].created}

ResolveZone(t, city) ==
  LET fit == {z \in Zone : Live(zones, z) /\ zones[z].active /\ CityOf[z] = city /\ z \in Covers[t]} IN
  {z \in fit : \A w \in fit \ {z} :
     \/ zones[z].priority > zones[w].priority
     \/ zones[z].priority = zones[w].priority /\ zones[z].created > zones[w].created}

OrNone(S, none) == IF S = {} THEN {none} ELSE S

\* resolveContext: the city, and in a city the zone, on a connection of its own.
QuoteContext(t) ==
  /\ trip[t].phase = "rated"
  /\ \E c \in OrNone(ResolveCity(t), NoCity) :
       \E z \in (IF c = NoCity THEN {NoZone} ELSE OrNone(ResolveZone(t, c), NoZone)) :
         trip' = [trip EXCEPT ![t] =
           [phase |-> "placed", quote |-> trip[t].quote,
            place |-> [city |-> c, zone |-> z,
                       tz |-> IF c = NoCity THEN UTC ELSE cities[c].tz]]]
  /\ UNCHANGED <<tables, edit, now, edits>>

PoliciesFor(m, place) == ResolveApplicablePolicy(m, place.city, place.zone, place.tz)

\* The policy, the fare, and the snapshot that is committed with the trip.
QuotePolicy(t) ==
  /\ trip[t].phase = "placed"
  /\ LET q == trip[t].quote IN
     \E p \in PoliciesFor(q.at, trip[t].place) :
       LET card == RateCard(p, ZoneUsed(policies[p], trip[t].place.tz)) IN
       trip' = [trip EXCEPT ![t] =
         [phase |-> "open", quote |-> q, place |-> trip[t].place, card |-> card,
          est |-> ComputeFare(q.rates, q.mult, card, Route[t].km, Route[t].min, 0)]]
  /\ UNCHANGED <<tables, edit, now, edits>>

\* 400 'No price policy configured' or 'No applicable price policy': no trip.
QuoteRefused(t) ==
  /\ trip[t].phase = "placed"
  /\ PoliciesFor(trip[t].quote.at, trip[t].place) = {}
  /\ trip' = [trip EXCEPT ![t] = NewTrip]
  /\ UNCHANGED <<tables, edit, now, edits>>

-----------------------------------------------------------------------------
(* Completing it *)

\* The type of the snapshot, unless it was removed: findByIdWithPricing does not load
\* the requested category, so the fallback to another type is never taken.
FinalType(t) == {v \in VehicleType : v = trip[t].quote.type /\ Live(types, v)}

FinalMultipliers(t) ==
  IF Live(classes, Asked[t]) THEN classes[Asked[t]].mult ELSE DefaultMultipliers

\* tryGetRateCardFromBreakdown: every quote stores its card.
CardOf(t) == trip[t].card

\* Distance and duration are the driver's, or the estimate's.
Bill(t, v, extras, longer) ==
  [rates |-> types[v].rates, mult |-> FinalMultipliers(t),
   km |-> Route[t].km + longer, min |-> Route[t].min, extras |-> extras]

Charged(t, bill, card) ==
  [phase |-> "done", quote |-> trip[t].quote, place |-> trip[t].place,
   card |-> trip[t].card, est |-> trip[t].est, bill |-> bill,
   total |-> ComputeFare(bill.rates, bill.mult, card, bill.km, bill.min, bill.extras)]

\* Slip: the policy is resolved again, as if the snapshot were not there.
CompleteAnew(t) ==
  /\ trip[t].phase = "open"
  /\ \E v \in FinalType(t), extras \in Extras, p \in PoliciesFor(now, trip[t].place) :
       trip' = [trip EXCEPT ![t] = Charged(t, Bill(t, v, extras, 0), RateCard(p, UTC))]
  /\ UNCHANGED <<tables, edit, now, edits>>

Complete(t) ==
  /\ trip[t].phase = "open"
  /\ \E v \in FinalType(t), extras \in Extras, longer \in 0 .. 1 :
       trip' = [trip EXCEPT ![t] = Charged(t, Bill(t, v, extras, longer), CardOf(t))]
  /\ UNCHANGED <<tables, edit, now, edits>>

-----------------------------------------------------------------------------
(* Administration *)

MayEdit == edits < MaxEdits /\ edits' = edits + 1

\* Rows have a status, and an order of creation where a query sorts by it.
Row(r) == [r EXCEPT !.status = "live", !.created = edits + 1]

\* A row that is there is written over, one that is not is inserted.
Upsert(table, i, r) ==
  IF Live(table, i) THEN [r EXCEPT !.status = "live", !.created = table[i].created] ELSE Row(r)

CreatePolicy(p, r) ==
  /\ MayEdit
  /\ policies[p] = Absent
  /\ Coherent(r) /\ Windowed(r)
  /\ PlaceExists(r, cities, zones)
  /\ policies' = [policies EXCEPT ![p] = Row(r)]
  /\ UNCHANGED <<cities, zones, types, classes, trip, edit, now>>

\* PATCH: the policy is read outside the transaction, the patch is merged with what
\* was read, and the identifiers are always written, from that merge.
EditPolicyRead(a, p, patch) ==
  /\ MayEdit
  /\ edit[a].kind = "none"
  /\ Live(policies, p)
  /\ LET merged == Patched(policies[p], patch)
         columns == [c \in DOMAIN patch \cup {"city", "zone"} |-> merged[c]]
     IN /\ Coherent(merged) /\ Windowed(merged)
        /\ edit' = [edit EXCEPT ![a] = [kind |-> "policy", id |-> p, columns |-> columns]]
  /\ UNCHANGED <<tables, trip, now>>

\* The city or zone is looked up here; the table refuses what its CHECKs forbid.
EditPolicyWrite(a) ==
  /\ edit[a].kind = "policy"
  /\ LET row == Patched(policies[edit[a].id], edit[a].columns) IN
     policies' = IF PlaceExists(edit[a].columns, cities, zones) /\ Allowed(row)
                 THEN [policies EXCEPT ![edit[a].id] = row] ELSE policies
  /\ edit' = [edit EXCEPT ![a] = [kind |-> "none"]]
  /\ UNCHANGED <<cities, zones, types, classes, trip, now, edits>>

SetPolicyActive(p, b) ==
  /\ MayEdit
  /\ Live(policies, p)
  /\ policies' = [policies EXCEPT ![p].active = b]
  /\ UNCHANGED <<cities, zones, types, classes, trip, edit, now>>

\* Cities and zones are edited under the lock of their row.
WriteCity(c, r) ==
  /\ MayEdit
  /\ cities' = [cities EXCEPT ![c] = Upsert(cities, c, r)]
  /\ UNCHANGED <<policies, zones, types, classes, trip, edit, now>>

WriteZone(z, r) ==
  /\ MayEdit
  /\ Live(cities, CityOf[z])
  /\ zones' = [zones EXCEPT ![z] = Upsert(zones, z, r)]
  /\ UNCHANGED <<policies, cities, types, classes, trip, edit, now>>

CreateType(v, r) ==
  /\ MayEdit
  /\ types[v] = Absent
  /\ \A c \in r.classes : Live(classes, c)
  /\ types' = [types EXCEPT ![v] = Row(r)]
  /\ UNCHANGED <<policies, cities, zones, classes, trip, edit, now>>

CreateClass(c, r) ==
  /\ MayEdit
  /\ classes[c] = Absent
  /\ classes' = [classes EXCEPT ![c] = Row(r)]
  /\ UNCHANGED <<policies, cities, zones, types, trip, edit, now>>

\* PATCH of a type or a class: the entity is read, changed and saved whole, without
\* a lock, its deleted_at included.
EditTypeRead(a, v, patch) ==
  /\ MayEdit
  /\ edit[a].kind = "none"
  /\ Live(types, v)
  /\ "classes" \in DOMAIN patch => \A c \in patch.classes : Live(classes, c)
  /\ edit' = [edit EXCEPT ![a] = [kind |-> "type", id |-> v, row |-> Patched(types[v], patch)]]
  /\ UNCHANGED <<tables, trip, now>>

EditTypeWrite(a) ==
  /\ edit[a].kind = "type"
  /\ types' = [types EXCEPT ![edit[a].id] = edit[a].row]
  /\ edit' = [edit EXCEPT ![a] = [kind |-> "none"]]
  /\ UNCHANGED <<policies, cities, zones, classes, trip, now, edits>>

EditClassRead(a, c, r) ==
  /\ MayEdit
  /\ edit[a].kind = "none"
  /\ Live(classes, c)
  /\ edit' = [edit EXCEPT ![a] = [kind |-> "class", id |-> c, row |-> [classes[c] EXCEPT !.mult = r.mult]]]
  /\ UNCHANGED <<tables, trip, now>>

EditClassWrite(a) ==
  /\ edit[a].kind = "class"
  /\ classes' = [classes EXCEPT ![edit[a].id] = edit[a].row]
  /\ edit' = [edit EXCEPT ![a] = [kind |-> "none"]]
  /\ UNCHANGED <<policies, cities, zones, types, trip, now, edits>>

RemoveType(v) ==
  /\ MayEdit
  /\ Live(types, v)
  /\ types' = [types EXCEPT ![v].status = "removed"]
  /\ UNCHANGED <<policies, cities, zones, classes, trip, edit, now>>

RemoveClass(c) ==
  /\ MayEdit
  /\ Live(classes, c)
  /\ classes' = [classes EXCEPT ![c].status = "removed"]
  /\ UNCHANGED <<policies, cities, zones, types, trip, edit, now>>

Tick ==
  /\ now < MaxTime
  /\ now' = now + 1
  /\ UNCHANGED <<tables, trip, edit, edits>>

PricingNext ==
  \/ \E t \in Trip :
       QuoteRates(t) \/ QuoteContext(t) \/ QuotePolicy(t) \/ QuoteRefused(t) \/ Complete(t)
  \/ \E p \in Policy, r \in PolicyRows : CreatePolicy(p, r)
  \/ \E a \in Admin, p \in Policy, patch \in PolicyPatches : EditPolicyRead(a, p, patch)
  \/ \E p \in Policy, b \in BOOLEAN : SetPolicyActive(p, b)
  \/ \E c \in City, r \in CityRows : WriteCity(c, r)
  \/ \E z \in Zone, r \in ZoneRows : WriteZone(z, r)
  \/ \E v \in VehicleType, r \in TypeRows : CreateType(v, r)
  \/ \E c \in ServiceClass, r \in ClassRows : CreateClass(c, r)
  \/ \E a \in Admin, v \in VehicleType, patch \in TypePatches : EditTypeRead(a, v, patch)
  \/ \E a \in Admin, c \in ServiceClass, r \in ClassRows : EditClassRead(a, c, r)
  \/ \E a \in Admin : EditPolicyWrite(a) \/ EditTypeWrite(a) \/ EditClassWrite(a)
  \/ \E v \in VehicleType : RemoveType(v)
  \/ \E c \in ServiceClass : RemoveClass(c)
  \/ Tick

PricingSpec == PricingInit /\ [][PricingNext]_pricingVars

-----------------------------------------------------------------------------
(* Properties *)

\* The tables keep their constraints under edits that overlap (each is validated on
\* what it read), and a trip past its quote has a card of an existing policy.
PricesTyped ==
  /\ TablesTyped(policies, cities, zones, types, classes)
  /\ PoliciesSound(policies, cities, zones)
  /\ trip \in [Trip -> TripRow]
  /\ \A t \in Trip : trip[t].phase \in {"open", "done"} => Live(policies, trip[t].card.policy)
  /\ now \in Moments
  /\ edits \in 0 .. MaxEdits

\* The slots of the day a range of hours names: from its start to its end, or, when
\* it ends before it starts, the whole day but what lies between the two.
HoursNamed(h) ==
  IF h[1] <= h[2] THEN h[1] .. h[2] - 1 ELSE (0 .. Day - 1) \ (h[2] .. h[1] - 1)

\* The policies a passenger may expect to be charged by: switched on, in their
\* window, for the place, and with the moment inside one of their hours, which may
\* run over midnight.
InForce(m, place) ==
  {p \in Policy :
     /\ Live(policies, p) /\ policies[p].active
     /\ InWindow(policies[p], m)
     /\ ScopeMatches(policies[p], place.city, place.zone)
     /\ LET cond == policies[p].cond
            local == Local(m, ZoneUsed(policies[p], place.tz))
        IN /\ local.date \notin cond.exclude
           /\ cond.dates # {} => local.date \in cond.dates
           /\ cond.days # {} => local.dow \in cond.days
           /\ cond.hours # {} => local.slot \in UNION {HoursNamed(h) : h \in cond.hours}}

\* A quote never passes over a policy that is in force for a less specific one, or for
\* one of the same scope and lower priority, and is refused only when none is in force.
BestPolicyQuoted ==
  [][\A t \in Trip : trip[t].phase = "placed" =>
       /\ trip'[t].phase = "open" =>
            LET chosen == policies[trip'[t].card.policy] IN
            \A p \in InForce(trip[t].quote.at, trip[t].place) :
              \/ Specificity(policies[p]) < Specificity(chosen)
              \/ Specificity(policies[p]) = Specificity(chosen) /\ policies[p].priority <= chosen.priority
       /\ trip'[t].phase = "new" => InForce(trip[t].quote.at, trip[t].place) = {}]_pricingVars

\* Whatever happens to the policies during the ride, a trip of the estimated length is
\* charged what was quoted, plus the extras, unless the rates or the multipliers have
\* changed; and the cap of its quote holds in any case.
PriceKept ==
  \A t \in Trip : trip[t].phase = "done" =>
    LET b == trip[t].bill  fare == trip[t].total - b.extras * Unit IN
    /\ (b.rates = trip[t].quote.rates /\ b.mult = trip[t].quote.mult /\ b.km = Route[t].km) => fare = trip[t].est
    /\ trip[t].card.cap # NoCap => fare <= trip[t].card.cap * Unit
=============================================================================
