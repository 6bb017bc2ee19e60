------------------------------ MODULE MCPricing ------------------------------
\* One city with two zones over one pickup, three policies, two vehicle types.
EXTENDS Pricing, TLC

CONSTANTS p1, p2, p3, c1, z1, z2, v1, v2, s1, s2, t1, a1, a2

Symmetry == Permutations({a1, a2})

MCCityOf == [z \in {z1, z2} |-> c1]
MCCovers == [t \in {t1} |-> {c1, z1, z2}]
MCAsked == [t \in {t1} |-> s1]
MCRoute == [t \in {t1} |-> [km |-> 2, min |-> 1]]
MCOffset == [tz \in {UTC, "local"} |-> IF tz = UTC THEN 0 ELSE 1]
MCExtras == {1}

Always == [exclude |-> {}, dates |-> {}, days |-> {}, hours |-> {}]
Morning == [Always EXCEPT !.hours = {<<0, 2>>}]
\* The DTO refuses a range over midnight: only a row that is there already has one.
Night == [Always EXCEPT !.hours = {<<2, 1>>}]
Holiday == [Always EXCEPT !.exclude = {1}]

Plain == [base |-> 0, perKm |-> 120, perMin |-> 0, min |-> 0, fees |-> 1, cap |-> NoCap]
Capped == [base |-> 1000, perKm |-> 0, perMin |-> 0, min |-> 500, fees |-> 0, cap |-> 4]

Everywhere ==
  [status |-> "live", created |-> 0, scope |-> "GLOBAL", city |-> NoCity, zone |-> NoZone,
   active |-> TRUE, priority |-> 1,
   from |-> NoTime, to |-> NoTime, tz |-> UTC, cond |-> Always, price |-> Plain]
Downtown ==
  [Everywhere EXCEPT !.scope = "ZONE", !.zone = z1, !.tz = NoTz, !.cond = Morning,
                     !.priority = 0, !.price = Capped]
Citywide ==
  [Everywhere EXCEPT !.scope = "CITY", !.city = c1, !.from = 0, !.priority = 2, !.tz = "local",
                     !.cond = Holiday]

MCPolicyRows == {Everywhere, Downtown, Citywide}

MCPolicyPatches ==
  {[priority |-> 2], [price |-> Capped],
   [scope |-> "CITY", city |-> c1, zone |-> NoZone],
   [scope |-> "ZONE", city |-> NoCity, zone |-> z2],
   [scope |-> "GLOBAL", city |-> NoCity, zone |-> NoZone],
   [from |-> 1], [to |-> 1]}

Cheap == [base |-> 1, perKm |-> 1, perMin |-> 1, min |-> 2]
Dear == [base |-> 2, perKm |-> 1, perMin |-> 1, min |-> 2]

\* created is replaced by what the insertion gives it.
Economy ==
  [status |-> "live", created |-> 0, active |-> TRUE, classes |-> {s1}, rates |-> Dear]
Standard == [status |-> "live", created |-> 0, mult |-> DefaultMultipliers]
Town == [status |-> "live", created |-> 0, active |-> TRUE, tz |-> "local", drawn |-> TRUE]
Quarter == [status |-> "live", created |-> 0, active |-> TRUE, priority |-> 1]

MCTypeRows == {Economy}
MCTypePatches == {[rates |-> Dear], [active |-> FALSE], [classes |-> {s2}]}
MCClassRows == {Standard, [Standard EXCEPT !.mult.perKm = 150]}
MCCityRows == {Town, [Town EXCEPT !.active = FALSE, !.tz = UTC]}
MCZoneRows == {Quarter, [Quarter EXCEPT !.active = FALSE, !.priority = 0]}

MCSeed ==
  [policies |-> p1 :> [Everywhere EXCEPT !.created = -1] @@ p2 :> [Downtown EXCEPT !.cond = Night] @@ p3 :> Absent,
   cities |-> c1 :> Town,
   zones |-> z1 :> Quarter @@ z2 :> Absent,
   types |-> v1 :> [Economy EXCEPT !.rates = Cheap] @@ v2 :> Absent,
   classes |-> s1 :> Standard @@ s2 :> Absent]

=============================================================================
