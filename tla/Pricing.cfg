SPECIFICATION PricingSpec
CONSTANTS
  p1 = p1
  p2 = p2
  p3 = p3
  c1 = c1
  z1 = z1
  z2 = z2
  v1 = v1
  v2 = v2
  s1 = s1
  s2 = s2
  t1 = t1
  a1 = a1
  a2 = a2
  Policy = {p1, p2, p3}
  NoPolicy = NoPolicy
  City = {c1}
  NoCity = NoCity
  Zone = {z1, z2}
  NoZone = NoZone
  VehicleType = {v1, v2}
  ServiceClass = {s1, s2}
  Trip = {t1}
  Admin = {a1, a2}
  CityOf <- MCCityOf
  Covers <- MCCovers
  Asked <- MCAsked
  Route <- MCRoute
  Offset <- MCOffset
  Day = 3
  Week = 2
  PolicyRows <- MCPolicyRows
  PolicyPatches <- MCPolicyPatches
  TypeRows <- MCTypeRows
  TypePatches <- MCTypePatches
  ClassRows <- MCClassRows
  CityRows <- MCCityRows
  ZoneRows <- MCZoneRows
  Seed <- MCSeed
  Take = 50
  Extras <- MCExtras
  MaxTime = 2
  MaxEdits = 3
SYMMETRY Symmetry
INVARIANTS
  PricesTyped
  PriceKept
PROPERTIES
  BestPolicyQuoted
CHECK_DEADLOCK FALSE
