SPECIFICATION LiveSpec

CONSTANTS
  d1 = d1
  v1 = v1
  d2 = d2
  Driver = {d1, d2}
  Departed = {d2}
  MaxRides = 2
  Vehicle = {v1}
  NoVehicle = NoVehicle
  NoDriver = NoDriver
  ClientReasons = {}
  BatchSize = 1
  MaxAge = 1
  MaxChanges = 1

INVARIANTS
  TypeOK
  FlagsAgree
  PointerMatchesRide
  AvailableWasFit

PROPERTIES
  SilentDriverGoesOffline

CHECK_DEADLOCK FALSE
