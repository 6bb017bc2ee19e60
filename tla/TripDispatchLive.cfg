SPECIFICATION FairSpec
CONSTANTS
  Trip = {t1}
  Driver = {d1, d2}
  Assignment = {a1, a2, a3}
  Worker = {w1, w2}
  NoTrip = NoTrip
  NoDriver = NoDriver
  NoAssignment = NoAssignment
  MayReject = FALSE
  MaxFaults = 0
PROPERTIES
  EveryTripResolves
