SPECIFICATION Spec
CONSTANTS
  Trip = {t1, t2}
  Driver = {d1}
  Assignment = {a1, a2, a3}
  Worker = {w1, w2}
  NoTrip = NoTrip
  NoDriver = NoDriver
  NoAssignment = NoAssignment
  MayReject = FALSE
  MaxFaults = 0
INVARIANTS
  OneTripPerDriver
