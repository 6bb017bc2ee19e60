SPECIFICATION Spec
CONSTANTS
  Key = {k1}
  Passenger = {p1, p2}
  Trip = {t1, t2}
  Worker = {w1, w2}
  NoKey = NoKey
  NoPassenger = NoPassenger
  NoTrip = NoTrip
  MaxAttempts = 2
  MaxFaults = 1
SYMMETRY Symmetry
INVARIANTS TypeOK OneTripPerKey ToldTripsExist FailedMadeNothing
PROPERTIES OutcomeIsFinal
