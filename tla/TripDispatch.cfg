SPECIFICATION Spec
CONSTANTS
  Trip = {t1}
  Driver = {d1, d2}
  Assignment = {a1, a2, a3}
  Worker = {w1, w2}
  NoTrip = NoTrip
  NoDriver = NoDriver
  NoAssignment = NoAssignment
  MayReject = TRUE
  MaxFaults = 1
SYMMETRY Symmetry
INVARIANTS
  TypeOK
  OffersAreExclusive
  TablesConsistent
  EveryOfferIsWatched
PROPERTIES
  AnswerIsFinal
  ImplementsLifecycle
