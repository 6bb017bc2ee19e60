SPECIFICATION Spec
CONSTANTS
  Trip = {t1}
  Driver = {d1, d2}
  NoDriver = NoDriver
  Passenger = p
  Bystander = {q}
  MaxFaults = 1
  MaxWaiting = 2
SYMMETRY Symmetry
INVARIANTS
  TypeOK
  ToldIsLogged
  CaughtUp
CHECK_DEADLOCK FALSE
