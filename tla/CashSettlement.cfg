SPECIFICATION Spec
CONSTANTS
  d1 = d1
  o1 = o1
  o2 = o2
  c1 = c1
  Order <- MCOrder
  Trip = {t1, t2}
  Driver = {d1}
  Topup = {c1}
  Token = {s1}
  DriverOf <- MCDriverOf
  TopupDriver <- MCTopupDriver
  Fees = {1, 2}
  Credit = 3
  Deltas <- MCDeltas
  Worker = {w1, w2}
  NoDriver = NoDriver
  NoOrder = NoOrder
  NoTrip = NoTrip
  NoTopup = NoTopup
  MaxAdjustments = 1
  MaxEdits = 1
SYMMETRY Symmetry
INVARIANTS TypeOK OneMovementPerTransaction RecordsMatchLedger RevertMirrorsCommission CommissionFollowsOrder LedgerExplainsBalances
CHECK_DEADLOCK FALSE
