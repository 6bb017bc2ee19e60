SPECIFICATION Spec
CONSTANTS
  p1 = p1
  b1 = b1
  k1 = k1
  w1 = w1
  w2 = w2
  w3 = w3
  NoPlan = NoPlan
  NoBuyer = NoBuyer
  NoKey = NoKey
  Plan = {p1}
  Buyer = {b1}
  Key = {k1}
  Worker = {w1, w2, w3}
  Prices <- MCPrices
  Limit <- MCLimit
  MaxTx = 3
  MaxChanges = 2
INVARIANTS
  TypeOK
  WalletPaysForPlans
  PurchasesPerKey
SYMMETRY Symmetry
CHECK_DEADLOCK FALSE
