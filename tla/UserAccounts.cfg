SPECIFICATION LiveSpec
CONSTANTS
  u1 = u1
  u2 = u2
  e1 = e1
  p1 = p1
  w1 = w1
  w2 = w2
  NoContact = NoContact
  NoOne = NoOne
  User = {u1, u2}
  Email = {e1}
  Phone = {p1}
  Tx = {w1, w2}
  MaxFaults = 1
  MaxPending = 1
INVARIANTS
  TypeOK
  ContactsUnique
  RegisteredHasCredentials
PROPERTIES
  EveryRequestEnds
CHECK_DEADLOCK FALSE
