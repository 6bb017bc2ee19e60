SPECIFICATION Spec
CONSTANTS
  u1 = u1
  w1 = w1
  w2 = w2
  c1 = c1
  NoUser = NoUser
  User = {u1}
  FirstRoles = {"driver"}
  Handler = {w1, w2}
  Conn = {c1}
  MaxSessions = 1
  MaxTokens = 3
  MaxChanges = 2
INVARIANTS
  TypeOK
  ReplacedStaysReplaced
  LogoutHolds
  SocketsFollowSessions
SYMMETRY Symmetry
CHECK_DEADLOCK FALSE
