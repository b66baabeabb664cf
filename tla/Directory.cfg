CONSTANTS
  u1 = u1
  u2 = u2
  l1 = l1
  l2 = l2
  c1 = c1
  c2 = c2
  None = None
  Users = {u1, u2}
  Lobbies = {l1, l2}
  Codes = {c1, c2}
  MaxCalls = 3
SPECIFICATION Spec
INVARIANTS
  TypeOK
  ScreenIsSeated
  OneCodePerLobby
PROPERTIES
  SeatsAreKept
  HostHasCode
  ClosedMeansClosed
SYMMETRY Symmetry
CHECK_DEADLOCK FALSE
