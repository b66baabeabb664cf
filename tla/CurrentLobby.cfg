CONSTANTS
  u1 = u1
  u2 = u2
  l1 = l1
  l2 = l2
  c1 = c1
  c2 = c2
  None = None
  Users = {u1, u2}
  Lobbies = {l1, l2}
  Codes = {c1, c2}
  MaxCalls = 2
SPECIFICATION Spec
INVARIANTS
  MappingIsCurrent
CHECK_DEADLOCK FALSE
