CONSTANTS
  p1 = p1
  p2 = p2
  Phones <- TwoPhones
  Base = 10
  MaxSends = 3
  MaxDrops = 1
SPECIFICATION Spec
INVARIANTS
  TypeOK
  CollisionsAreConcurrent
  SettledChatAgrees
PROPERTIES
  MessageArrives
CHECK_DEADLOCK FALSE
