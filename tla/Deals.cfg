CONSTANTS
  N = 5
  PlayerChoices = {1, 2, 3}
  BankChoices = {1, 2}
SPECIFICATION Spec
INVARIANTS
  DealIsComplete
PROPERTY
  DealsAtOnce
CHECK_DEADLOCK FALSE
