CONSTANTS
  u1 = u1
  u2 = u2
  b1 = b1
  Seats <- TwoPhonesAndBot
  Bots <- OneBot
  Host = u1
  Rounds = {1}
  Flaky = {u1, u2}
  Impatient = {u2}
SPECIFICATION ScreenSpec
INVARIANTS
  OptionToChallenge
CHECK_DEADLOCK FALSE
