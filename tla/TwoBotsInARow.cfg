CONSTANTS
  u1 = u1
  u2 = u2
  u3 = u3
  b1 = b1
  b2 = b2
  w1 = w1
  w2 = w2
  w3 = w3
  w4 = w4
  w5 = w5
  w6 = w6
  x = x
  NoOne = NoOne
  NoWord = NoWord
  NoAnswer = NoAnswer
  Users <- TwoUsers
  Host = u1
  Bots <- TwoBots
  WordList <- FourWords
  FreeWords <- OtherWord
  Embedded <- AllEmbedded
  RoundChoices = {1}
  BankChoices = {1}
  BotsMayFail = FALSE
  MaxRerolls = 0
  MaxTally = 2
SPECIFICATION SeatedSpec
INVARIANTS
  BotTurnServed
SYMMETRY WordSymmetry
CHECK_DEADLOCK FALSE
