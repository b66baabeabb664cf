CONSTANTS
  u1 = u1
  u2 = u2
  u3 = u3
  b1 = b1
  b2 = b2
  w1 = w1
  w2 = w2
  w3 = w3
  w4 = w4
  w5 = w5
  w6 = w6
  x = x
  NoOne = NoOne
  NoWord = NoWord
  NoAnswer = NoAnswer
  Users <- TwoUsers
  Host = u1
  Bots <- OneBot
  WordList <- SixWords
  FreeWords <- NoOtherWord
  Embedded <- ListEmbedded
  RoundChoices = {1, 2}
  BankChoices = {1, 2}
  BotsMayFail = TRUE
  MaxRerolls = 1
  MaxTally = 2
SPECIFICATION SeatedSpec
INVARIANTS
  TypeOK
  RosterMatchesOrder
  WordsPartitioned
  EveryPlayerHoldsWords
  VoteStaysOpen
  ScoresExplained
  DecidedInOrder
  NoVotesBetweenTurns
  SeatsTakeTurns
  FairShares
PROPERTIES
  VerdictIsFixed
  ChallengeStands
  DecidedStays
  KeepsTheRules
CONSTRAINT ShortGames
SYMMETRY WordSymmetry
CHECK_DEADLOCK FALSE
