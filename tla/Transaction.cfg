CONSTANTS
  join1 = join1
  join2 = join2
  start = start
  submit = submit
  m1 = m1
  Callers <- Calls
  Kind <- KindOf
  Messages <- OneMessage
  NoLobby = NoLobby
  Dealable <- OnePlayer
  MaxRetries = 3
SPECIFICATION Spec
INVARIANTS
  TypeOK
  AnswersTrue
  RetriesPaidFor
PROPERTIES
  ActsAtomically
  CallsEnd
CHECK_DEADLOCK FALSE
