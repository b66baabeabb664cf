------------------------- MODULE PasswordGameProofs -------------------------
(***************************************************************************)
(* What PasswordGame guarantees for every set of users, bots and words, and*)
(* whoever calls the backend: types, the roster, the order of turns, words.*)
(***************************************************************************)
EXTENDS PasswordGame, SequenceTheorems, FunctionTheorems, FiniteSetTheorems, TLAPS

----------------------------------------------------------------------------
(******************************* The inductive invariant *******************)

\* ts is a good history for the order of play and the number of rounds.
GoodTurns(ts, order, rounds) ==
  /\ ts \in Seq(Turn)
  /\ Len(ts) \in 1..(rounds * Len(order))
  /\ \A i \in 1..Len(ts) : ts[i].player = order[((i - 1) % Len(order)) + 1]

\* Before the start nothing of the game is there, afterwards everything is.
GameState ==
  /\ status = "LOBBY" => jobs = {} /\ turns = <<>>
  /\ Started =>
       /\ settings \in Settings
       /\ players # {} /\ playerOrder \in Orders(players)
       /\ GoodTurns(turns, playerOrder, settings.numRounds)
       /\ status = "DONE" => Len(turns) = settings.numRounds * Len(playerOrder)

IInv == TypeOK /\ GameState

----------------------------------------------------------------------------
(******************************* Finite sets *******************************)

\* The ids are finitely many, so every set of voters can be counted.
LEMMA IdsFinite == IsFiniteSet(Ids)
<1>1. IsFiniteSet(1..Len(Bots))
  BY BotsAssumption, FS_Interval
<1>2. Bots \in Surjection(1..Len(Bots), BotIds)
  BY BotsAssumption DEF Surjection, BotIds
<1>3. IsFiniteSet(BotIds)
  BY <1>1, <1>2, FS_Surjection
<1> QED
  BY <1>3, UsersAssumption, FS_Union DEF Ids

\* Counting any subset of the ids gives a number.
LEMMA CountIds == ASSUME NEW S \in SUBSET Ids PROVE IsFiniteSet(S) /\ Cardinality(S) \in Nat
  BY IdsFinite, FS_Subset, FS_CardinalityType

\* An order of a set of players names its members, and is empty only when
\* there is none.
LEMMA OrdersType ==
  ASSUME NEW S \in SUBSET Ids, S # {}, NEW f \in Orders(S)
  PROVE  f \in Seq(Ids) /\ Len(f) \in Nat \ {0} /\ Len(f) = Cardinality(S)
<1>1. Cardinality(S) \in Nat
  BY CountIds
<1>2. f \in [1..Cardinality(S) -> S] /\ DOMAIN f # {}
  BY DEF Orders
<1> QED
  BY <1>1, <1>2

----------------------------------------------------------------------------
(**************************** The rules of the game ************************)

\* Scoring a turn leaves integer scores.
LEMMA ScoreTurnType ==
  ASSUME NEW sc \in [Ids -> Int], NEW t \in Turn
  PROVE  ScoreTurn(sc, t) \in [Ids -> Int]
<1>1. Cardinality(Challengers(t.votes)) \in Nat
  BY CountIds DEF Challengers
<1> QED
  BY <1>1 DEF ScoreTurn

\* Changing what the last turn says, not whose it is, keeps the history good.
LEMMA GoodTurnsExcept ==
  ASSUME NEW order \in Seq(Ids), NEW r \in Nat, NEW ts, GoodTurns(ts, order, r),
         NEW t \in Turn, t.player = ts[Len(ts)].player
  PROVE  /\ GoodTurns([ts EXCEPT ![Len(ts)] = t], order, r)
         /\ Len([ts EXCEPT ![Len(ts)] = t]) = Len(ts)
         /\ [ts EXCEPT ![Len(ts)] = t][Len(ts)] = t
<1> DEFINE total == r * Len(order)
           ts2 == [ts EXCEPT ![Len(ts)] = t]
<1>1. total \in Nat /\ ts \in Seq(Turn) /\ Len(ts) \in 1..total
  BY DEF GoodTurns
<1>2. ts2 \in Seq(Turn) /\ Len(ts2) = Len(ts) /\ ts2[Len(ts2)] = t
  <2> HIDE DEF total
  <2> QED BY <1>1
<1>3. \A i \in 1..Len(ts2) : ts2[i].player = ts[i].player
  <2> HIDE DEF total
  <2> QED BY <1>1, <1>2
<1> QED
  BY <1>1, <1>2, <1>3 DEF GoodTurns

\* startNextTurnOrEndGame: after a good history, or none, the next turn is
\* the next seat's, and the game is over only after the last round.
LEMMA StartNextOK ==
  ASSUME NEW order \in Seq(Ids), Len(order) > 0, NEW r \in Nat \ {0}, NEW ts,
         ts = <<>> \/ GoodTurns(ts, order, r),
         StartNextTurnOrEndGame(ts, order, r)
  PROVE  /\ GoodTurns(turns', order, r)
         /\ status' \in {"SUBMISSION", "DONE"}
         /\ status' = "DONE" => Len(turns') = r * Len(order)
<1> DEFINE total == r * Len(order)
<1>1. total \in Nat /\ total >= 1
  OBVIOUS
<1>2. ts \in Seq(Turn) /\ Len(ts) \in 0..total
  <2>1. CASE ts = <<>>
    BY <1>1, <2>1
  <2>2. CASE GoodTurns(ts, order, r)
    BY <1>1, <2>2 DEF GoodTurns
  <2> QED BY <2>1, <2>2
<1>3. CASE Len(ts) = total
  BY <1>1, <1>2, <1>3 DEF StartNextTurnOrEndGame, GoodTurns
<1>4. CASE Len(ts) # total
  <2> DEFINE p == order[(Len(ts) % Len(order)) + 1]
  <2>1. p \in Ids
    BY <1>2
  <2>2. NewTurn(p) \in Turn /\ NewTurn(p).player = p
    BY <2>1 DEF NewTurn, Turn, NoVotes, Vote, Verdict
  <2>3. turns' = Append(ts, NewTurn(p)) /\ status' = "SUBMISSION"
    BY <1>4 DEF StartNextTurnOrEndGame
  <2>4. /\ turns' \in Seq(Turn) /\ Len(turns') = Len(ts) + 1
        /\ \A i \in 1..Len(ts) : turns'[i] = ts[i]
        /\ turns'[Len(ts) + 1] = NewTurn(p)
    BY <1>2, <2>2, <2>3
  <2>5. Len(turns') \in 1..total
    <3> HIDE DEF total
    <3> QED BY <1>1, <1>2, <1>4, <2>4
  <2>6. ASSUME NEW i \in 1..Len(turns')
        PROVE  turns'[i].player = order[((i - 1) % Len(order)) + 1]
    <3>1. CASE i = Len(ts) + 1
      BY <3>1, <1>2, <2>2, <2>4
    <3>2. CASE i \in 1..Len(ts)
      <4>1. ts # <<>>
        BY <3>2
      <4>2. GoodTurns(ts, order, r)
        BY <4>1
      <4> QED BY <3>2, <4>2, <2>4 DEF GoodTurns
    <3> QED BY <3>1, <3>2, <2>4, <1>2
  <2>7. GoodTurns(turns', order, r)
    BY <2>4, <2>5, <2>6 DEF GoodTurns
  <2> QED BY <2>3, <2>7
<1> QED BY <1>3, <1>4

\* What a started game has on the table: a current turn, an order to go on
\* with, a number of rounds.
LEMMA OnTheTable ==
  ASSUME IInv, Started
  PROVE  /\ playerOrder \in Seq(Ids) /\ Len(playerOrder) > 0
         /\ settings.numRounds \in Nat \ {0}
         /\ turns \in Seq(Turn) /\ Len(turns) \in Nat \ {0} /\ Current \in Turn
         /\ GoodTurns(turns, playerOrder, settings.numRounds)
<1>1. playerOrder \in Seq(Ids) /\ Len(playerOrder) \in Nat \ {0}
  BY OrdersType DEF IInv, TypeOK, GameState
<1>2. settings.numRounds \in Nat \ {0}
  BY SettingsAssumption DEF IInv, GameState, Settings
<1>3. GoodTurns(turns, playerOrder, settings.numRounds)
  BY DEF IInv, GameState
<1>4. turns \in Seq(Turn) /\ Len(turns) \in Nat \ {0}
  BY <1>3 DEF GoodTurns
<1> QED
  BY <1>1, <1>2, <1>3, <1>4 DEF Current

\* A word that comes in leaves a good history and integer scores.
LEMMA WordSubmissionOK ==
  ASSUME IInv, Started, NEW w \in Words, HandleWordSubmission(w)
  PROVE  /\ GoodTurns(turns', playerOrder, settings.numRounds)
         /\ status' \in {"SUBMISSION", "VOTING", "DONE"}
         /\ status' = "DONE" => Len(turns') = settings.numRounds * Len(playerOrder)
         /\ score' \in [Ids -> Int] /\ awaitingBotVotes' \subseteq BotIds
<1> DEFINE last   == Len(turns)
           t      == [Current EXCEPT !.word = w]
           played == [turns EXCEPT ![last] = t]
           R      == settings.numRounds
<1>1. t \in Turn /\ t.player = turns[last].player
  <2>1. Current \in Turn
    BY OnTheTable
  <2>2. t \in Turn /\ t.player = Current.player
    BY <2>1 DEF Turn
  <2> QED BY <2>2 DEF Current
<1>2. GoodTurns(played, playerOrder, R) /\ Len(played) = last /\ played[last] = t
  <2>1. R \in Nat /\ playerOrder \in Seq(Ids) /\ GoodTurns(turns, playerOrder, R)
    BY OnTheTable
  <2> HIDE DEF t, R
  <2> QED BY <1>1, <2>1, GoodTurnsExcept
<1>3. played = [turns EXCEPT ![last].word = w]
  BY DEF Current
<1>4. CASE /\ status' = "VOTING" /\ turns' = played /\ UNCHANGED score
           /\ awaitingBotVotes' = (players \cap BotIds) \ {Current.player}
  BY <1>2, <1>4 DEF IInv, TypeOK
<1>5. ASSUME NEW o \in players,
             LET done == [played EXCEPT ![last].other = o]
             IN  /\ score' = ScoreTurn(score, done[last])
                 /\ StartNextTurnOrEndGame(done, playerOrder, R)
                 /\ UNCHANGED awaitingBotVotes
      PROVE  /\ GoodTurns(turns', playerOrder, R)
             /\ status' \in {"SUBMISSION", "DONE"}
             /\ status' = "DONE" => Len(turns') = R * Len(playerOrder)
             /\ score' \in [Ids -> Int] /\ awaitingBotVotes' \subseteq BotIds
  <2> DEFINE t2   == [t EXCEPT !.other = o]
             done == [played EXCEPT ![last] = t2]
  <2>1. t2 \in Turn /\ t2.player = played[last].player
    BY <1>1, <1>2 DEF IInv, TypeOK, Turn
  <2>2. GoodTurns(done, playerOrder, R) /\ done[last] = t2
    <3>1. R \in Nat /\ playerOrder \in Seq(Ids)
      BY OnTheTable
    <3>2. done = [played EXCEPT ![Len(played)] = t2] /\ done[last] = done[Len(played)]
          /\ t2 \in Turn /\ t2.player = played[Len(played)].player
          /\ GoodTurns(played, playerOrder, R)
      BY <1>2, <2>1
    <3> HIDE DEF t2, R, played, last, done
    <3>3. /\ GoodTurns([played EXCEPT ![Len(played)] = t2], playerOrder, R)
          /\ [played EXCEPT ![Len(played)] = t2][Len(played)] = t2
      BY <3>1, <3>2, GoodTurnsExcept
    <3> QED BY <3>2, <3>3
  <2>3. done = [played EXCEPT ![last].other = o]
    BY <1>2
  <2>4. score' = ScoreTurn(score, t2) /\ StartNextTurnOrEndGame(done, playerOrder, R)
    BY <1>5, <2>2, <2>3
  <2>5. score' \in [Ids -> Int]
    BY <2>1, <2>4, ScoreTurnType DEF IInv, TypeOK
  <2>6. awaitingBotVotes' \subseteq BotIds
    BY <1>5 DEF IInv, TypeOK
  <2> QED
    BY <2>2, <2>4, <2>5, <2>6, OnTheTable, StartNextOK
<1> QED
  BY <1>3, <1>4, <1>5 DEF HandleWordSubmission

\* So does a vote that comes in.
LEMMA VoteOK ==
  ASSUME IInv, Started, NEW vs \in [Ids -> Vote], HandleVote(vs)
  PROVE  /\ GoodTurns(turns', playerOrder, settings.numRounds)
         /\ status' \in {"SUBMISSION", "VOTING", "DONE"}
         /\ status' = "DONE" => Len(turns') = settings.numRounds * Len(playerOrder)
         /\ score' \in [Ids -> Int] /\ votes' \in [Ids -> Vote]
<1> DEFINE last == Len(turns)
           v    == IF Current.word \in targetWords[Current.player] THEN "own" ELSE "bluff"
           t    == [Current EXCEPT !.votes = vs, !.verdict = v]
           done == [turns EXCEPT ![last] = t]
           R    == settings.numRounds
<1>1. t \in Turn /\ t.player = turns[last].player
  <2>1. Current \in Turn /\ v \in Verdict
    BY OnTheTable DEF Verdict
  <2>2. t \in Turn /\ t.player = Current.player
    BY <2>1 DEF Turn
  <2> QED BY <2>2 DEF Current
<1>2. GoodTurns(done, playerOrder, R) /\ done[last] = t
  <2>1. R \in Nat /\ playerOrder \in Seq(Ids) /\ GoodTurns(turns, playerOrder, R)
    BY OnTheTable
  <2> HIDE DEF t, R
  <2> QED BY <1>1, <2>1, GoodTurnsExcept
<1>3. done = [turns EXCEPT ![last].votes = vs, ![last].verdict = v]
  BY OnTheTable DEF Current
<1>4. CASE /\ score' = ScoreTurn(score, t) /\ votes' = NoVotes
           /\ StartNextTurnOrEndGame(done, playerOrder, R)
  <2>1. score' \in [Ids -> Int] /\ votes' \in [Ids -> Vote]
    BY <1>1, <1>4, ScoreTurnType DEF IInv, TypeOK, NoVotes, Vote
  <2> QED
    BY <1>2, <1>4, <2>1, OnTheTable, StartNextOK
<1>5. CASE votes' = vs /\ status' = "VOTING" /\ UNCHANGED <<turns, score>>
  BY <1>5, OnTheTable DEF IInv, TypeOK
<1> QED
  BY <1>2, <1>3, <1>4, <1>5 DEF HandleVote

\* Triggers that fire start well-formed jobs.
LEMMA FireTriggersType ==
  ASSUME NEW running \in SUBSET Job, turns' \in Seq(Turn), awaitingBotVotes' \subseteq BotIds,
         FireTriggers(running)
  PROVE  jobs' \subseteq Job
<1>1. Len(turns') \in Nat
  OBVIOUS
<1>2. NewJob("turn", {}) \in Job /\ NewJob("vote", awaitingBotVotes') \in Job
  BY <1>1 DEF NewJob, Job, TurnJob, VoteJob
<1> QED
  BY <1>2 DEF FireTriggers

\* A step of a started game that keeps the roster and the rules and leaves a
\* good history keeps the game's state.
LEMMA StillPlaying ==
  ASSUME IInv, Started, UNCHANGED <<players, playerOrder, settings>>,
         status' \in {"SUBMISSION", "VOTING", "DONE"},
         GoodTurns(turns', playerOrder, settings.numRounds),
         status' = "DONE" => Len(turns') = settings.numRounds * Len(playerOrder)
  PROVE  GameState'
  BY DEF IInv, GameState, Started, GoodTurns, Orders

----------------------------------------------------------------------------
(******************************* Every step keeps it ***********************)

LEMMA InitIInv == Init => IInv
<1> SUFFICES ASSUME Init PROVE IInv
  OBVIOUS
<1>1. TypeOK
  <2>1. votes \in [Ids -> Vote] /\ score \in [Ids -> Int] /\ rerolls \in [Ids -> Nat]
    BY DEF Init, NoVotes, Vote
  <2>2. joining \in [Users -> SUBSET {"update", "mapping"}]
    BY DEF Init
  <2>3. targetWords \in [Ids -> SUBSET WordList]
    BY DEF Init
  <2>4. playerOrder \in Seq(Ids) /\ turns \in Seq(Turn)
    BY DEF Init
  <2>5. /\ settings = NoSettings /\ status = "LOBBY" /\ players = {} /\ startWord = NoWord
        /\ votesTallied = 0 /\ availableWords = {} /\ awaitingBotTurn = FALSE
        /\ awaitingBotVotes = {} /\ mapped = {} /\ jobs = {}
    BY DEF Init
  <2> QED BY <2>1, <2>2, <2>3, <2>4, <2>5 DEF TypeOK
<1>2. GameState
  BY DEF Init, GameState, Started
<1> QED BY <1>1, <1>2 DEF IInv

\* Joining and the host's addBot touch the roster before the start only.
LEMMA JoinsIInv == IInv /\ (Joins \/ \E u \in Users : AddBot(u)) => IInv'
<1> SUFFICES ASSUME IInv, NEW u \in Users,
                    JoinLobby(u) \/ JoinUpdate(u) \/ JoinMapping(u) \/ AddBot(u)
             PROVE  IInv'
  BY DEF Joins
<1> USE DEF roster, deal, rules, bots, table
<1>1. CASE JoinLobby(u)
  BY <1>1 DEF JoinLobby, IInv, TypeOK, GameState, Started, GoodTurns, Orders
<1>2. CASE JoinUpdate(u)
  <2>1. TypeOK'
    BY <1>2 DEF JoinUpdate, IInv, TypeOK, Ids
  <2>2. GameState'
    BY <1>2 DEF JoinUpdate, IInv, GameState, Started, GoodTurns, Orders
  <2> QED BY <2>1, <2>2 DEF IInv
<1>3. CASE JoinMapping(u)
  BY <1>3 DEF JoinMapping, IInv, TypeOK, GameState, Started, GoodTurns, Orders
<1>4. CASE AddBot(u)
  <2> DEFINE n == Cardinality(players \cap BotIds)
  <2>1. n \in Nat
    BY CountIds DEF Ids
  <2>2. Bots[n + 1] \in BotIds
    <3>1. n < Len(Bots)
      BY <1>4 DEF AddBot
    <3> HIDE DEF n
    <3> QED BY <2>1, <3>1, BotsAssumption
  <2>3. TypeOK'
    BY <1>4, <2>2 DEF AddBot, IInv, TypeOK, Ids
  <2>4. GameState'
    BY <1>4 DEF AddBot, IInv, GameState, Started, GoodTurns, Orders
  <2> QED BY <2>3, <2>4 DEF IInv
<1> QED BY <1>1, <1>2, <1>3, <1>4

\* startGame deals, orders the players and opens the first turn.
LEMMA StartGameIInv ==
  ASSUME IInv, NEW u \in Users, NEW r \in RoundChoices, NEW b \in BankChoices, StartGame(u, r, b)
  PROVE  IInv'
<1> USE DEF roster
<1>1. playerOrder' \in Orders(players) /\ players # {} /\ players \subseteq Ids
  BY DEF StartGame, IInv, TypeOK
<1>2. playerOrder' \in Seq(Ids) /\ Len(playerOrder') > 0
  BY <1>1, OrdersType
<1>3. r \in Nat \ {0} /\ settings' \in Settings /\ settings'.numRounds = r
  BY SettingsAssumption DEF StartGame, Settings
<1>4. /\ GoodTurns(turns', playerOrder', r)
      /\ status' \in {"SUBMISSION", "DONE"}
      /\ status' = "DONE" => Len(turns') = r * Len(playerOrder')
  BY <1>2, <1>3, StartNextOK DEF StartGame
<1>5. turns' \in Seq(Turn)
  BY <1>4 DEF GoodTurns
<1>6. jobs' \subseteq Job
  BY <1>5, FireTriggersType DEF StartGame, IInv, TypeOK
<1>7. /\ targetWords' \in [Ids -> SUBSET WordList]
      /\ availableWords' \subseteq WordList /\ startWord' \in WordList
  BY DEF StartGame, Banks
<1>8. awaitingBotTurn' \in BOOLEAN
  BY DEF StartGame, IInv, TypeOK, BotIsNext
<1>9. TypeOK'
  BY <1>2, <1>3, <1>4, <1>5, <1>6, <1>7, <1>8 DEF StartGame, IInv, TypeOK
<1>10. GameState'
  BY <1>1, <1>3, <1>4 DEF StartGame, GameState, Started, GoodTurns, Orders
<1> QED BY <1>9, <1>10 DEF IInv

\* A word that is submitted, by its player or by a bot's late commit.
LEMMA SubmissionsIInv ==
  ASSUME IInv, Started, NEW w \in Words, HandleWordSubmission(w), votesTallied' = 0,
         awaitingBotTurn' \in BOOLEAN, NEW running \in SUBSET Job, FireTriggers(running),
         UNCHANGED <<roster, deal, rules, votes, rerolls>>
  PROVE  IInv'
<1> USE DEF roster, deal, rules
<1>1. /\ GoodTurns(turns', playerOrder, settings.numRounds)
      /\ status' \in {"SUBMISSION", "VOTING", "DONE"}
      /\ status' = "DONE" => Len(turns') = settings.numRounds * Len(playerOrder)
      /\ score' \in [Ids -> Int] /\ awaitingBotVotes' \subseteq BotIds
  BY WordSubmissionOK
<1>2. turns' \in Seq(Turn)
  BY <1>1 DEF GoodTurns
<1>3. jobs' \subseteq Job
  BY <1>1, <1>2, FireTriggersType
<1>4. TypeOK'
  BY <1>1, <1>2, <1>3 DEF IInv, TypeOK
<1>5. GameState'
  BY <1>1, StillPlaying
<1> QED BY <1>4, <1>5 DEF IInv

\* A vote that is cast, by a user or by the bots' late commit.
LEMMA VotesIInv ==
  ASSUME IInv, Started, NEW vs \in [Ids -> Vote], HandleVote(vs), votesTallied' \in Nat,
         awaitingBotTurn' \in BOOLEAN, awaitingBotVotes' \subseteq BotIds,
         NEW running \in SUBSET Job, FireTriggers(running),
         UNCHANGED <<roster, deal, rules, rerolls>>
  PROVE  IInv'
<1> USE DEF roster, deal, rules
<1>1. /\ GoodTurns(turns', playerOrder, settings.numRounds)
      /\ status' \in {"SUBMISSION", "VOTING", "DONE"}
      /\ status' = "DONE" => Len(turns') = settings.numRounds * Len(playerOrder)
      /\ score' \in [Ids -> Int] /\ votes' \in [Ids -> Vote]
  BY VoteOK
<1>2. turns' \in Seq(Turn)
  BY <1>1 DEF GoodTurns
<1>3. jobs' \subseteq Job
  BY <1>2, FireTriggersType
<1>4. TypeOK'
  BY <1>1, <1>2, <1>3 DEF IInv, TypeOK
<1>5. GameState'
  BY <1>1, StillPlaying
<1> QED BY <1>4, <1>5 DEF IInv

\* The calls of the users during the game.
LEMMA GameCallsIInv == IInv /\ GameCalls => IInv'
<1> SUFFICES ASSUME IInv, NEW u \in Users,
                    \/ \E w \in Words : SubmitWord(u, w)
                    \/ RequestNewWords(u)
                    \/ \E v \in {"pass", "challenge"} : VoteOnWord(u, v)
             PROVE  IInv'
  BY DEF GameCalls
<1>1. ASSUME NEW w \in Words, SubmitWord(u, w) PROVE IInv'
  <2>1. Started /\ awaitingBotTurn' \in BOOLEAN
    BY <1>1 DEF SubmitWord, Started, IInv, TypeOK, BotIsNext
  <2>2. jobs \in SUBSET Job
    BY DEF IInv, TypeOK
  <2> QED BY <1>1, <2>1, <2>2, SubmissionsIInv DEF SubmitWord
<1>2. CASE RequestNewWords(u)
  <2>1. u \in Ids
    BY DEF Ids
  <2>2. targetWords' \in [Ids -> SUBSET WordList] /\ availableWords' \subseteq WordList
    BY <1>2, <2>1 DEF RequestNewWords, AssignNewWords, IInv, TypeOK
  <2>3. score' \in [Ids -> Int] /\ rerolls' \in [Ids -> Nat]
    BY <1>2, <2>1 DEF RequestNewWords, AssignNewWords, IInv, TypeOK
  <2>4. TypeOK'
    BY <1>2, <2>2, <2>3 DEF RequestNewWords, IInv, TypeOK, roster, rules, bots
  <2>5. GameState'
    BY <1>2 DEF RequestNewWords, IInv, GameState, Started, GoodTurns, Orders,
                roster, rules, bots
  <2> QED BY <2>4, <2>5 DEF IInv
<1>3. ASSUME NEW v \in {"pass", "challenge"}, VoteOnWord(u, v) PROVE IInv'
  <2>1. /\ Started /\ awaitingBotTurn' \in BOOLEAN /\ awaitingBotVotes' \subseteq BotIds
        /\ votesTallied' \in Nat
    BY <1>3 DEF VoteOnWord, Started, IInv, TypeOK, BotIsNext
  <2>2. [votes EXCEPT ![u] = v] \in [Ids -> Vote]
    BY DEF IInv, TypeOK, Vote
  <2>3. jobs \in SUBSET Job
    BY DEF IInv, TypeOK
  <2> QED BY <1>3, <2>1, <2>2, <2>3, VotesIInv DEF VoteOnWord
<1> QED BY <1>1, <1>2, <1>3

\* The bot handlers, whose commits validate nothing.
LEMMA BotsIInv == IInv /\ (BotSteps \/ BotErrors) => IInv'
<1> SUFFICES ASSUME IInv, NEW j \in jobs,
                    \/ \E a \in Words \cup {"pass", "challenge"} : BotAnswers(j, a)
                    \/ BotTurnCommits(j)
                    \/ \E chosen \in j.bots : BotVoteCommits(j, chosen)
                    \/ BotFails(j)
             PROVE  IInv'
  BY DEF BotSteps, BotErrors
<1>1. Started /\ jobs \in SUBSET Job /\ j \in Job /\ jobs \ {j} \in SUBSET Job
  BY DEF IInv, TypeOK, GameState, Started
<1>2. ASSUME jobs' \subseteq Job, Started,
             UNCHANGED <<roster, deal, rules, awaitingBotTurn, awaitingBotVotes, table, rerolls>>
      PROVE  IInv'
  <2>1. TypeOK'
    BY <1>2 DEF IInv, TypeOK, roster, deal, rules, table
  <2>2. GameState'
    BY <1>2 DEF IInv, GameState, Started, GoodTurns, Orders, roster, rules, table
  <2> QED BY <2>1, <2>2 DEF IInv
<1>3. ASSUME NEW a \in Words \cup {"pass", "challenge"}, BotAnswers(j, a) PROVE IInv'
  <2>1. CASE j.kind = "turn"
    <3>1. Current.player \in Ids
      BY <1>1, OnTheTable DEF Turn
    <3>2. a \in Words
      BY <1>3, <2>1, <3>1, WordsAssumption DEF BotAnswers, Answers, IInv, TypeOK, Words
    <3>3. [j EXCEPT !.answer = a] \in Job
      BY <1>1, <2>1, <3>2 DEF Job, TurnJob, VoteJob
    <3> QED BY <1>1, <1>2, <1>3, <3>3 DEF BotAnswers
  <2>2. CASE j.kind = "vote"
    <3>1. a \in {"pass", "challenge"}
      BY <1>3, <2>2 DEF BotAnswers, Answers
    <3>2. [j EXCEPT !.answer = a] \in Job
      BY <1>1, <2>2, <3>1 DEF Job, TurnJob, VoteJob
    <3> QED BY <1>1, <1>2, <1>3, <3>2 DEF BotAnswers
  <2> QED BY <1>1, <2>1, <2>2 DEF Job, TurnJob, VoteJob
<1>4. CASE BotTurnCommits(j)
  <2>1. j.answer \in Words
    BY <1>1, <1>4 DEF BotTurnCommits, Answered, Job, TurnJob, VoteJob
  <2> QED BY <1>1, <1>4, <2>1, SubmissionsIInv DEF BotTurnCommits
<1>5. ASSUME NEW chosen \in j.bots, BotVoteCommits(j, chosen) PROVE IInv'
  <2>1. j \in VoteJob /\ j.answer \in {"pass", "challenge"}
    BY <1>1, <1>5 DEF BotVoteCommits, Answered, Job, TurnJob, VoteJob
  <2>2. BotBallot(j, chosen) \in [Ids -> Vote]
    BY <2>1 DEF BotBallot, IInv, TypeOK, Vote
  <2>3. Cardinality(j.bots) \in Nat
    BY <2>1, CountIds DEF VoteJob, Ids
  <2>4. /\ awaitingBotTurn' \in BOOLEAN /\ awaitingBotVotes' \subseteq BotIds
        /\ votesTallied' \in Nat
    BY <1>5, <2>3 DEF BotVoteCommits, IInv, TypeOK, BotIsNext
  <2> QED BY <1>1, <1>5, <2>2, <2>4, VotesIInv DEF BotVoteCommits
<1>6. CASE BotFails(j)
  BY <1>1, <1>2, <1>6 DEF BotFails
<1> QED BY <1>3, <1>4, <1>5, <1>6

\* No step, allowed or not, leaves the invariant.
LEMMA NextIInv == IInv /\ [Next]_vars => IInv'
<1> SUFFICES ASSUME IInv, [Next]_vars PROVE IInv'
  OBVIOUS
<1>1. CASE HostCalls
  BY <1>1, JoinsIInv, StartGameIInv DEF HostCalls
<1>2. CASE UNCHANGED vars
  BY <1>2 DEF vars, roster, deal, rules, bots, table, IInv, TypeOK, GameState, Started,
              GoodTurns, Orders
<1> QED
  BY <1>1, <1>2, JoinsIInv, GameCallsIInv, BotsIInv DEF Next

----------------------------------------------------------------------------
(******************************* The theorems ******************************)

\* Whatever is called in whatever order, the lobby's record keeps its types:
\* bots' and users' commits write words, votes and jobs where they belong.
THEOREM TypeCorrect == Spec => []TypeOK
<1>1. IInv => TypeOK
  BY DEF IInv
<1> QED BY <1>1, InitIInv, NextIInv, PTL DEF Spec

\* Once startGame has committed, the order of play names every player of the
\* lobby once: no join, no addBot and no late commit seats anybody else.
THEOREM RosterFrozen == Spec => []RosterMatchesOrder
<1>1. IInv => RosterMatchesOrder
  BY DEF IInv, GameState, RosterMatchesOrder
<1> QED BY <1>1, InitIInv, NextIInv, PTL DEF Spec

\* The turns go round the table in the order of play and stop after the last
\* round, also when bot commits arrive late and outsiders vote.
THEOREM TurnsAlternate == Spec => []SeatsTakeTurns
<1>1. IInv => SeatsTakeTurns
  BY DEF IInv, GameState, SeatsTakeTurns, GoodTurns
<1> QED BY <1>1, InitIInv, NextIInv, PTL DEF Spec

----------------------------------------------------------------------------
(****************************** Equal shares *******************************)

\* Division with a rest.
LEMMA DivisionWithRest ==
  ASSUME NEW a \in Int, NEW L \in Nat \ {0}
  PROVE  a \div L \in Int /\ a % L \in 0..(L - 1) /\ a = (a \div L) * L + (a % L)
  OBVIOUS

\* Whole multiples are ordered as their factors are.
LEMMA MultiplesOrdered ==
  ASSUME NEW L \in Nat \ {0}, NEW x \in Int, NEW y \in Int
  PROVE  /\ x * L \in Int /\ y * L \in Int /\ (x + 1) * L = x * L + L
         /\ x <= y => x * L <= y * L
         /\ x * L < y * L => x < y
<1>1. x * L \in Int /\ y * L \in Int /\ (x + 1) * L = x * L + L
  OBVIOUS
<1>2. x <= y => x * L <= y * L
  <2>1. SUFFICES ASSUME x <= y  PROVE x * L <= y * L
    OBVIOUS
  <2>2. y - x \in Nat
    BY <2>1
  <2>3. \A d \in Nat : d * L \in Nat
    OBVIOUS
  <2>4. (y - x) * L \in Nat
    BY <2>2, <2>3
  <2>5. (y - x) * L = y * L - x * L
    OBVIOUS
  <2> QED
    BY <1>1, <2>4, <2>5
<1>3. y <= x => y * L <= x * L
  <2>1. SUFFICES ASSUME y <= x  PROVE y * L <= x * L
    OBVIOUS
  <2>2. x - y \in Nat
    BY <2>1
  <2>3. \A d \in Nat : d * L \in Nat
    OBVIOUS
  <2>4. (x - y) * L \in Nat
    BY <2>2, <2>3
  <2>5. (x - y) * L = x * L - y * L
    OBVIOUS
  <2> QED
    BY <1>1, <2>4, <2>5
<1> QED
  BY <1>1, <1>2, <1>3

LEMMA DivisionUnique ==
  ASSUME NEW L \in Nat \ {0}, NEW x \in Int, NEW r \in 0..(L - 1)
  PROVE  (x * L + r) \div L = x /\ (x * L + r) % L = r
<1> DEFINE a == x * L + r
           d == a \div L
           e == a % L
<1>1. a \in Int
  OBVIOUS
<1>2. d \in Int /\ e \in 0..(L - 1) /\ a = d * L + e
  BY <1>1, DivisionWithRest
<1>3. a = x * L + r
  OBVIOUS
<1> HIDE DEF a, d, e
<1>4. ~ x < d
  <2>1. x < d => (x + 1) * L <= d * L
    BY <1>2, MultiplesOrdered
  <2>2. (x + 1) * L = x * L + L /\ x * L \in Int /\ d * L \in Int
    BY <1>2, MultiplesOrdered
  <2> QED
    BY <2>1, <2>2, <1>2, <1>3
<1>5. ~ d < x
  <2>1. d < x => (d + 1) * L <= x * L
    BY <1>2, MultiplesOrdered
  <2>2. (d + 1) * L = d * L + L /\ x * L \in Int /\ d * L \in Int
    BY <1>2, MultiplesOrdered
  <2> QED
    BY <2>1, <2>2, <1>2, <1>3
<1>6. d = x
  BY <1>2, <1>4, <1>5
<1>7. e = r
  <2>1. x * L \in Int
    BY MultiplesOrdered
  <2> QED
    BY <2>1, <1>2, <1>3, <1>6
<1> QED
  BY <1>6, <1>7 DEF a, d, e

\* Of T turns in a row among L seats, the j-th seat's are one in every L.
LEMMA RoundRobin ==
  ASSUME NEW L \in Nat \ {0}, NEW T \in Nat, NEW j \in 1..L
  PROVE  /\ IsFiniteSet({i \in 1..T : ((i - 1) % L) + 1 = j})
         /\ Cardinality({i \in 1..T : ((i - 1) % L) + 1 = j}) = (T + L - j) \div L
<1> DEFINE S == {i \in 1..T : ((i - 1) % L) + 1 = j}
           q == (T + L - j) \div L
           e == (T + L - j) % L
           f == [k \in 1..q |-> (k - 1) * L + j]
<1>1. q \in Int /\ e \in 0..(L - 1) /\ T + L - j = q * L + e
  <2>1. T + L - j \in Int
    OBVIOUS
  <2> QED
    BY <2>1, DivisionWithRest
<1>2. q \in Nat
  <2> HIDE DEF q, e
  <2>1. ~ q + 1 <= 0
    <3>1. q + 1 <= 0 => (q + 1) * L <= 0 * L
      BY <1>1, MultiplesOrdered
    <3>2. (q + 1) * L = q * L + L /\ 0 * L = 0 /\ q * L \in Int
      BY <1>1, MultiplesOrdered
    <3> QED
      BY <3>1, <3>2, <1>1
  <2> QED
    BY <2>1, <1>1
<1> HIDE DEF q, e
<1>3. ASSUME NEW k \in 1..q
      PROVE  /\ (k - 1) * L + j \in S
             /\ ((k - 1) * L + j - 1) \div L = k - 1
  <2>1. (k - 1) * L \in Int /\ 0 * L <= (k - 1) * L /\ (k - 1) * L <= (q - 1) * L /\ 0 * L = 0
    <3>1. k - 1 \in Int /\ 0 <= k - 1 /\ k - 1 <= q - 1 /\ q - 1 \in Int
      BY <1>1
    <3> QED
      BY <3>1, MultiplesOrdered
  <2>2. q * L = (q - 1) * L + L /\ (q - 1) * L \in Int
    BY <1>1
  <2>3. (k - 1) * L + j \in 1..T
    BY <2>1, <2>2, <1>1
  <2>4. k - 1 \in Int /\ j - 1 \in 0..(L - 1)
    BY <1>1
  <2>5. ((k - 1) * L + (j - 1)) \div L = k - 1 /\ ((k - 1) * L + (j - 1)) % L = j - 1
    BY <2>4, DivisionUnique
  <2>6. (k - 1) * L + (j - 1) = (k - 1) * L + j - 1
    BY <2>1
  <2>7. ((k - 1) * L + j - 1) % L = j - 1 /\ ((k - 1) * L + j - 1) \div L = k - 1
    BY <2>5, <2>6
  <2> QED
    BY <2>3, <2>7
<1>4. ASSUME NEW i \in S  PROVE \E k \in 1..q : (k - 1) * L + j = i
  <2>1. i \in 1..T /\ (i - 1) % L = j - 1
    <3>1. (i - 1) % L \in 0..(L - 1)
      BY DivisionWithRest
    <3> QED
      BY <3>1
  <2> DEFINE d == (i - 1) \div L
  <2>2. d \in Int /\ i - 1 = d * L + (j - 1) /\ d * L \in Int
    <3>1. i - 1 \in Int
      BY <2>1
    <3>2. d \in Int /\ i - 1 = d * L + ((i - 1) % L)
      BY <3>1, DivisionWithRest
    <3> HIDE DEF d
    <3> QED
      BY <3>2, <2>1, MultiplesOrdered
  <2> HIDE DEF d
  <2>3. ~ d + 1 <= 0
    <3>1. d + 1 <= 0 => (d + 1) * L <= 0 * L
      BY <2>2, MultiplesOrdered
    <3>2. (d + 1) * L = d * L + L /\ 0 * L = 0
      BY <2>2, MultiplesOrdered
    <3> QED
      BY <3>1, <3>2, <2>1, <2>2
  <2>4. (d + 1) * L < (q + 1) * L
    <3>1. (d + 1) * L = d * L + L /\ (q + 1) * L = q * L + L /\ q * L \in Int
      BY <1>1, <2>2, MultiplesOrdered
    <3> QED
      BY <3>1, <2>1, <2>2, <1>1
  <2>5. d + 1 < q + 1
    BY <1>1, <2>2, <2>4, MultiplesOrdered
  <2>6. PICK k \in Int : k = d + 1
    BY <2>2
  <2>7. k \in 1..q /\ k - 1 = d
    BY <1>2, <2>2, <2>3, <2>5, <2>6
  <2>8. (k - 1) * L + j = i
    <3>1. (k - 1) * L = d * L
      BY <2>7
    <3> QED
      BY <3>1, <2>1, <2>2
  <2> QED
    BY <2>7, <2>8
<1>5. f \in [1..q -> S]
  BY <1>3
<1>6. ASSUME NEW k \in 1..q, NEW l \in 1..q, f[k] = f[l]  PROVE k = l
  <2>1. (k - 1) * L + j = (l - 1) * L + j
    BY <1>6
  <2>2. k - 1 = l - 1
    BY <2>1, <1>3
  <2> QED
    BY <2>2
<1>7. \A i \in S : \E k \in 1..q : f[k] = i
  BY <1>4
<1> HIDE DEF f, S
<1>8. ExistsBijection(1..q, S)
  BY <1>5, <1>6, <1>7, Fun_IsBij DEF ExistsBijection
<1>9. IsFiniteSet(1..q) /\ Cardinality(1..q) = q
  BY <1>2, FS_Interval
<1>10. IsFiniteSet(S) /\ Cardinality(S) = q
  BY <1>8, <1>9, FS_Bijection
<1> QED
  BY <1>10 DEF S, q

\* A player's turns are those of its one seat.
LEMMA SeatOfPlayer ==
  ASSUME IInv, Started, NEW p \in players
  PROVE  \E j \in 1..Len(playerOrder) : TurnsOf(p) = (Len(turns) + Len(playerOrder) - j) \div Len(playerOrder)
<1> DEFINE L == Len(playerOrder)
           T == Len(turns)
<1>1. /\ playerOrder \in Orders(players) /\ GoodTurns(turns, playerOrder, settings.numRounds)
      /\ IsFiniteSet(players)
  BY IdsFinite, FS_Subset DEF IInv, GameState, TypeOK
<1>2. /\ Cardinality(players) \in Nat /\ L = Cardinality(players) /\ T \in Nat
      /\ playerOrder \in [1..L -> players] /\ \A q \in players : \E i \in 1..L : playerOrder[i] = q
  BY <1>1, FS_CardinalityType DEF Orders, GoodTurns
<1>3. \A i, j \in 1..L : playerOrder[i] = playerOrder[j] => i = j
  <2>1. playerOrder \in Surjection(1..L, players)
    BY <1>2 DEF Surjection
  <2>2. IsFiniteSet(1..L) /\ Cardinality(1..L) = L
    BY <1>2, FS_Interval
  <2>3. playerOrder \in Injection(1..L, players)
    BY <2>1, <2>2, <1>2, FS_Surjection
  <2> QED
    BY <2>3 DEF Injection, IsInjective
<1>4. PICK j \in 1..L : playerOrder[j] = p
  BY <1>2
<1>5. L \in Nat \ {0}
  BY <1>2, <1>4
<1>6. \A i \in 1..T : turns[i].player = playerOrder[((i - 1) % L) + 1]
  BY <1>1 DEF GoodTurns
<1> HIDE DEF L, T
<1>7. ASSUME NEW i \in 1..T  PROVE turns[i].player = p <=> ((i - 1) % L) + 1 = j
  <2>1. i - 1 \in Int
    BY <1>2
  <2>2. (i - 1) % L \in 0..(L - 1)
    BY <2>1, <1>5, DivisionWithRest
  <2>3. ((i - 1) % L) + 1 \in 1..L
    BY <2>2, <1>5
  <2> QED
    BY <2>3, <1>3, <1>4, <1>6
<1>8. {i \in 1..T : turns[i].player = p} = {i \in 1..T : ((i - 1) % L) + 1 = j}
  BY <1>7
<1>9. Cardinality({i \in 1..T : ((i - 1) % L) + 1 = j}) = (T + L - j) \div L
  BY <1>2, <1>5, RoundRobin
<1> QED
  BY <1>8, <1>9 DEF TurnsOf, L, T

\* Turns and seats can be counted, and the rounds are a number.
LEMMA LengthsCount ==
  ASSUME IInv, Started
  PROVE  Len(turns) \in Nat /\ Len(playerOrder) \in Nat \ {0} /\ settings.numRounds \in Nat
<1>1. /\ settings \in Settings /\ GoodTurns(turns, playerOrder, settings.numRounds)
      /\ players # {} /\ playerOrder \in Orders(players) /\ IsFiniteSet(players)
  BY IdsFinite, FS_Subset DEF IInv, GameState, TypeOK
<1>2. settings.numRounds \in Nat
  BY <1>1, SettingsAssumption DEF Settings
<1>3. Len(turns) \in Nat
  <2>1. turns \in Seq(Turn)
    BY <1>1 DEF GoodTurns
  <2> QED
    BY <2>1
<1>4. Cardinality(players) \in Nat \ {0}
  BY <1>1, FS_CardinalityType, FS_EmptySet
<1> QED
  BY <1>1, <1>2, <1>3, <1>4 DEF Orders

\* R rounds among L seats give each of them R turns.
LEMMA WholeRounds ==
  ASSUME NEW L \in Nat \ {0}, NEW R \in Nat, NEW j \in 1..L
  PROVE  (R * L + L - j) \div L = R
<1>1. PICK r \in 0..(L - 1) : r = L - j
  OBVIOUS
<1>2. R * L + L - j = R * L + r
  BY <1>1, MultiplesOrdered
<1>3. (R * L + r) \div L = R
  BY DivisionUnique
<1> QED
  BY <1>2, <1>3

\* Two seats' shares of T turns differ by one at most.
LEMMA SharesClose ==
  ASSUME NEW L \in Nat \ {0}, NEW T \in Nat, NEW j \in 1..L, NEW k \in 1..L
  PROVE  (T + L - j) \div L <= ((T + L - k) \div L) + 1
<1>1. PICK a \in Int, d \in 0..(L - 1) : a = (T + L - j) \div L /\ T + L - j = a * L + d
  <2>1. T + L - j \in Int
    OBVIOUS
  <2> QED
    BY <2>1, DivisionWithRest
<1>2. PICK c \in Int, e \in 0..(L - 1) : c = (T + L - k) \div L /\ T + L - k = c * L + e
  <2>1. T + L - k \in Int
    OBVIOUS
  <2> QED
    BY <2>1, DivisionWithRest
<1>3. a * L \in Int /\ c * L \in Int /\ (c + 1) * L = c * L + L /\ (c + 1 + 1) * L = (c + 1) * L + L
  BY MultiplesOrdered
<1>4. a * L < (c + 1 + 1) * L
  BY <1>1, <1>2, <1>3
<1>5. a < c + 1 + 1
  BY <1>4, MultiplesOrdered
<1> QED
  BY <1>1, <1>2, <1>5

\* Everybody plays as often as everybody else, to within the round under way,
\* and in a finished game once in every round: the seats' modulo, the strict
\* equality that ends the game and the frozen roster fit together.
THEOREM SharesAreFair == Spec => []FairShares
<1>1. ASSUME IInv, Started, NEW p \in players, NEW q \in players  PROVE TurnsOf(p) <= TurnsOf(q) + 1
  <2>1. PICK j \in 1..Len(playerOrder) :
          TurnsOf(p) = (Len(turns) + Len(playerOrder) - j) \div Len(playerOrder)
    BY <1>1, SeatOfPlayer
  <2>2. PICK k \in 1..Len(playerOrder) :
          TurnsOf(q) = (Len(turns) + Len(playerOrder) - k) \div Len(playerOrder)
    BY <1>1, SeatOfPlayer
  <2>3. Len(turns) \in Nat /\ Len(playerOrder) \in Nat \ {0}
    BY <1>1, <2>1, LengthsCount
  <2> QED
    BY <2>1, <2>2, <2>3, SharesClose
<1>2. ASSUME IInv, status = "DONE", NEW p \in players  PROVE TurnsOf(p) = settings.numRounds
  <2>1. Started
    BY <1>2 DEF Started
  <2>2. PICK j \in 1..Len(playerOrder) :
          TurnsOf(p) = (Len(turns) + Len(playerOrder) - j) \div Len(playerOrder)
    BY <1>2, <2>1, SeatOfPlayer
  <2>3. /\ Len(turns) \in Nat /\ Len(playerOrder) \in Nat \ {0} /\ settings.numRounds \in Nat
        /\ Len(turns) = settings.numRounds * Len(playerOrder)
    BY <1>2, <2>1, <2>2, LengthsCount DEF IInv, GameState
  <2> QED
    BY <2>2, <2>3, WholeRounds
<1>3. IInv => FairShares
  <2> SUFFICES ASSUME IInv  PROVE FairShares
    OBVIOUS
  <2> QED
    BY <1>1, <1>2 DEF FairShares
<1> QED BY <1>3, InitIInv, NextIInv, PTL DEF Spec

----------------------------------------------------------------------------
(******************************** The words ********************************)

\* Together with the types and the players' order, the words' two invariants
\* carry each other: a swap deals a bank because the sizes are positive.
WInv == IInv /\ WordsPartitioned /\ EveryPlayerHoldsWords

----------------------------------------------------------------------------
\* A set of words of the list is empty exactly when it counts none.
LEMMA CountWords ==
  ASSUME NEW S \in SUBSET WordList
  PROVE  Cardinality(S) \in Nat /\ (Cardinality(S) = 0 <=> S = {})
<1>1. IsFiniteSet(S)
  BY WordsAssumption, FS_Subset
<1> QED BY <1>1, FS_CardinalityType, FS_EmptySet

\* A step that leaves the words and the players of a started game alone, and
\* does not start it, keeps both invariants.
LEMMA WordsUntouched ==
  ASSUME WordsPartitioned, EveryPlayerHoldsWords, Started' => Started,
         Started => UNCHANGED <<deal, players>>
  PROVE  WordsPartitioned' /\ EveryPlayerHoldsWords'
<1>1. CASE Started
  <2>1. UNCHANGED <<targetWords, availableWords, startWord, players>>
    BY <1>1 DEF deal
  <2> QED BY <1>1, <2>1 DEF WordsPartitioned, EveryPlayerHoldsWords
<1>2. CASE ~ Started
  BY <1>2 DEF WordsPartitioned, EveryPlayerHoldsWords
<1> QED BY <1>1, <1>2

\* getGameWords deals the list out.
LEMMA DealtOut ==
  ASSUME IInv, NEW u \in Users, NEW r \in RoundChoices, NEW b \in BankChoices, StartGame(u, r, b)
  PROVE  WordsPartitioned' /\ EveryPlayerHoldsWords'
<1>1. /\ startWord' \in WordList /\ targetWords' \in Banks(b, startWord')
      /\ availableWords' = WordList \ ({startWord'} \cup UNION {targetWords'[p] : p \in Ids})
      /\ players' = players /\ players \subseteq Ids
  BY DEF StartGame, roster, IInv, TypeOK
<1>2. /\ targetWords' \in [Ids -> SUBSET (WordList \ {startWord'})]
      /\ \A p, q \in Ids : p # q => targetWords'[p] \cap targetWords'[q] = {}
      /\ \A p \in Ids : Cardinality(targetWords'[p]) = IF p \in players THEN b ELSE 0
  BY <1>1 DEF Banks
<1>3. WordsPartitioned'
  BY <1>1, <1>2 DEF WordsPartitioned
<1>4. b \in Nat /\ b # 0
  BY SettingsAssumption
<1>5. \A p \in Ids : targetWords'[p] # {} <=> p \in players
  <2> SUFFICES ASSUME NEW p \in Ids PROVE targetWords'[p] # {} <=> p \in players
    OBVIOUS
  <2>1. targetWords'[p] \in SUBSET WordList
    BY <1>2
  <2> QED BY <1>2, <1>4, <2>1, CountWords
<1> QED BY <1>1, <1>3, <1>5 DEF EveryPlayerHoldsWords

\* The deals of AtomicDeal and Dealing number the words and the players; word
\* and seat undo that.  This is what initializeGame writes under private.
Dealt == INSTANCE DealRules

BankRead(S, word) == {word[k] : k \in S}
BanksRead(f, seat, word) ==
  [p \in Ids |-> IF p \in players THEN BankRead(f[seat[p]], word) ELSE {}]

LEMMA DealtCount == \A S : Dealt!Cardinality(S) = Cardinality(S)
  BY DEF Dealt!Cardinality, Cardinality

\* A bank has as many words as numbers.
LEMMA WordsOfNumbers ==
  ASSUME NEW m \in Nat, NEW word \in Bijection(1..m, WordList), NEW S \in SUBSET (1..m)
  PROVE  Cardinality(BankRead(S, word)) = Cardinality(S)
<1> DEFINE T == {word[k] : k \in S}
           g == [k \in S |-> word[k]]
<1>1. \A j, k \in 1..m : word[j] = word[k] => j = k
  BY DEF Bijection, Injection, IsInjective
<1>2. IsFiniteSet(S)
  <2>1. 1 \in Int /\ m \in Int
    OBVIOUS
  <2>2. IsFiniteSet(1..m)
    BY <2>1, FS_Interval
  <2> QED
    BY <2>2, FS_Subset
<1>3. g \in [S -> T] /\ (\A j, k \in S : g[j] = g[k] => j = k) /\ (\A w \in T : \E k \in S : g[k] = w)
  BY <1>1
<1> HIDE DEF g, T
<1>4. ExistsBijection(S, T)
  BY <1>3, Fun_IsBij DEF ExistsBijection
<1>5. Cardinality(T) = Cardinality(S)
  BY <1>2, <1>4, FS_Bijection
<1> QED
  BY <1>5 DEF T, BankRead

\* Whatever getGameWords hands out (by DealsImplementDeal in DealingProofs, a
\* deal by these rules), numbered in whatever way the list and the players are,
\* is one that StartGame may choose; and both refuse for the same sizes.
THEOREM EveryDealMayStart ==
  ASSUME players \subseteq Ids, NEW m \in Nat, NEW word \in Bijection(1..m, WordList),
         NEW n \in Nat, NEW seat \in Bijection(players, 1..n), NEW b \in Nat,
         NEW start \in 1..m, NEW f \in Dealt!Banks(1..m, 1..n, b, start)
  PROVE  /\ word[start] \in WordList
         /\ BanksRead(f, seat, word) \in Banks(b, word[start])
         /\ BankRead(Dealt!Rest(1..m, f, start), word)
              = WordList \ ({word[start]} \cup UNION {BanksRead(f, seat, word)[p] : p \in Ids})
         /\ Dealt!WordsNeeded(1..n, b) <= Cardinality(1..m)
              <=> Cardinality(players) * b + 1 <= Cardinality(WordList)
<1> DEFINE read == BanksRead(f, seat, word)
<1>1. /\ word \in [1..m -> WordList]
      /\ \A j, k \in 1..m : word[j] = word[k] => j = k
      /\ \A w \in WordList : \E k \in 1..m : word[k] = w
  BY DEF Bijection, Injection, Surjection, IsInjective
<1>2. /\ seat \in [players -> 1..n]
      /\ \A p, q \in players : seat[p] = seat[q] => p = q
      /\ \A j \in 1..n : \E p \in players : seat[p] = j
  BY DEF Bijection, Injection, Surjection, IsInjective
<1>3. /\ f \in [1..n -> SUBSET ((1..m) \ {start})]
      /\ \A j \in 1..n : Cardinality(f[j]) = b
      /\ \A j, k \in 1..n : j # k => f[j] \cap f[k] = {}
  BY DealtCount DEF Dealt!Banks
<1>4. /\ \A p \in players : read[p] = BankRead(f[seat[p]], word)
      /\ \A p \in Ids \ players : read[p] = {}
      /\ read = [p \in Ids |-> read[p]]
  <2>1. \A p \in players : read[p] = BankRead(f[seat[p]], word)
    BY DEF BanksRead
  <2>2. \A p \in Ids \ players : read[p] = {}
    BY DEF BanksRead
  <2>3. read = [p \in Ids |-> read[p]]
    BY DEF BanksRead
  <2> QED
    BY <2>1, <2>2, <2>3
<1> HIDE DEF read
<1>held. ASSUME NEW p \in players, NEW w  PROVE w \in read[p] <=> \E k \in f[seat[p]] : w = word[k]
  <2>1. read[p] = BankRead(f[seat[p]], word)
    BY <1>4
  <2> QED
    BY <2>1 DEF BankRead
<1>5. \A p \in players : f[seat[p]] \subseteq (1..m) \ {start} /\ Cardinality(f[seat[p]]) = b
  BY <1>2, <1>3
<1>6. ASSUME NEW p \in players  PROVE read[p] \subseteq WordList \ {word[start]} /\ Cardinality(read[p]) = b
  <2>1. f[seat[p]] \subseteq 1..m /\ start \notin f[seat[p]] /\ Cardinality(f[seat[p]]) = b
    BY <1>5
  <2>2. read[p] \subseteq WordList \ {word[start]}
    BY <1>1, <1>held, <2>1
  <2>3. Cardinality(BankRead(f[seat[p]], word)) = b
    BY <2>1, WordsOfNumbers
  <2> QED
    BY <1>4, <2>2, <2>3
<1>7. ASSUME NEW p \in Ids, NEW q \in Ids, p # q  PROVE read[p] \cap read[q] = {}
  <2>1. CASE p \in players /\ q \in players
    <3>1. seat[p] \in 1..n /\ seat[q] \in 1..n /\ seat[p] # seat[q]
      BY <1>2, <1>7, <2>1
    <3>2. f[seat[p]] \cap f[seat[q]] = {}
      BY <1>3, <3>1
    <3>3. ASSUME NEW w, w \in read[p], w \in read[q]  PROVE FALSE
      <4>1. PICK j \in f[seat[p]] : w = word[j]
        BY <1>held, <2>1, <3>3
      <4>2. PICK k \in f[seat[q]] : w = word[k]
        BY <1>held, <2>1, <3>3
      <4>3. j \in 1..m /\ k \in 1..m
        BY <1>5, <2>1
      <4>4. j = k
        BY <1>1, <4>1, <4>2, <4>3
      <4> QED
        BY <3>2, <4>4
    <3> QED
      BY <3>3
  <2>2. CASE p \notin players \/ q \notin players
    BY <1>4, <2>2
  <2> QED
    BY <2>1, <2>2
<1>8. read \in Banks(b, word[start])
  <2>1. \A p \in Ids : /\ read[p] \in SUBSET (WordList \ {word[start]})
                       /\ Cardinality(read[p]) = IF p \in players THEN b ELSE 0
    BY <1>4, <1>6, FS_EmptySet
  <2>2. \A p \in Ids : read[p] \in {S \in SUBSET (WordList \ {word[start]}) : Cardinality(S) \in {0, b}}
    BY <2>1
  <2> DEFINE bank == {S \in SUBSET (WordList \ {word[start]}) : Cardinality(S) \in {0, b}}
  <2>3. read \in [Ids -> bank]
    BY <1>4, <2>2
  <2> QED
    BY <1>7, <2>1, <2>3 DEF Banks
<1>9. BankRead(Dealt!Rest(1..m, f, start), word) = WordList \ ({word[start]} \cup UNION {read[p] : p \in Ids})
  <2>1. \A k \in 1..m : k \in Dealt!Rest(1..m, f, start) <=> k # start /\ \A j \in 1..n : k \notin f[j]
    BY <1>3 DEF Dealt!Rest
  <2>2. ASSUME NEW k \in 1..m
        PROVE  (\E j \in 1..n : k \in f[j]) <=> \E p \in Ids : word[k] \in read[p]
    <3>1. ASSUME NEW j \in 1..n, k \in f[j]  PROVE \E p \in Ids : word[k] \in read[p]
      <4>1. PICK p \in players : seat[p] = j
        BY <1>2
      <4> QED
        BY <1>held, <3>1, <4>1
    <3>2. ASSUME NEW p \in Ids, word[k] \in read[p]  PROVE \E j \in 1..n : k \in f[j]
      <4>1. p \in players
        BY <1>4, <3>2
      <4>2. PICK l \in f[seat[p]] : word[k] = word[l]
        BY <1>held, <3>2, <4>1
      <4>3. l = k
        BY <1>1, <1>5, <4>1, <4>2
      <4> QED
        BY <1>2, <4>1, <4>2, <4>3
    <3> QED
      BY <3>1, <3>2
  <2>3. Dealt!Rest(1..m, f, start) \subseteq 1..m
    BY DEF Dealt!Rest
  <2>4. ASSUME NEW k \in 1..m
        PROVE  k \in Dealt!Rest(1..m, f, start)
                 <=> word[k] # word[start] /\ \A p \in Ids : word[k] \notin read[p]
    BY <1>1, <2>1, <2>2
  <2>5. BankRead(Dealt!Rest(1..m, f, start), word) \subseteq WordList \ ({word[start]} \cup UNION {read[p] : p \in Ids})
    BY <1>1, <2>3, <2>4 DEF BankRead
  <2>6. ASSUME NEW w \in WordList, w # word[start], \A p \in Ids : w \notin read[p]
        PROVE  w \in BankRead(Dealt!Rest(1..m, f, start), word)
    <3>1. PICK k \in 1..m : word[k] = w
      BY <1>1
    <3>2. k \in Dealt!Rest(1..m, f, start)
      BY <2>4, <2>6, <3>1
    <3> QED
      BY <3>1, <3>2 DEF BankRead
  <2> QED
    BY <2>5, <2>6
<1>10. Dealt!WordsNeeded(1..n, b) <= Cardinality(1..m) <=> Cardinality(players) * b + 1 <= Cardinality(WordList)
  <2>1. /\ IsFiniteSet(1..m) /\ ExistsBijection(1..m, WordList)
        /\ IsFiniteSet(players) /\ ExistsBijection(players, 1..n)
    BY IdsFinite, FS_Interval, FS_Subset DEF ExistsBijection
  <2>2. Cardinality(WordList) = Cardinality(1..m) /\ Cardinality(1..n) = Cardinality(players)
    BY <2>1, FS_Bijection
  <2> QED
    BY <2>2, DealtCount DEF Dealt!WordsNeeded
<1>11. word[start] \in WordList
  BY <1>1
<1> QED
  BY <1>8, <1>9, <1>10, <1>11 DEF read

\* assignNewWords swaps one bank against available words.
LEMMA Swapped ==
  ASSUME WInv, NEW u \in Users, RequestNewWords(u)
  PROVE  WordsPartitioned' /\ EveryPlayerHoldsWords'
<1>1. PICK fresh \in SUBSET availableWords :
        /\ Cardinality(fresh) = (IF Cardinality(availableWords) < settings.wordBankSize
                                   THEN Cardinality(availableWords) ELSE settings.wordBankSize)
        /\ targetWords' = [targetWords EXCEPT ![u] = fresh]
        /\ availableWords' = (availableWords \ fresh) \cup targetWords[u]
  BY DEF RequestNewWords, AssignNewWords, FreshCount
<1>2. /\ Started /\ u \in Ids /\ u \in players /\ availableWords # {}
      /\ startWord' = startWord /\ players' = players
  BY DEF RequestNewWords, MaySwap, Started, Ids, roster
<1>3. /\ targetWords \in [Ids -> SUBSET WordList] /\ availableWords \subseteq WordList
      /\ settings.wordBankSize \in Nat \ {0}
  BY <1>2, SettingsAssumption DEF WInv, IInv, TypeOK, GameState, Settings
<1>4. fresh # {}
  <2>1. /\ Cardinality(availableWords) \in Nat /\ Cardinality(availableWords) # 0
        /\ fresh = {} => Cardinality(fresh) = 0
    BY <1>2, <1>3, CountWords
  <2> QED BY <1>1, <1>3, <2>1
<1>5. \A p \in Ids : targetWords'[p] = IF p = u THEN fresh ELSE targetWords[p]
  BY <1>1, <1>2, <1>3
<1>6. /\ startWord \in WordList
      /\ availableWords = WordList \ ({startWord} \cup UNION {targetWords[p] : p \in Ids})
      /\ startWord \notin UNION {targetWords[p] : p \in Ids}
      /\ \A p, q \in Ids : p # q => targetWords[p] \cap targetWords[q] = {}
  BY <1>2 DEF WInv, WordsPartitioned
<1>7. startWord' \notin UNION {targetWords'[p] : p \in Ids}
  BY <1>1, <1>2, <1>5, <1>6
<1>8. \A p, q \in Ids : p # q => targetWords'[p] \cap targetWords'[q] = {}
  BY <1>1, <1>5, <1>6
<1>9. availableWords' = WordList \ ({startWord'} \cup UNION {targetWords'[p] : p \in Ids})
  <2>1. ASSUME NEW x \in WordList, x # startWord
        PROVE  x \in availableWords' <=> \A p \in Ids : x \notin targetWords'[p]
    <3>1. CASE x \in fresh
      BY <1>1, <1>2, <1>5, <1>6, <3>1
    <3>2. CASE x \in targetWords[u]
      BY <1>1, <1>2, <1>5, <1>6, <3>2
    <3>3. CASE x \notin fresh /\ x \notin targetWords[u]
      BY <1>1, <1>2, <1>5, <1>6, <2>1, <3>3
    <3> QED BY <3>1, <3>2, <3>3
  <2>2. startWord' \notin availableWords' /\ availableWords' \subseteq WordList
    BY <1>1, <1>2, <1>3, <1>6
  <2> QED BY <1>2, <2>1, <2>2
<1>10. EveryPlayerHoldsWords'
  <2>1. {p \in Ids : targetWords[p] # {}} = players
    BY <1>2 DEF WInv, EveryPlayerHoldsWords
  <2> QED BY <1>2, <1>4, <1>5, <2>1 DEF EveryPlayerHoldsWords
<1> QED BY <1>2, <1>6, <1>7, <1>8, <1>9, <1>10 DEF WordsPartitioned

----------------------------------------------------------------------------
\* Every other step leaves the words alone, and the players once the game has
\* started.
LEMMA OtherSteps ==
  ASSUME IInv, [Next]_vars,
         ~ \E u \in Users, r \in RoundChoices, b \in BankChoices : StartGame(u, r, b),
         ~ \E u \in Users : RequestNewWords(u)
  PROVE  (Started' => Started) /\ (Started => UNCHANGED <<deal, players>>) /\ UNCHANGED deal
<1> USE DEF Started, roster, table
<1>1. CASE Joins
  BY <1>1 DEF Joins, JoinLobby, JoinUpdate, JoinMapping
<1>2. CASE HostCalls
  BY <1>2 DEF HostCalls, AddBot
<1>3. CASE GameCalls
  BY <1>3 DEF GameCalls, SubmitWord, VoteOnWord
<1>4. ASSUME BotSteps \/ BotErrors
      PROVE  (Started' => Started) /\ UNCHANGED <<deal, players>>
  <2>1. Started
    BY <1>4 DEF BotSteps, BotErrors, IInv, GameState
  <2> QED BY <1>4, <2>1 DEF BotSteps, BotErrors, BotAnswers, BotTurnCommits, BotVoteCommits, BotFails
<1>5. CASE UNCHANGED vars
  BY <1>5 DEF vars
<1> QED BY <1>1, <1>2, <1>3, <1>4, <1>5 DEF Next

LEMMA NextWInv == WInv /\ [Next]_vars => WInv'
<1> SUFFICES ASSUME WInv, [Next]_vars PROVE WInv'
  OBVIOUS
<1>1. IInv /\ IInv'
  BY NextIInv DEF WInv
<1>2. WordsPartitioned' /\ EveryPlayerHoldsWords'
  <2>1. CASE \E u \in Users, r \in RoundChoices, b \in BankChoices : StartGame(u, r, b)
    BY <1>1, <2>1, DealtOut
  <2>2. CASE \E u \in Users : RequestNewWords(u)
    BY <2>2, Swapped
  <2>3. CASE /\ ~ \E u \in Users, r \in RoundChoices, b \in BankChoices : StartGame(u, r, b)
             /\ ~ \E u \in Users : RequestNewWords(u)
    <3>1. (Started' => Started) /\ (Started => UNCHANGED <<deal, players>>)
      BY <1>1, <2>3, OtherSteps
    <3> QED BY <3>1, WordsUntouched DEF WInv
  <2> QED BY <2>1, <2>2, <2>3
<1> QED BY <1>1, <1>2 DEF WInv

LEMMA InitWInv == Init => WInv
BY InitIInv DEF Init, WInv, WordsPartitioned, EveryPlayerHoldsWords, Started

----------------------------------------------------------------------------
\* No deal and no sequence of swaps loses a word of the list, deals it twice
\* or hands out the start word.
THEOREM NoWordLost == Spec => []WordsPartitioned
<1>1. WInv => WordsPartitioned
  BY DEF WInv
<1> QED BY <1>1, InitWInv, NextWInv, PTL DEF Spec

\* From the deal on exactly the players hold words: handleVote and the bots
\* find a bank for whoever is on turn.
THEOREM BanksStayFilled == Spec => []EveryPlayerHoldsWords
<1>1. WInv => EveryPlayerHoldsWords
  BY DEF WInv
<1> QED BY <1>1, InitWInv, NextWInv, PTL DEF Spec

\* Nobody's call during a vote changes whether the word voted on is one of its
\* player's target words.
THEOREM VerdictSettled == Spec => VerdictIsFixed
<1>1. ASSUME IInv, [Next]_vars
      PROVE  SameVote => (Current.word \in targetWords[Current.player]
                            <=> Current.word \in targetWords'[Current.player])
  <2> SUFFICES ASSUME SameVote
               PROVE  targetWords'[Current.player] = targetWords[Current.player]
    OBVIOUS
  <2>1. status = "VOTING" /\ Started
    BY DEF SameVote, Started
  <2>2. ~ \E u \in Users, r \in RoundChoices, b \in BankChoices : StartGame(u, r, b)
    BY <2>1 DEF StartGame
  <2>3. CASE \E u \in Users : RequestNewWords(u)
    BY <2>1, <2>3 DEF RequestNewWords, MaySwap, AssignNewWords, IInv, TypeOK
  <2>4. CASE ~ \E u \in Users : RequestNewWords(u)
    BY <1>1, <2>2, <2>4, OtherSteps DEF deal
  <2> QED BY <2>3, <2>4
<1> QED BY <1>1, InitIInv, NextIInv, PTL DEF Spec, VerdictIsFixed
=============================================================================
