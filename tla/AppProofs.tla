----------------------------- MODULE AppProofs ------------------------------
(***************************************************************************)
(* What SeatedSpec guarantees for every number of users, bots, words and   *)
(* rounds: turns are decided once, in order, with the votes of all other   *)
(* players; no vote waits for nobody; late bot commits rewrite nothing;    *)
(* the game is a game of TurnGame; and every score is explained by the     *)
(* turns and the swaps of words, and whoever waits for a bot is served.    *)
(***************************************************************************)
EXTENDS PasswordApp, PasswordGameProofs, NaturalRecursion

----------------------------------------------------------------------------
(***************************** The inductive invariant *********************)

Others == players \ {Current.player}

\* A vote that decided a turn was everybody's.
Fair(t) == t.verdict # "open" => Voters(t.votes) = players \ {t.player}

Seating == Started => Cardinality(players) > 1

History == \A i \in 1..Len(turns) : /\ Decided(turns[i]) <=> (i < Len(turns) \/ status = "DONE")
                                    /\ Fair(turns[i])

\* A vote lasts until the last of the others has voted, and leaves nothing behind.
Ballots == /\ status # "VOTING" => votes = NoVotes
           /\ status = "VOTING" => Voters(votes) \subseteq Others /\ Voters(votes) # Others

\* A bot's commit can only meet the turn or the vote it was asked for: a turn
\* handler runs while that bot has the turn, and a vote cannot end before the
\* bots' handler has committed.
Handlers ==
  /\ \A j \in jobs : j.kind = "turn" => status = "SUBMISSION" /\ Current.player \in BotIds
  /\ \A j \in jobs : j.kind = "vote" => j.bots = awaitingBotVotes /\ j.bots # {}
  /\ \A j, k \in jobs : j.kind = k.kind => j = k
  /\ awaitingBotVotes # {} => status = "VOTING" /\ awaitingBotVotes \subseteq Others \ Voters(votes)

AInv == IInv /\ Seating /\ History /\ Ballots /\ Handlers

\* The turn has been decided: the next one began, or the game is over.
Decides ==
  IF Len(turns) = settings.numRounds * Len(playerOrder)
    THEN status' = "DONE" /\ Len(turns') = Len(turns)
    ELSE status' = "SUBMISSION" /\ Len(turns') = Len(turns) + 1

\* No turn but the last is touched.
Kept == \A i \in 1..(Len(turns) - 1) : turns'[i] = turns[i]

----------------------------------------------------------------------------
(***************************** Counting votes ******************************)

\* The current player is a player, and the order of play counts the others.
LEMMA OthersCount ==
  ASSUME IInv, Started
  PROVE  /\ Current.player \in players /\ players \subseteq Ids
         /\ Cardinality(players) = Len(playerOrder) /\ Len(playerOrder) \in Nat \ {0}
         /\ Cardinality(Others) = Len(playerOrder) - 1
<1>1. players \in SUBSET Ids /\ players # {} /\ playerOrder \in Orders(players)
  BY DEF IInv, TypeOK, GameState
<1>2. IsFiniteSet(players) /\ Cardinality(players) = Len(playerOrder) /\ Len(playerOrder) \in Nat \ {0}
  BY <1>1, CountIds, OrdersType
<1>3. Current.player \in players
  <2>1. Len(turns) \in Nat \ {0} /\ GoodTurns(turns, playerOrder, settings.numRounds)
    BY OnTheTable
  <2>2. Current.player = playerOrder[((Len(turns) - 1) % Len(playerOrder)) + 1]
    BY <2>1 DEF GoodTurns, Current
  <2>3. ((Len(turns) - 1) % Len(playerOrder)) + 1 \in 1..Len(playerOrder)
    BY <1>2, <2>1
  <2> QED
    BY <1>1, <1>2, <2>2, <2>3 DEF Orders
<1>4. \A x \in players : Cardinality(players \ {x}) = Cardinality(players) - 1
  BY <1>2, FS_RemoveElement
<1> QED
  BY <1>1, <1>2, <1>3, <1>4 DEF Others

\* The number of votes is the deciding one exactly when all others have voted.
LEMMA TallyMeansAll ==
  ASSUME IInv, Started, NEW vs, Voters(vs) \subseteq Others
  PROVE  AllVotesTallied(vs) <=> Voters(vs) = Others
<1>1. Others \in SUBSET Ids /\ Cardinality(Others) = Len(playerOrder) - 1
  BY OthersCount DEF Others
<1>2. IsFiniteSet(Others)
  BY <1>1, CountIds
<1> QED
  BY <1>1, <1>2, FS_Subset DEF AllVotesTallied

----------------------------------------------------------------------------
(***************************** Words and votes *****************************)

\* After decided turns a new, undecided one begins, or the game is over.
LEMMA NextTurnHistory ==
  ASSUME IInv, Started, NEW ts \in Seq(Turn), Len(ts) = Len(turns),
         \A i \in 1..Len(ts) : Decided(ts[i]) /\ Fair(ts[i]),
         StartNextTurnOrEndGame(ts, playerOrder, settings.numRounds), UNCHANGED players
  PROVE  History' /\ Decides /\ \A i \in 1..Len(ts) : turns'[i] = ts[i]
<1>1. CASE Len(ts) = settings.numRounds * Len(playerOrder)
  <2>1. turns' = ts /\ status' = "DONE"
    BY <1>1 DEF StartNextTurnOrEndGame
  <2> QED
    BY <1>1, <2>1 DEF History, Fair, Decides
<1>2. CASE Len(ts) # settings.numRounds * Len(playerOrder)
  <2> DEFINE n == NewTurn(playerOrder[(Len(ts) % Len(playerOrder)) + 1])
  <2>1. turns' = Append(ts, n) /\ status' = "SUBMISSION"
    BY <1>2 DEF StartNextTurnOrEndGame
  <2>2. ~ Decided(n) /\ Fair(n)
    BY DEF NewTurn, Decided, Fair
  <2> HIDE DEF n
  <2>3. /\ Len(turns') = Len(ts) + 1 /\ turns'[Len(ts) + 1] = n
        /\ \A i \in 1..Len(ts) : turns'[i] = ts[i]
    BY <2>1
  <2>4. History'
    <3> SUFFICES ASSUME NEW i \in 1..(Len(ts) + 1)
                 PROVE  /\ Decided(turns'[i]) <=> i < Len(ts) + 1
                        /\ turns'[i].verdict # "open" => Voters(turns'[i].votes) = players \ {turns'[i].player}
      BY <2>1, <2>3 DEF History, Fair
    <3>1. CASE i = Len(ts) + 1
      BY <2>2, <2>3, <3>1 DEF Fair
    <3>2. CASE i \in 1..Len(ts)
      <4>1. turns'[i] = ts[i] /\ Decided(ts[i]) /\ Fair(ts[i]) /\ i < Len(ts) + 1
        BY <2>3, <3>2
      <4> QED
        BY <4>1 DEF Fair, Decided
    <3> QED
      BY <3>1, <3>2
  <2> QED
    BY <1>2, <2>1, <2>3, <2>4 DEF Decides
<1> QED
  BY <1>1, <1>2

\* A word that comes in is put to the vote, or decides the turn at once.
LEMMA WordIn ==
  ASSUME AInv, status = "SUBMISSION", NEW w \in Words, HandleWordSubmission(w),
         UNCHANGED <<players, playerOrder>>
  PROVE  /\ History' /\ Kept
         /\ \/ /\ status' = "VOTING" /\ Len(turns') = Len(turns) /\ Current'.player = Current.player
               /\ awaitingBotVotes' = (players \cap BotIds) \ {Current.player}
            \/ Decides /\ awaitingBotVotes' = {}
<1> DEFINE last   == Len(turns)
           t      == [Current EXCEPT !.word = w]
           played == [turns EXCEPT ![last] = t]
<1>1. /\ IInv /\ Started /\ turns \in Seq(Turn) /\ last \in Nat \ {0} /\ Current \in Turn
      /\ awaitingBotVotes = {}
  BY OnTheTable DEF AInv, Started, Handlers
<1>2. ~ Decided(Current) /\ Current.verdict = "open" /\ Current.other = NoOne
  BY <1>1 DEF AInv, History, Current, Decided
<1>3. \A i \in 1..(last - 1) : Decided(turns[i]) /\ Fair(turns[i])
  BY <1>1 DEF AInv, History
<1>4. t \in Turn /\ t.verdict = "open" /\ t.other = NoOne /\ t.player = Current.player
  BY <1>1, <1>2 DEF Turn
<1>5. /\ played \in Seq(Turn) /\ Len(played) = last /\ played[last] = t
      /\ \A i \in 1..(last - 1) : played[i] = turns[i]
  BY <1>1, <1>4
<1>6. played = [turns EXCEPT ![last].word = w]
  BY <1>1 DEF Current
<1>7. CASE /\ status' = "VOTING" /\ turns' = played
           /\ awaitingBotVotes' = (players \cap BotIds) \ {Current.player}
  <2>1. ASSUME NEW i \in 1..last
        PROVE  /\ Decided(played[i]) <=> i < last
               /\ played[i].verdict # "open" => Voters(played[i].votes) = players \ {played[i].player}
    <3>1. CASE i = last
      BY <1>4, <1>5, <3>1 DEF Decided
    <3>2. CASE i \in 1..(last - 1)
      BY <1>1, <1>3, <1>5, <3>2 DEF Fair, Decided
    <3> QED
      BY <1>1, <3>1, <3>2
  <2>2. History'
    BY <1>5, <1>7, <2>1 DEF History, Fair
  <2>3. Len(turns') = Len(turns) /\ Current'.player = Current.player /\ Kept
    BY <1>4, <1>5, <1>7 DEF Kept, Current
  <2> QED
    BY <1>7, <2>2, <2>3
<1>8. ASSUME NEW o \in players,
             LET done == [played EXCEPT ![last].other = o]
             IN  /\ score' = ScoreTurn(score, done[last])
                 /\ StartNextTurnOrEndGame(done, playerOrder, settings.numRounds)
                 /\ UNCHANGED awaitingBotVotes
      PROVE  History' /\ Kept /\ Decides /\ awaitingBotVotes' = {}
  <2> DEFINE t2   == [t EXCEPT !.other = o]
             done == [played EXCEPT ![last] = t2]
  <2>1. o \in Ids /\ o # NoOne
    BY <1>1, BotsAssumption DEF IInv, TypeOK
  <2>2. t2 \in Turn /\ Decided(t2) /\ Fair(t2)
    BY <1>4, <2>1 DEF Turn, Decided, Fair
  <2>3. /\ done \in Seq(Turn) /\ Len(done) = last /\ done[last] = t2
        /\ \A i \in 1..(last - 1) : done[i] = turns[i]
    <3> HIDE DEF t2, played
    <3> QED
      BY <1>1, <1>5, <2>2
  <2>4. done = [played EXCEPT ![last].other = o]
    BY <1>5
  <2>5. StartNextTurnOrEndGame(done, playerOrder, settings.numRounds)
    BY <1>8, <2>4
  <2> HIDE DEF done, t2
  <2>6. \A i \in 1..Len(done) : Decided(done[i]) /\ Fair(done[i])
    <3> SUFFICES ASSUME NEW i \in 1..last PROVE Decided(done[i]) /\ Fair(done[i])
      BY <2>3
    <3>1. CASE i = last
      BY <2>2, <2>3, <3>1
    <3>2. CASE i \in 1..(last - 1)
      BY <1>3, <2>3, <3>2
    <3> QED
      BY <1>1, <3>1, <3>2
  <2>7. History' /\ Decides /\ \A i \in 1..last : turns'[i] = done[i]
    BY <1>1, <2>3, <2>5, <2>6, NextTurnHistory
  <2>8. Kept
    BY <1>1, <2>3, <2>7 DEF Kept
  <2> QED
    BY <1>1, <1>8, <2>7, <2>8
<1> QED
  BY <1>6, <1>7, <1>8 DEF HandleWordSubmission

\* Votes that come in from some of the others: the last of them decide the turn.
LEMMA VotesIn ==
  ASSUME AInv, status = "VOTING", NEW vs \in [Ids -> Vote], Voters(vs) \subseteq Others,
         HandleVote(vs), UNCHANGED <<players, playerOrder>>
  PROVE  /\ History' /\ Kept
         /\ \/ Voters(vs) = Others /\ votes' = NoVotes /\ Decides
            \/ Voters(vs) # Others /\ votes' = vs /\ status' = "VOTING" /\ turns' = turns
<1> DEFINE last == Len(turns)
           v    == IF Current.word \in targetWords[Current.player] THEN "own" ELSE "bluff"
           t    == [Current EXCEPT !.votes = vs, !.verdict = v]
           done == [turns EXCEPT ![last] = t]
<1>1. IInv /\ Started /\ turns \in Seq(Turn) /\ last \in Nat \ {0} /\ Current \in Turn
  BY OnTheTable DEF AInv, Started
<1>2. AllVotesTallied(vs) <=> Voters(vs) = Others
  BY <1>1, TallyMeansAll
<1>3. CASE Voters(vs) = Others
  <2>1. \A i \in 1..(last - 1) : Decided(turns[i]) /\ Fair(turns[i])
    BY <1>1 DEF AInv, History
  <2>2. t \in Turn /\ t.player = Current.player /\ t.votes = vs /\ t.verdict # "open"
    BY <1>1 DEF Turn, Verdict
  <2>3. Decided(t) /\ Fair(t)
    BY <1>3, <2>2 DEF Decided, Fair, Others
  <2>4. done = [turns EXCEPT ![last].votes = vs, ![last].verdict = v]
    BY <1>1 DEF Current
  <2>5. votes' = NoVotes /\ StartNextTurnOrEndGame(done, playerOrder, settings.numRounds)
    BY <1>2, <1>3, <2>4 DEF HandleVote
  <2> HIDE DEF t
  <2>6. /\ done \in Seq(Turn) /\ Len(done) = last /\ done[last] = t
        /\ \A i \in 1..(last - 1) : done[i] = turns[i]
    BY <1>1, <2>2
  <2> HIDE DEF done
  <2>7. \A i \in 1..Len(done) : Decided(done[i]) /\ Fair(done[i])
    <3> SUFFICES ASSUME NEW i \in 1..last PROVE Decided(done[i]) /\ Fair(done[i])
      BY <2>6
    <3>1. CASE i = last
      BY <2>3, <2>6, <3>1
    <3>2. CASE i \in 1..(last - 1)
      BY <2>1, <2>6, <3>2
    <3> QED
      BY <1>1, <3>1, <3>2
  <2>8. History' /\ Decides /\ \A i \in 1..last : turns'[i] = done[i]
    BY <1>1, <2>5, <2>6, <2>7, NextTurnHistory
  <2>9. Kept
    BY <1>1, <2>6, <2>8 DEF Kept
  <2> QED
    BY <1>3, <2>5, <2>8, <2>9
<1>4. CASE Voters(vs) # Others
  <2>1. votes' = vs /\ status' = "VOTING" /\ turns' = turns
    BY <1>2, <1>4 DEF HandleVote
  <2>2. History' /\ Kept
    BY <2>1 DEF AInv, History, Fair, Kept
  <2> QED
    BY <1>4, <2>1, <2>2
<1> QED
  BY <1>3, <1>4

----------------------------------------------------------------------------
(************************ The handlers of the bots *************************)

\* A commit after which no turn handler is left starts one exactly for the
\* turn of a bot that it begins.
LEMMA HandlersOK ==
  ASSUME AInv, NEW running \in SUBSET jobs, FireTriggers(running),
         \A j \in running : j.kind # "turn",
         \A j \in running : j.kind = "vote" => j.bots = awaitingBotVotes' /\ j.bots # {},
         awaitingBotTurn' /\ ~ awaitingBotTurn => BotIsNext,
         BotIsNext => status' = "SUBMISSION",
         awaitingBotVotes' # {} => status' = "VOTING" /\ awaitingBotVotes' \subseteq (Others \ Voters(votes))'
  PROVE  Handlers'
<1> DEFINE tj == NewJob("turn", {})
           vj == NewJob("vote", awaitingBotVotes')
<1>1. ASSUME NEW j \in jobs'
      PROVE  \/ j \in running
             \/ j = tj /\ BotIsNext
             \/ j = vj /\ awaitingBotVotes' # {} /\ awaitingBotVotes = {}
  BY <1>1 DEF FireTriggers
<1>2. /\ tj.kind = "turn" /\ vj.kind = "vote" /\ vj.bots = awaitingBotVotes'
      /\ \A j \in running : j.kind = "vote" => awaitingBotVotes # {}
  BY DEF NewJob, AInv, Handlers
<1> HIDE DEF tj, vj
<1>3. ASSUME NEW j \in jobs', j.kind = "turn"  PROVE status' = "SUBMISSION" /\ Current'.player \in BotIds
  BY <1>1, <1>2, <1>3 DEF BotIsNext, Current
<1>4. ASSUME NEW j \in jobs', j.kind = "vote"  PROVE j.bots = awaitingBotVotes' /\ j.bots # {}
  BY <1>1, <1>2, <1>4
<1>5. ASSUME NEW j \in jobs', NEW k \in jobs', j.kind = k.kind  PROVE j = k
  <2>1. \A m, n \in running : m.kind = n.kind => m = n
    BY DEF AInv, Handlers
  <2> QED
    BY <1>1, <1>2, <1>5, <2>1
<1> QED
  BY <1>3, <1>4, <1>5 DEF Handlers

----------------------------------------------------------------------------
(**************************** Every step keeps it **************************)

\* Nobody has voted in NoVotes, so a vote that begins waits for somebody.
LEMMA VoteBegins ==
  ASSUME IInv, Seating, Started
  PROVE  Voters(NoVotes) = {} /\ Others # {}
<1>1. Cardinality(Others) # 0
  BY OthersCount DEF Seating
<1> QED
  BY <1>1, FS_EmptySet DEF Voters, NoVotes

LEMMA InitAInv == Init => AInv
<1> SUFFICES ASSUME Init PROVE AInv
  OBVIOUS
<1> QED
  BY InitIInv DEF Init, AInv, Seating, History, Ballots, Handlers, Started

\* A word that is submitted, by its player or by a bot's commit in its turn.
LEMMA SubmissionAInv ==
  ASSUME AInv, IInv', status = "SUBMISSION", NEW w \in Words, HandleWordSubmission(w),
         NEW running \in SUBSET jobs, \A j \in running : j.kind # "turn", FireTriggers(running),
         awaitingBotTurn' /\ ~ awaitingBotTurn => BotIsNext,
         UNCHANGED <<players, playerOrder, votes>>
  PROVE  AInv'
<1>1. /\ Started /\ votes = NoVotes /\ votes' = NoVotes /\ awaitingBotVotes = {} /\ Len(turns) \in Nat
      /\ Others # {} /\ Voters(NoVotes) = {}
  BY VoteBegins, OnTheTable DEF AInv, Ballots, Handlers, Started
<1>2. History'
  BY WordIn
<1>3. Seating'
  BY <1>1 DEF AInv, Seating
<1>4. \A j \in running : j.kind # "vote"
  BY <1>1 DEF AInv, Handlers
<1>5. Voters(votes') = {} /\ Voters(votes)' = Voters(votes')
  BY <1>1 DEF Voters
<1>6. CASE /\ status' = "VOTING" /\ Len(turns') = Len(turns) /\ Current'.player = Current.player
           /\ awaitingBotVotes' = (players \cap BotIds) \ {Current.player}
  <2>1. Others' = Others /\ ~ BotIsNext
    BY <1>1, <1>6 DEF Others, BotIsNext
  <2>2. Ballots'
    BY <1>1, <1>5, <1>6, <2>1 DEF Ballots
  <2>3. awaitingBotVotes' \subseteq (Others \ Voters(votes))'
    BY <1>5, <1>6, <2>1 DEF Others
  <2>4. Handlers'
    BY <1>4, <1>6, <2>1, <2>3, HandlersOK
  <2> QED
    BY <1>2, <1>3, <2>2, <2>4 DEF AInv
<1>7. CASE Decides /\ awaitingBotVotes' = {}
  <2>1. status' # "VOTING" /\ (BotIsNext => status' = "SUBMISSION")
    BY <1>1, <1>7 DEF Decides, BotIsNext
  <2>2. Ballots'
    BY <1>1, <2>1 DEF Ballots
  <2>3. Handlers'
    BY <1>4, <1>7, <2>1, HandlersOK
  <2> QED
    BY <1>2, <1>3, <2>2, <2>3 DEF AInv
<1> QED
  BY <1>6, <1>7, WordIn

\* Votes that are cast, by a user or by the bots' commit in that vote.
LEMMA VotesAInv ==
  ASSUME AInv, IInv', status = "VOTING", NEW vs \in [Ids -> Vote], Voters(vs) \subseteq Others,
         HandleVote(vs), NEW running \in SUBSET jobs, FireTriggers(running),
         awaitingBotVotes' \subseteq awaitingBotVotes, awaitingBotVotes' \cap Voters(vs) = {},
         \A j \in running : j.kind = "vote" => j.bots = awaitingBotVotes',
         awaitingBotTurn' /\ ~ awaitingBotTurn => BotIsNext,
         UNCHANGED <<players, playerOrder>>
  PROVE  AInv'
<1>1. Started /\ Len(turns) \in Nat /\ awaitingBotVotes \subseteq Others
  BY OnTheTable DEF AInv, Handlers, Started
<1>2. History'
  BY VotesIn
<1>3. Seating'
  BY <1>1 DEF AInv, Seating
<1>4. \A j \in running : j.kind # "turn" /\ (j.kind = "vote" => j.bots # {})
  BY DEF AInv, Handlers
<1>5. CASE Voters(vs) = Others /\ votes' = NoVotes /\ Decides
  <2>1. status' # "VOTING" /\ (BotIsNext => status' = "SUBMISSION") /\ awaitingBotVotes' = {}
    BY <1>1, <1>5 DEF Decides, BotIsNext
  <2>2. Ballots'
    BY <1>5, <2>1 DEF Ballots, NoVotes
  <2>3. Handlers'
    BY <1>4, <2>1, HandlersOK
  <2> QED
    BY <1>2, <1>3, <2>2, <2>3 DEF AInv
<1>6. CASE Voters(vs) # Others /\ votes' = vs /\ status' = "VOTING" /\ turns' = turns
  <2>1. Others' = Others /\ ~ BotIsNext /\ Voters(votes)' = Voters(vs)
    BY <1>1, <1>6 DEF Others, BotIsNext, Current, Voters
  <2>2. Ballots'
    BY <1>6, <2>1 DEF Ballots
  <2>3. awaitingBotVotes' \subseteq (Others \ Voters(votes))'
    BY <1>1, <2>1
  <2>4. Handlers'
    BY <1>4, <1>6, <2>1, <2>3, HandlersOK
  <2> QED
    BY <1>2, <1>3, <2>2, <2>4 DEF AInv
<1> QED
  BY <1>5, <1>6, VotesIn

\* Joining, addBot and swaps: nothing of a running game is touched.
LEMMA QuietAInv ==
  ASSUME AInv, IInv', UNCHANGED <<status, turns, votes, awaitingBotVotes>>,
         jobs' = jobs, Started => players' = players
  PROVE  AInv'
<1>1. CASE Started
  BY <1>1 DEF AInv, Started, Seating, History, Fair, Ballots, Handlers, Others, Current, Voters
<1>2. CASE ~ Started
  <2>1. status = "LOBBY" /\ turns = <<>> /\ jobs = {} /\ awaitingBotVotes = {}
    BY <1>2 DEF AInv, Handlers, Started, IInv, GameState
  <2> QED
    BY <2>1 DEF AInv, Started, Seating, History, Ballots, Handlers
<1> QED
  BY <1>1, <1>2

\* The host starts with two players or more.
LEMMA StartAInv ==
  ASSUME AInv, IInv', NEW u \in Users, NEW r \in RoundChoices, NEW b \in BankChoices,
         StartGame(u, r, b), Cardinality(players) > 1
  PROVE  AInv'
<1>1. /\ status = "LOBBY" /\ turns = <<>> /\ jobs = {} /\ votes' = NoVotes /\ awaitingBotVotes = {}
      /\ players' = players /\ awaitingBotVotes' = {}
  BY DEF StartGame, AInv, IInv, GameState, Ballots, Handlers, roster
<1>2. Started' /\ r \in Nat \ {0} /\ Len(playerOrder') \in Nat \ {0}
  <2>1. playerOrder' \in Orders(players) /\ players # {} /\ players \in SUBSET Ids
    BY DEF StartGame, AInv, IInv, TypeOK
  <2>2. Len(playerOrder') \in Nat \ {0} /\ r \in Nat \ {0}
    BY <2>1, OrdersType, SettingsAssumption
  <2>3. Started'
    BY DEF StartGame, StartNextTurnOrEndGame, Started
  <2> QED
    BY <2>2, <2>3
<1>3. r * Len(playerOrder') # 0
  BY <1>2
<1>4. status' = "SUBMISSION" /\ \E p : turns' = <<NewTurn(p)>>
  BY <1>1, <1>3 DEF StartGame, StartNextTurnOrEndGame
<1>5. History'
  BY <1>4 DEF History, NewTurn, Decided, Fair
<1>6. Seating' /\ Ballots'
  BY <1>1, <1>4 DEF Seating, Ballots, NoVotes
<1>7. Handlers'
  BY <1>1, <1>4, HandlersOK DEF StartGame
<1> QED
  BY <1>5, <1>6, <1>7 DEF AInv

\* The votes with a user's own in.
UserVote(u, v) == [votes EXCEPT ![u] = v]

\* A user's vote adds a voter who is no bot; a repeated one adds none.
LEMMA UserBallot ==
  ASSUME AInv, NEW u \in Users, NEW v \in {"pass", "challenge"}, u \in players, VoteOnWord(u, v)
  PROVE  /\ UserVote(u, v) \in [Ids -> Vote] /\ status = "VOTING" /\ HandleVote(UserVote(u, v))
         /\ u \in Others /\ u \notin BotIds
         /\ Voters(UserVote(u, v)) = Voters(votes) \cup {u} /\ Voters(UserVote(u, v)) \subseteq Others
<1> DEFINE vs == [votes EXCEPT ![u] = v]
<1>1. votes \in [Ids -> Vote] /\ u \in Ids /\ u \notin BotIds
  BY BotsAssumption DEF AInv, IInv, TypeOK, Ids
<1>2. status = "VOTING" /\ HandleVote(vs) /\ u \in Others
  BY DEF VoteOnWord, Others
<1>3. vs \in [Ids -> Vote] /\ Voters(vs) = Voters(votes) \cup {u}
  BY <1>1 DEF Voters, Vote
<1>4. Voters(votes) \subseteq Others
  BY <1>2 DEF AInv, Ballots
<1> HIDE DEF vs
<1> QED
  BY <1>1, <1>2, <1>3, <1>4 DEF UserVote, vs

\* The bots' commit meets the vote it was asked for, and adds the bots' votes,
\* none of which was in.
LEMMA BotsBallot ==
  ASSUME AInv, NEW j \in jobs, NEW chosen \in j.bots, BotVoteCommits(j, chosen)
  PROVE  LET vs == BotBallot(j, chosen)
         IN  /\ vs \in [Ids -> Vote] /\ status = "VOTING" /\ HandleVote(vs)
             /\ j.kind = "vote" /\ j.bots = awaitingBotVotes /\ j.bots # {} /\ j.bots \subseteq Others \ Voters(votes)
             /\ Voters(vs) = Voters(votes) \cup j.bots /\ Voters(vs) \subseteq Others
<1> DEFINE vs == BotBallot(j, chosen)
<1>1. j \in VoteJob /\ j.answer \in {"pass", "challenge"} /\ j.kind = "vote" /\ HandleVote(vs)
  BY DEF BotVoteCommits, Answered, AInv, IInv, TypeOK, Job, TurnJob, VoteJob
<1>2. votes \in [Ids -> Vote] /\ j.bots \subseteq Ids
  BY <1>1 DEF AInv, IInv, TypeOK, Ids, VoteJob
<1>3. vs \in [Ids -> Vote] /\ Voters(vs) = Voters(votes) \cup j.bots
  BY <1>1, <1>2 DEF Voters, Vote, BotBallot
<1>4. /\ j.bots = awaitingBotVotes /\ j.bots # {} /\ status = "VOTING"
      /\ j.bots \subseteq Others \ Voters(votes)
  BY <1>1 DEF AInv, Handlers
<1>5. Voters(votes) \subseteq Others
  BY <1>4 DEF AInv, Ballots
<1> HIDE DEF vs
<1> QED
  BY <1>1, <1>3, <1>4, <1>5 DEF vs

\* A bot's word is committed in that bot's turn, as its only turn handler.
LEMMA BotsTurn ==
  ASSUME AInv, NEW j \in jobs, BotTurnCommits(j)
  PROVE  /\ status = "SUBMISSION" /\ j.answer \in Words /\ HandleWordSubmission(j.answer)
         /\ \A k \in jobs \ {j} : k.kind # "turn"
<1>1. j \in TurnJob /\ j.answer # NoAnswer /\ j.kind = "turn"
  BY DEF BotTurnCommits, Answered, AInv, IInv, TypeOK, Job, TurnJob, VoteJob
<1> QED
  BY <1>1 DEF BotTurnCommits, AInv, Handlers, TurnJob

LEMMA GameCallsAInv == AInv /\ IInv' /\ SeatedGameCalls => AInv'
<1> SUFFICES ASSUME AInv, IInv', NEW u \in Users,
                    \/ \E w \in Words : SubmitWord(u, w)
                    \/ RequestNewWords(u)
                    \/ u \in players /\ \E v \in {"pass", "challenge"} : VoteOnWord(u, v)
             PROVE  AInv'
  BY DEF SeatedGameCalls
<1> USE DEF roster, rules
<1>1. ASSUME NEW w \in Words, SubmitWord(u, w) PROVE AInv'
  <2>1. \A j \in jobs : j.kind # "turn"
    BY <1>1, BotsAssumption DEF SubmitWord, AInv, Handlers
  <2> QED
    BY <1>1, <2>1, SubmissionAInv DEF SubmitWord, AInv, IInv, TypeOK
<1>2. CASE RequestNewWords(u)
  BY <1>2, QuietAInv DEF RequestNewWords, bots
<1>3. ASSUME u \in players, NEW v \in {"pass", "challenge"}, VoteOnWord(u, v) PROVE AInv'
  <2> DEFINE vs == UserVote(u, v)
  <2> HIDE DEF vs
  <2>1. /\ vs \in [Ids -> Vote] /\ status = "VOTING" /\ HandleVote(vs) /\ u \notin BotIds
        /\ Voters(vs) = Voters(votes) \cup {u} /\ Voters(vs) \subseteq Others
    BY <1>3, UserBallot DEF vs
  <2>2. awaitingBotVotes' = awaitingBotVotes /\ awaitingBotVotes \cap Voters(vs) = {}
    BY <1>3, <2>1 DEF VoteOnWord, AInv, Handlers, IInv, TypeOK
  <2>3. \A j \in jobs : j.kind = "vote" => j.bots = awaitingBotVotes'
    BY <2>2 DEF AInv, Handlers
  <2>4. /\ FireTriggers(jobs) /\ UNCHANGED <<players, playerOrder>>
        /\ awaitingBotTurn' /\ ~ awaitingBotTurn => BotIsNext
    BY <1>3 DEF VoteOnWord
  <2> QED
    BY <2>1, <2>2, <2>3, <2>4, VotesAInv
<1> QED
  BY <1>1, <1>2, <1>3

LEMMA BotsAInv == AInv /\ IInv' /\ (BotSteps \/ BotErrors) => AInv'
<1> SUFFICES ASSUME AInv, IInv', NEW j \in jobs,
                    \/ \E a \in Words \cup {"pass", "challenge"} : BotAnswers(j, a)
                    \/ BotTurnCommits(j)
                    \/ \E chosen \in j.bots : BotVoteCommits(j, chosen)
                    \/ BotFails(j)
             PROVE  AInv'
  BY DEF BotSteps, BotErrors
<1> USE DEF roster, rules
<1>1. ASSUME NEW a \in Words \cup {"pass", "challenge"}, BotAnswers(j, a) PROVE AInv'
  <2> DEFINE d == [j EXCEPT !.answer = a]
  <2>1. d.kind = j.kind /\ d.bots = j.bots
    BY DEF AInv, IInv, TypeOK, Job, TurnJob, VoteJob
  <2>2. /\ jobs' = (jobs \ {j}) \cup {d}
        /\ UNCHANGED <<status, turns, votes, awaitingBotVotes, players>>
    BY <1>1 DEF BotAnswers, table
  <2> HIDE DEF d
  <2>3. Handlers'
    BY <2>1, <2>2 DEF AInv, Handlers, Current, Others, Voters
  <2> QED
    BY <2>2, <2>3 DEF AInv, Seating, Started, History, Fair, Ballots, Others, Current, Voters
<1>2. CASE BotTurnCommits(j)
  BY <1>2, BotsTurn, SubmissionAInv DEF BotTurnCommits
<1>3. ASSUME NEW chosen \in j.bots, BotVoteCommits(j, chosen) PROVE AInv'
  <2> DEFINE vs == BotBallot(j, chosen)
  <2>1. /\ vs \in [Ids -> Vote] /\ status = "VOTING" /\ HandleVote(vs) /\ j.kind = "vote"
        /\ Voters(vs) \subseteq Others
    BY <1>3, BotsBallot
  <2> HIDE DEF vs
  <2>2. \A k \in jobs \ {j} : k.kind # "vote"
    BY <2>1 DEF AInv, Handlers
  <2>3. /\ FireTriggers(jobs \ {j}) /\ awaitingBotVotes' = {} /\ UNCHANGED <<players, playerOrder>>
        /\ awaitingBotTurn' /\ ~ awaitingBotTurn => BotIsNext
    BY <1>3 DEF BotVoteCommits
  <2> QED
    BY <2>1, <2>2, <2>3, VotesAInv
<1>4. CASE BotFails(j)
  BY <1>4 DEF BotFails, table, AInv, Seating, Started, History, Fair, Ballots, Handlers, Others, Current, Voters
<1> QED
  BY <1>1, <1>2, <1>3, <1>4

\* What seated players do, the backend allows.
LEMMA SeatedNextIsNext == SeatedNext => Next
  BY DEF SeatedNext, Next, SeatedHostCalls, HostCalls, SeatedGameCalls, GameCalls

LEMMA NextAInv == AInv /\ [SeatedNext]_vars => AInv'
<1> SUFFICES ASSUME AInv, [SeatedNext]_vars PROVE AInv'
  OBVIOUS
<1> USE DEF roster, bots, table
<1>1. IInv'
  BY SeatedNextIsNext, NextIInv DEF AInv
<1>2. CASE Joins
  <2>1. PICK u \in Users : JoinLobby(u) \/ JoinUpdate(u) \/ JoinMapping(u)
    BY <1>2 DEF Joins
  <2> QED
    BY <1>1, <2>1, QuietAInv DEF JoinLobby, JoinUpdate, JoinMapping, Started
<1>3. CASE SeatedHostCalls
  <2>1. ASSUME NEW u \in Users, AddBot(u) PROVE AInv'
    BY <1>1, <2>1, QuietAInv DEF AddBot, Started
  <2> QED
    BY <1>1, <1>3, <2>1, StartAInv DEF SeatedHostCalls
<1>4. CASE UNCHANGED vars
  BY <1>1, <1>4, QuietAInv DEF vars
<1> QED
  BY <1>1, <1>2, <1>3, <1>4, GameCallsAInv, BotsAInv DEF SeatedNext

----------------------------------------------------------------------------
(******************* Every step is a step of the rules *********************)

\* What TurnGame sees of the game.
PhaseOf == CASE status = "LOBBY" -> "gathering" [] status = "SUBMISSION" -> "submitting"
             [] status = "VOTING" -> "voting"   [] status = "DONE" -> "over"
TotalOf   == settings.numRounds * Len(playerOrder)
PendingOf == IF status = "VOTING" THEN players \ ({Current.player} \cup Voters(votes)) ELSE {}

RulesStep == [Rules!Next]_(Rules!vars)

\* The phases, told apart.
LEMMA Phases ==
  /\ status = "LOBBY" => PhaseOf = "gathering"
  /\ status = "SUBMISSION" => PhaseOf = "submitting"
  /\ status = "VOTING" => PhaseOf = "voting"
  /\ status = "DONE" => PhaseOf = "over"
  BY DEF PhaseOf

\* The seats are the players, and the active one has the current turn.
LEMMA SeatsArePlayers ==
  ASSUME IInv, Started
  PROVE  Rules!Seated = players /\ Rules!Active = Current.player
<1>1. playerOrder \in Orders(players) /\ GoodTurns(turns, playerOrder, settings.numRounds) /\ Len(turns) \in Nat \ {0}
  BY OnTheTable DEF IInv, GameState
<1>2. Rules!Seated = players
  BY <1>1 DEF Rules!Seated, Orders
<1>3. Rules!Active = Current.player
  BY <1>1 DEF Rules!Active, GoodTurns, Current
<1> QED
  BY <1>2, <1>3

\* A decision, after a word or after the last votes.
LEMMA DecideStep ==
  ASSUME Decides, UNCHANGED <<playerOrder, settings>>
  PROVE  Rules!Decide
<1>1. /\ PendingOf' = {} /\ UNCHANGED <<playerOrder, TotalOf>>
      /\ IF Len(turns) = TotalOf THEN PhaseOf' = "over" /\ Len(turns') = Len(turns)
                                 ELSE PhaseOf' = "submitting" /\ Len(turns') = Len(turns) + 1
  BY DEF Decides, PendingOf, TotalOf, PhaseOf
<1> QED
  BY <1>1 DEF Rules!Decide, PendingOf, TotalOf, PhaseOf

\* A word: a hit, or put to the vote.
LEMMA WordStep ==
  ASSUME AInv, status = "SUBMISSION", NEW w \in Words, HandleWordSubmission(w),
         UNCHANGED <<players, playerOrder, settings, votes>>
  PROVE  RulesStep
<1>1. IInv /\ Started /\ Voters(votes) = {}
  BY VoteBegins DEF AInv, Ballots, Started
<1>2. CASE status' = "VOTING" /\ Len(turns') = Len(turns) /\ Current'.player = Current.player
  <2>1. Rules!Seated = players /\ Rules!Active = Current.player
    BY <1>1, SeatsArePlayers
  <2>2. Voters(votes)' = {}
    BY <1>1 DEF Voters
  <2>3. /\ PhaseOf = "submitting" /\ PhaseOf' = "voting" /\ UNCHANGED <<playerOrder, TotalOf>>
        /\ Len(turns') = Len(turns) /\ PendingOf' = Rules!Seated \ {Rules!Active}
    BY <1>2, <2>1, <2>2 DEF PhaseOf, TotalOf, PendingOf
  <2>4. Rules!PutToVote
    BY <2>3 DEF Rules!PutToVote, PhaseOf, TotalOf, PendingOf
  <2> QED
    BY <2>4 DEF RulesStep, Rules!Next
<1>3. CASE Decides
  <2>1. PhaseOf = "submitting"
    BY DEF PhaseOf
  <2>2. Rules!Hit
    BY <1>3, <2>1, DecideStep DEF Rules!Hit, PhaseOf
  <2> QED
    BY <2>2 DEF RulesStep, Rules!Next
<1> QED
  BY <1>2, <1>3, WordIn

\* Votes: those that are new are cast; a repeated one changes nothing.
LEMMA VoteStep ==
  ASSUME AInv, status = "VOTING", NEW vs \in [Ids -> Vote],
         Voters(votes) \subseteq Voters(vs), Voters(vs) \subseteq Others, HandleVote(vs),
         UNCHANGED <<players, playerOrder, settings>>
  PROVE  RulesStep
<1> DEFINE S == Voters(vs) \ Voters(votes)
<1>1. /\ PhaseOf = "voting" /\ PendingOf = Others \ Voters(votes) /\ S \subseteq PendingOf
      /\ S = PendingOf <=> Voters(vs) = Others
  BY DEF PhaseOf, PendingOf, Others, AInv, Ballots
<1>2. S \in SUBSET Ids
  BY DEF Voters
<1>3. CASE Voters(vs) = Others /\ Decides
  <2>1. S # {} /\ S = PendingOf
    BY <1>1, <1>3 DEF AInv, Ballots
  <2>2. Rules!CastVotes(S)
    <3>1. Rules!Decide
      BY <1>3, DecideStep
    <3> HIDE DEF S
    <3> QED
      BY <1>1, <2>1, <3>1 DEF Rules!CastVotes, PhaseOf, PendingOf
  <2> QED
    BY <1>2, <2>2 DEF RulesStep, Rules!Next
<1>4. CASE Voters(vs) # Others /\ votes' = vs /\ status' = "VOTING" /\ turns' = turns
  <2>1. Voters(votes)' = Voters(vs) /\ Others' = Others
    BY <1>4 DEF Voters, Others, Current
  <2>2. /\ PhaseOf' = PhaseOf /\ UNCHANGED <<playerOrder, TotalOf>> /\ Len(turns') = Len(turns)
        /\ PendingOf' = PendingOf \ S
    BY <1>1, <1>4, <2>1 DEF PhaseOf, TotalOf, PendingOf, Others
  <2>3. CASE S = {}
    <3>1. UNCHANGED <<PhaseOf, playerOrder, TotalOf, Len(turns), PendingOf>>
      BY <2>2, <2>3
    <3> QED
      BY <3>1 DEF RulesStep, Rules!vars, PhaseOf, TotalOf, PendingOf
  <2>4. CASE S # {}
    <3>1. Rules!CastVotes(S)
      <4> HIDE DEF S
      <4> QED
        BY <1>1, <1>4, <2>2, <2>4 DEF Rules!CastVotes, PhaseOf, TotalOf, PendingOf
    <3> QED
      BY <1>2, <3>1 DEF RulesStep, Rules!Next
  <2> QED
    BY <2>3, <2>4
<1> QED
  BY <1>3, <1>4, VotesIn

\* What leaves the table alone is no step of the rules.
LEMMA QuietStep ==
  ASSUME AInv, UNCHANGED <<status, turns, votes, playerOrder, settings>>, Started => players' = players
  PROVE  RulesStep
<1>1. UNCHANGED <<PhaseOf, playerOrder, TotalOf, Len(turns), PendingOf>>
  BY DEF PhaseOf, TotalOf, PendingOf, Started, Current, Voters
<1> QED
  BY <1>1 DEF RulesStep, Rules!vars, PhaseOf, TotalOf, PendingOf

\* The host's start seats two players or more, each of them once.
LEMMA StartStep ==
  ASSUME AInv, NEW u \in Users, NEW r \in RoundChoices, NEW b \in BankChoices,
         StartGame(u, r, b), Cardinality(players) > 1
  PROVE  RulesStep
<1> DEFINE n == Cardinality(players)
<1>1. players \in SUBSET Ids /\ players # {} /\ playerOrder' \in Orders(players) /\ status = "LOBBY" /\ turns = <<>>
  BY DEF StartGame, AInv, IInv, TypeOK, GameState
<1>2. /\ IsFiniteSet(players) /\ IsFiniteSet(Ids) /\ n \in Nat
      /\ Cardinality(Ids) \in Nat /\ n <= Cardinality(Ids)
  BY <1>1, IdsFinite, CountIds, FS_Subset
<1>3. n \in 2..Cardinality(Ids)
  BY <1>2
<1>4. /\ playerOrder' \in [1..n -> players] /\ DOMAIN playerOrder' = 1..n
      /\ \A p \in players : \E i \in 1..n : playerOrder'[i] = p
  BY <1>1 DEF Orders
<1>5. playerOrder' \in [1..n -> Ids] /\ Len(playerOrder') = n
  BY <1>1, <1>2, <1>4
<1>6. \A i, j \in DOMAIN playerOrder' : playerOrder'[i] = playerOrder'[j] => i = j
  <2>1. IsFiniteSet(1..n) /\ Cardinality(1..n) = n
    BY <1>2, FS_Interval
  <2>2. playerOrder' \in Surjection(1..n, players)
    BY <1>4 DEF Surjection
  <2>3. playerOrder' \in Injection(1..n, players)
    BY <1>2, <2>1, <2>2, FS_SurjSameCardinalityImpliesInj
  <2> QED
    BY <1>4, <2>3 DEF Injection, IsInjective
<1>7. r \in Nat \ {0} /\ settings'.numRounds = r /\ r * Len(playerOrder') # 0
  BY <1>2, <1>5, SettingsAssumption DEF StartGame
<1>8. status' = "SUBMISSION" /\ Len(turns') = 1
  BY <1>7 DEF StartGame, StartNextTurnOrEndGame
<1>9. /\ PhaseOf = "gathering" /\ PhaseOf' = "submitting" /\ TotalOf' = r * Len(playerOrder')
      /\ PendingOf = {} /\ PendingOf' = {}
  BY <1>1, <1>7, <1>8 DEF PhaseOf, TotalOf, PendingOf
<1>10. Rules!Start(playerOrder', r)
  BY <1>6, <1>8, <1>9 DEF Rules!Start, PhaseOf, TotalOf, PendingOf
<1> HIDE DEF n
<1>11. \E q \in RoundChoices : \E order \in [1..n -> Ids] : Rules!Start(order, q)
  BY <1>5, <1>10
<1>12. \E m \in 2..Cardinality(Ids), q \in RoundChoices : \E order \in [1..m -> Ids] : Rules!Start(order, q)
  BY <1>3, <1>11
<1>13. Rules!Cardinality(Ids) = Cardinality(Ids)
  BY DEF Rules!Cardinality, Cardinality
<1> QED
  BY <1>12, <1>13 DEF RulesStep, Rules!Next

\* No step rewrites a decided turn.
LastOpen == \A i \in DOMAIN turns : Decided(turns[i]) => turns'[i] = turns[i]

LEMMA KeptIsEnough ==
  ASSUME AInv, status \in {"SUBMISSION", "VOTING"}, Kept
  PROVE  LastOpen
<1>1. turns \in Seq(Turn) /\ Len(turns) \in Nat
  BY DEF AInv, IInv, TypeOK
<1> QED
  BY <1>1 DEF AInv, History, Kept, LastOpen

LEMMA CallsKeepTheRules ==
  ASSUME AInv, SeatedGameCalls
  PROVE  RulesStep /\ LastOpen
<1> SUFFICES ASSUME NEW u \in Users,
                    \/ \E w \in Words : SubmitWord(u, w)
                    \/ RequestNewWords(u)
                    \/ u \in players /\ \E v \in {"pass", "challenge"} : VoteOnWord(u, v)
             PROVE  RulesStep /\ LastOpen
  BY DEF SeatedGameCalls
<1> USE DEF roster, rules
<1>1. ASSUME NEW w \in Words, SubmitWord(u, w) PROVE RulesStep /\ LastOpen
  <2>1. /\ status = "SUBMISSION" /\ HandleWordSubmission(w)
        /\ UNCHANGED <<players, playerOrder, settings, votes>>
    BY <1>1 DEF SubmitWord
  <2> QED
    BY <2>1, WordStep, WordIn, KeptIsEnough
<1>2. CASE RequestNewWords(u)
  <2>1. UNCHANGED <<status, turns, votes, playerOrder, settings, players>>
    BY <1>2 DEF RequestNewWords
  <2> QED
    BY <2>1, QuietStep DEF LastOpen
<1>3. ASSUME u \in players, NEW v \in {"pass", "challenge"}, VoteOnWord(u, v) PROVE RulesStep /\ LastOpen
  <2> DEFINE vs == UserVote(u, v)
  <2> HIDE DEF vs
  <2>1. /\ vs \in [Ids -> Vote] /\ status = "VOTING" /\ HandleVote(vs)
        /\ Voters(votes) \subseteq Voters(vs) /\ Voters(vs) \subseteq Others
    <3>1. /\ vs \in [Ids -> Vote] /\ status = "VOTING" /\ HandleVote(vs)
          /\ Voters(vs) = Voters(votes) \cup {u} /\ Voters(vs) \subseteq Others
      BY <1>3, UserBallot DEF vs
    <3> QED
      BY <3>1
  <2>2. UNCHANGED <<players, playerOrder, settings>>
    BY <1>3 DEF VoteOnWord
  <2> QED
    BY <2>1, <2>2, VoteStep, VotesIn, KeptIsEnough
<1> QED
  BY <1>1, <1>2, <1>3

LEMMA BotsKeepTheRules ==
  ASSUME AInv, BotSteps \/ BotErrors
  PROVE  RulesStep /\ LastOpen
<1> SUFFICES ASSUME NEW j \in jobs,
                    \/ \E a \in Words \cup {"pass", "challenge"} : BotAnswers(j, a)
                    \/ BotTurnCommits(j)
                    \/ \E chosen \in j.bots : BotVoteCommits(j, chosen)
                    \/ BotFails(j)
             PROVE  RulesStep /\ LastOpen
  BY DEF BotSteps, BotErrors
<1> USE DEF roster, rules
<1>1. CASE BotFails(j) \/ \E a \in Words \cup {"pass", "challenge"} : BotAnswers(j, a)
  <2>1. UNCHANGED <<status, turns, votes, playerOrder, settings, players>>
    BY <1>1 DEF BotFails, BotAnswers, table
  <2> QED
    BY <2>1, QuietStep DEF LastOpen
<1>2. CASE BotTurnCommits(j)
  <2>1. /\ status = "SUBMISSION" /\ j.answer \in Words /\ HandleWordSubmission(j.answer)
        /\ UNCHANGED <<players, playerOrder, settings, votes>>
    BY <1>2, BotsTurn DEF BotTurnCommits
  <2> QED
    BY <2>1, WordStep, WordIn, KeptIsEnough
<1>3. ASSUME NEW chosen \in j.bots, BotVoteCommits(j, chosen) PROVE RulesStep /\ LastOpen
  <2> DEFINE vs == BotBallot(j, chosen)
  <2>1. /\ vs \in [Ids -> Vote] /\ status = "VOTING" /\ HandleVote(vs)
        /\ Voters(votes) \subseteq Voters(vs) /\ Voters(vs) \subseteq Others
    BY <1>3, BotsBallot
  <2>2. UNCHANGED <<players, playerOrder, settings>>
    BY <1>3 DEF BotVoteCommits
  <2> HIDE DEF vs
  <2> QED
    BY <2>1, <2>2, VoteStep, VotesIn, KeptIsEnough
<1> QED
  BY <1>1, <1>2, <1>3

\* Every step of a seated game is one of the rules, or none, and leaves the
\* decided turns alone.
LEMMA StepsKeepTheRules ==
  ASSUME AInv, [SeatedNext]_vars
  PROVE  RulesStep /\ LastOpen
<1> USE DEF roster, rules, table
<1>1. ASSUME UNCHANGED <<status, turns, votes, playerOrder, settings>>, Started => players' = players
      PROVE  RulesStep /\ LastOpen
  BY <1>1, QuietStep DEF LastOpen
<1>2. CASE Joins
  <2>1. PICK u \in Users : JoinLobby(u) \/ JoinUpdate(u) \/ JoinMapping(u)
    BY <1>2 DEF Joins
  <2> QED
    BY <1>1, <2>1 DEF JoinLobby, JoinUpdate, JoinMapping, Started
<1>3. CASE SeatedHostCalls
  <2>1. ASSUME NEW u \in Users, AddBot(u) PROVE RulesStep /\ LastOpen
    BY <1>1, <2>1 DEF AddBot, Started
  <2>2. ASSUME NEW u \in Users, NEW r \in RoundChoices, NEW b \in BankChoices,
               StartGame(u, r, b), Cardinality(players) > 1
        PROVE  RulesStep /\ LastOpen
    <3>1. turns = <<>>
      BY <2>2 DEF StartGame, AInv, IInv, GameState
    <3> QED
      BY <2>2, <3>1, StartStep DEF LastOpen
  <2> QED
    BY <1>3, <2>1, <2>2 DEF SeatedHostCalls
<1>4. CASE UNCHANGED vars
  BY <1>1, <1>4 DEF vars
<1> QED
  BY <1>2, <1>3, <1>4, CallsKeepTheRules, BotsKeepTheRules DEF SeatedNext

----------------------------------------------------------------------------
(******************************* The theorems ******************************)

\* The invariant of seated games.
THEOREM AppInvariant == SeatedSpec => []AInv
  BY InitAInv, NextAInv, PTL DEF SeatedSpec

\* Exactly the turns before the current one are decided, and the current one
\* once the game is over: no commit decides a turn twice or skips one.
THEOREM TurnsDecidedInOrder == SeatedSpec => []DecidedInOrder
<1>1. ASSUME AInv  PROVE DecidedInOrder
  <2>1. DOMAIN turns = 1..Len(turns)
    BY <1>1 DEF AInv, IInv, TypeOK
  <2> QED
    BY <1>1, <2>1 DEF AInv, History, DecidedInOrder
<1> QED
  BY <1>1, AppInvariant, PTL

\* A vote never has as many votes as would end it: the strict equality in
\* handleVote is met when the last vote comes in, and cannot be overshot.
THEOREM VotesStayOpen == SeatedSpec => []VoteStaysOpen
<1>1. ASSUME AInv, status = "VOTING"  PROVE Cardinality(Voters(votes)) < Len(playerOrder) - 1
  <2>1. IInv /\ Started /\ Voters(votes) \subseteq Others /\ Voters(votes) # Others
    BY <1>1 DEF AInv, Ballots, Started
  <2>2. Cardinality(Others) = Len(playerOrder) - 1 /\ Others \in SUBSET Ids /\ Len(playerOrder) \in Nat
    BY <2>1, OthersCount DEF Others
  <2>3. IsFiniteSet(Others) /\ Cardinality(Voters(votes)) \in Nat
    BY <2>1, <2>2, CountIds
  <2> QED
    BY <2>1, <2>2, <2>3, FS_Subset
<1> QED
  BY <1>1, AppInvariant, PTL DEF VoteStaysOpen

\* A vote leaves nothing behind for the next one.
THEOREM VotesAreCleared == SeatedSpec => []NoVotesBetweenTurns
<1>1. AInv => NoVotesBetweenTurns
  BY DEF AInv, Ballots, NoVotesBetweenTurns
<1> QED
  BY <1>1, AppInvariant, PTL

\* A decided turn is never rewritten: the commits of the bots, which validate
\* nothing, come in time or not at all.
THEOREM DecidedTurnsStay == SeatedSpec => DecidedStays
<1>1. AInv /\ [SeatedNext]_vars => [\A i \in DOMAIN turns : Decided(turns[i]) => turns'[i] = turns[i]]_vars
  BY StepsKeepTheRules DEF LastOpen
<1> QED
  BY <1>1, AppInvariant, PTL DEF SeatedSpec, DecidedStays

\* The backend implements TurnGame among seated players.
THEOREM GameKeepsTheRules == SeatedSpec => KeepsTheRules
<1>1. Init => Rules!Init
  BY DEF Init, Rules!Init, NoSettings
<1>2. AInv /\ [SeatedNext]_vars => [Rules!Next]_(Rules!vars)
  BY StepsKeepTheRules DEF RulesStep
<1> QED
  BY <1>1, <1>2, AppInvariant, PTL DEF SeatedSpec, KeepsTheRules, Rules!Spec

\* A challenge stands until the vote is over: its player cannot take it back, and
\* the bots' commit writes the votes of bots that have none.
THEOREM ChallengesStand == SeatedSpec => ChallengeStands
<1>1. ASSUME AInv, [SeatedNext]_vars, SameVote, NEW p \in Ids, votes[p] = "challenge"
      PROVE  votes'[p] = "challenge"
  <2>1. votes \in [Ids -> Vote] /\ status = "VOTING" /\ status' = "VOTING" /\ Len(turns) \in Nat
        /\ p \in Voters(votes)
    BY <1>1, OnTheTable DEF AInv, IInv, TypeOK, SameVote, Started, Voters
  <2>2. ASSUME NEW vs \in [Ids -> Vote], Voters(vs) \subseteq Others, HandleVote(vs),
               UNCHANGED <<players, playerOrder>>
        PROVE  votes' = vs
    BY <1>1, <2>1, <2>2, VotesIn DEF Decides, SameVote
  <2>3. ASSUME NEW u \in Users, NEW v \in {"pass", "challenge"}, u \in players, VoteOnWord(u, v)
        PROVE  votes'[p] = "challenge"
    <3> DEFINE vs == UserVote(u, v)
    <3> HIDE DEF vs
    <3>1. vs \in [Ids -> Vote] /\ HandleVote(vs) /\ Voters(vs) \subseteq Others
      BY <1>1, <2>3, UserBallot DEF vs
    <3>2. u # p /\ UNCHANGED <<players, playerOrder>>
      BY <1>1, <2>3 DEF VoteOnWord, AlreadyVoted, roster, rules
    <3>3. vs[p] = "challenge"
      BY <1>1, <2>1, <3>2 DEF vs, UserVote
    <3> QED
      BY <2>2, <3>1, <3>2, <3>3
  <2>4. ASSUME NEW j \in jobs, NEW chosen \in j.bots, BotVoteCommits(j, chosen)
        PROVE  votes'[p] = "challenge"
    <3> DEFINE vs == BotBallot(j, chosen)
    <3>1. /\ vs \in [Ids -> Vote] /\ HandleVote(vs) /\ Voters(vs) \subseteq Others
          /\ j.bots \subseteq Others \ Voters(votes)
      BY <1>1, <2>4, BotsBallot
    <3>2. UNCHANGED <<players, playerOrder>>
      BY <2>4 DEF BotVoteCommits, roster, rules
    <3>3. vs[p] = "challenge"
      BY <1>1, <2>1, <2>4, <3>1 DEF BotBallot
    <3> HIDE DEF vs
    <3> QED
      BY <2>2, <3>1, <3>2, <3>3
  <2>5. ASSUME NEW j \in jobs, BotTurnCommits(j)  PROVE FALSE
    BY <1>1, <2>1, <2>5, BotsTurn
  <2>6. CASE UNCHANGED votes
    BY <1>1, <2>6
  <2>7. CASE SeatedGameCalls
    BY <2>1, <2>3, <2>6, <2>7 DEF SeatedGameCalls, SubmitWord, RequestNewWords
  <2>8. CASE BotSteps \/ BotErrors
    BY <2>4, <2>5, <2>6, <2>8 DEF BotSteps, BotErrors, BotAnswers, BotFails, table
  <2> QED
    BY <1>1, <2>6, <2>7, <2>8 DEF SeatedNext, Joins, JoinLobby, JoinUpdate, JoinMapping, SeatedHostCalls,
                                  AddBot, StartGame, vars, table
<1>2. AInv /\ [SeatedNext]_vars => [SameVote => \A p \in Ids : votes[p] = "challenge" => votes'[p] = "challenge"]_vars
  BY <1>1
<1> QED
  BY <1>2, AppInvariant, PTL DEF SeatedSpec, ChallengeStands

----------------------------------------------------------------------------
(******************************** The scores *******************************)

\* The turns before the last one.
Earlier(ts) == [i \in 1..(Len(ts) - 1) |-> ts[i]]

\* The account of the turns ts, turn by turn.
Account(ts, e) ==
  /\ e \in [0..Len(ts) -> [Ids -> Int]] /\ e[0] = [p \in Ids |-> 0]
  /\ \A i \in 1..Len(ts) : e[i] = IF Decided(ts[i]) THEN ScoreTurn(e[i - 1], ts[i]) ELSE e[i - 1]

\* The recursion of Explained defines an account.
LEMMA AccountExists ==
  ASSUME NEW ts \in Seq(Turn)
  PROVE  \E e : Account(ts, e)
<1> DEFINE V == [Ids -> Int]
           Step(i, sc) == IF i \in 1..Len(ts) /\ Decided(ts[i]) THEN ScoreTurn(sc, ts[i]) ELSE sc
           F == [x \in Nat \X V |-> Step(x[1] + 1, x[2])]
           v0 == [p \in Ids |-> 0]
<1>1. ASSUME NEW i, NEW sc \in V  PROVE Step(i, sc) \in V
  <2>1. CASE i \in 1..Len(ts) /\ Decided(ts[i])
    <3>1. ts[i] \in Turn
      BY <2>1
    <3> QED
      BY <2>1, <3>1, ScoreTurnType
  <2> QED
    BY <2>1
<1>2. F \in [Nat \X V -> V] /\ v0 \in V
  <2> HIDE DEF Step, V
  <2>1. \A x \in Nat \X V : x[1] + 1 \in Nat /\ x[2] \in V
    OBVIOUS
  <2>2. F \in [Nat \X V -> V]
    BY <1>1, <2>1
  <2> QED
    BY <2>2 DEF V
<1>3. \A k \in Nat, sc \in V : F[<<k, sc>>] = Step(k + 1, sc)
  <2> HIDE DEF Step, V
  <2> QED
    OBVIOUS
<1> HIDE DEF F, V, v0
<1>4. PICK f \in [Nat -> V] : f[0] = v0 /\ \A k \in Nat : f[k + 1] = F[<<k, f[k]>>]
  <2>1. \E f \in [Nat -> V] : GoesOn(f, v0, F)
    BY <1>2, RecursionExists
  <2> QED
    BY <2>1 DEF GoesOn
<1> DEFINE e == [i \in 0..Len(ts) |-> f[i]]
<1>len. Len(ts) \in Nat
  OBVIOUS
<1>5. e \in [0..Len(ts) -> V] /\ e[0] = v0
  BY <1>4, <1>len
<1>6. ASSUME NEW i \in 1..Len(ts)
      PROVE  e[i] = IF Decided(ts[i]) THEN ScoreTurn(e[i - 1], ts[i]) ELSE e[i - 1]
  <2>1. i - 1 \in Nat /\ (i - 1) + 1 = i /\ f[i - 1] \in V
    BY <1>4
  <2>2. f[i] = Step(i, f[i - 1])
    <3> HIDE DEF Step
    <3> QED
      BY <1>3, <1>4, <2>1
  <2> QED
    BY <2>1, <2>2
<1> QED
  BY <1>5, <1>6 DEF Account, V, v0

\* Any two accounts of one history agree, also when one of them goes on.
LEMMA AccountsAgree ==
  ASSUME NEW ts \in Seq(Turn), NEW us \in Seq(Turn), NEW n \in Nat, n <= Len(ts), n <= Len(us),
         \A i \in 1..n : ts[i] = us[i], NEW d, NEW e, Account(ts, d), Account(us, e)
  PROVE  d[n] = e[n]
<1> DEFINE S == {k \in Nat : k <= n => d[k] = e[k]}
<1>1. 0 \in S
  BY DEF Account
<1>2. ASSUME NEW k \in Nat, k \in S  PROVE k + 1 \in S
  <2> SUFFICES ASSUME k + 1 <= n  PROVE d[k + 1] = e[k + 1]
    OBVIOUS
  <2>1. /\ d[k] = e[k] /\ ts[k + 1] = us[k + 1] /\ (k + 1) - 1 = k
        /\ k + 1 \in 1..Len(ts) /\ k + 1 \in 1..Len(us)
    BY <1>2
  <2>2. d[k + 1] = IF Decided(ts[k + 1]) THEN ScoreTurn(d[k], ts[k + 1]) ELSE d[k]
    BY <2>1 DEF Account
  <2>3. e[k + 1] = IF Decided(us[k + 1]) THEN ScoreTurn(e[k], us[k + 1]) ELSE e[k]
    BY <2>1 DEF Account
  <2> QED
    BY <2>1, <2>2, <2>3
<1>3. n \in S
  <2> HIDE DEF S
  <2> QED
    BY <1>1, <1>2, SetInduction
<1> QED
  BY <1>3

LEMMA ExplainedIs ==
  ASSUME NEW ts \in Seq(Turn), NEW e, Account(ts, e)
  PROVE  Explained(ts) = e[Len(ts)] /\ Explained(ts) \in [Ids -> Int]
<1> DEFINE Rec(f) == [i \in 0..Len(ts) |->
                        IF i = 0 THEN [p \in Ids |-> 0]
                        ELSE IF Decided(ts[i]) THEN ScoreTurn(f[i - 1], ts[i]) ELSE f[i - 1]]
           after == CHOOSE f : f = Rec(f)
<1>1. Explained(ts) = after[Len(ts)]
  BY DEF Explained
<1>2. e = Rec(e)
  BY DEF Account
<1>3. after = Rec(after)
  BY <1>2
<1> HIDE DEF after
<1>4. /\ after[0] = [p \in Ids |-> 0]
      /\ \A i \in 1..Len(ts) : after[i] = IF Decided(ts[i]) THEN ScoreTurn(after[i - 1], ts[i]) ELSE after[i - 1]
  <2> DEFINE G(i) == IF i = 0 THEN [p \in Ids |-> 0]
                     ELSE IF Decided(ts[i]) THEN ScoreTurn(after[i - 1], ts[i]) ELSE after[i - 1]
  <2>1. after = [i \in 0..Len(ts) |-> G(i)]
    BY <1>3
  <2>2. G(0) = [p \in Ids |-> 0]
    OBVIOUS
  <2>3. \A i \in 1..Len(ts) : G(i) = IF Decided(ts[i]) THEN ScoreTurn(after[i - 1], ts[i]) ELSE after[i - 1]
    OBVIOUS
  <2> HIDE DEF G
  <2>4. \A i \in 0..Len(ts) : after[i] = G(i)
    BY <2>1
  <2>5. Len(ts) \in Nat
    OBVIOUS
  <2>6. 0 \in 0..Len(ts) /\ \A i \in 1..Len(ts) : i \in 0..Len(ts)
    BY <2>5
  <2> QED
    BY <2>2, <2>3, <2>4, <2>6
<1> DEFINE S == {k \in Nat : k <= Len(ts) => after[k] = e[k]}
<1>5. 0 \in S
  BY <1>4 DEF Account
<1>6. ASSUME NEW k \in Nat, k \in S  PROVE k + 1 \in S
  <2> SUFFICES ASSUME k + 1 <= Len(ts)  PROVE after[k + 1] = e[k + 1]
    OBVIOUS
  <2>1. after[k] = e[k] /\ (k + 1) - 1 = k /\ k + 1 \in 1..Len(ts)
    BY <1>6
  <2>2. e[k + 1] = IF Decided(ts[k + 1]) THEN ScoreTurn(e[k], ts[k + 1]) ELSE e[k]
    BY <2>1 DEF Account
  <2> HIDE DEF Rec
  <2> QED
    BY <1>4, <2>1, <2>2
<1>7. Len(ts) \in S
  <2> HIDE DEF S
  <2> QED
    BY <1>5, <1>6, SetInduction
<1>8. after[Len(ts)] = e[Len(ts)] /\ e[Len(ts)] \in [Ids -> Int]
  BY <1>7 DEF Account
<1> QED
  BY <1>1, <1>8

LEMMA ExplainedNone == Explained(<<>>) = [p \in Ids |-> 0]
<1>1. <<>> \in Seq(Turn) /\ Len(<<>>) = 0
  OBVIOUS
<1>2. PICK e : Account(<<>>, e)
  BY <1>1, AccountExists
<1>3. Explained(<<>>) = e[Len(<<>>)]
  BY <1>1, <1>2, ExplainedIs
<1> QED
  BY <1>1, <1>2, <1>3 DEF Account

\* The last turn settles its bets on top of what the earlier turns explain.
LEMMA ExplainedLast ==
  ASSUME NEW ts \in Seq(Turn), Len(ts) # 0
  PROVE  LET n == Len(ts)
         IN  /\ Earlier(ts) \in Seq(Turn) /\ Explained(Earlier(ts)) \in [Ids -> Int]
             /\ Explained(ts) = IF Decided(ts[n]) THEN ScoreTurn(Explained(Earlier(ts)), ts[n])
                                ELSE Explained(Earlier(ts))
<1> DEFINE n == Len(ts)
           us == Earlier(ts)
<1>1. n \in Nat /\ n >= 1 /\ n - 1 \in Nat
  OBVIOUS
<1>2. us \in Seq(Turn) /\ Len(us) = n - 1 /\ \A i \in 1..(n - 1) : us[i] = ts[i]
  BY <1>1 DEF Earlier
<1> HIDE DEF us
<1>3. PICK d : Account(ts, d)
  BY AccountExists
<1>4. PICK e : Account(us, e)
  BY <1>2, AccountExists
<1>5. /\ Explained(ts) = d[n] /\ Explained(us) = e[n - 1] /\ Explained(us) \in [Ids -> Int]
  BY <1>2, <1>3, <1>4, ExplainedIs
<1>6. d[n - 1] = e[n - 1]
  <2>1. \A i \in 1..(n - 1) : ts[i] = us[i]
    BY <1>2
  <2> HIDE DEF n
  <2>2. n - 1 <= Len(ts) /\ n - 1 <= Len(us)
    BY <1>1, <1>2 DEF n
  <2> QED
    BY <1>1, <1>2, <1>3, <1>4, <2>1, <2>2, AccountsAgree
<1>7. d[n] = IF Decided(ts[n]) THEN ScoreTurn(d[n - 1], ts[n]) ELSE d[n - 1]
  BY <1>1, <1>3 DEF Account
<1> QED
  BY <1>2, <1>5, <1>6, <1>7 DEF us

\* Histories that differ in nothing but how the last turn stands.
LEMMA EarlierSame ==
  ASSUME NEW ts \in Seq(Turn), NEW us \in Seq(Turn), Len(us) = Len(ts),
         \A i \in 1..(Len(ts) - 1) : us[i] = ts[i]
  PROVE  Earlier(us) = Earlier(ts)
  BY DEF Earlier

\* Swaps of words and bets do not interfere.
LEMMA ScoreTurnShift ==
  ASSUME NEW sc \in [Ids -> Int], NEW r \in [Ids -> Nat], NEW t \in Turn
  PROVE  ScoreTurn([p \in Ids |-> sc[p] - r[p]], t) = [p \in Ids |-> ScoreTurn(sc, t)[p] - r[p]]
<1>1. Cardinality(Challengers(t.votes)) \in Nat
  BY CountIds DEF Challengers
<1> QED
  BY <1>1 DEF ScoreTurn

\* The next turn begins behind the turns there are.
LEMMA NextTurnKeeps ==
  ASSUME NEW ts \in Seq(Turn), NEW order, NEW r, StartNextTurnOrEndGame(ts, order, r)
  PROVE  /\ \A i \in 1..Len(ts) : turns'[i] = ts[i]
         /\ \/ status' = "DONE" /\ turns' = ts
            \/ status' = "SUBMISSION" /\ Len(turns') = Len(ts) + 1
<1> DEFINE p == order[(Len(ts) % Len(order)) + 1]
<1>1. \/ status' = "DONE" /\ turns' = ts
      \/ status' = "SUBMISSION" /\ turns' = Append(ts, NewTurn(p))
  BY DEF StartNextTurnOrEndGame
<1> HIDE DEF p
<1> QED
  BY <1>1

----------------------------------------------------------------------------
LEMMA TurnScored ==
  ASSUME AInv, AInv', Started, status # "DONE", ScoresExplained, rerolls' = rerolls,
         NEW t \in Turn, Decided(t), NEW ts, ts = [turns EXCEPT ![Len(turns)] = t],
         StartNextTurnOrEndGame(ts, playerOrder, settings.numRounds), score' = ScoreTurn(score, t)
  PROVE  ScoresExplained'
<1> DEFINE n == Len(turns)
           base == Explained(Earlier(turns))
<1>1. turns \in Seq(Turn) /\ n \in Nat \ {0} /\ rerolls \in [Ids -> Nat] /\ turns' \in Seq(Turn)
  BY OnTheTable DEF AInv, IInv, TypeOK
<1>2. /\ ts \in Seq(Turn) /\ Len(ts) = n /\ ts[n] = t
      /\ \A i \in 1..(n - 1) : ts[i] = turns[i]
  BY <1>1
<1>3. ~ Decided(turns[n])
  BY <1>1 DEF AInv, History
<1>4. base \in [Ids -> Int] /\ Explained(turns) = base
  BY <1>1, <1>3, ExplainedLast
<1>5. Explained(ts) = ScoreTurn(base, t)
  <2>1. Earlier(ts) = Earlier(turns)
    BY <1>1, <1>2, EarlierSame
  <2> QED
    BY <1>1, <1>2, <2>1, ExplainedLast
<1>6. Explained(turns') = Explained(ts)
  <2>1. /\ \A i \in 1..n : turns'[i] = ts[i]
        /\ \/ turns' = ts
           \/ status' = "SUBMISSION" /\ Len(turns') = n + 1
    BY <1>2, NextTurnKeeps
  <2>2. CASE status' = "SUBMISSION" /\ Len(turns') = n + 1
    <3>1. ~ Decided(turns'[n + 1])
      BY <1>1, <2>2 DEF AInv, History
    <3>2. Len(turns') = n + 1 /\ (n + 1) - 1 = n
      BY <1>1, <2>2
    <3>3. Earlier(turns') = [i \in 1..n |-> ts[i]]
      <4> HIDE DEF n
      <4> QED
        BY <2>1, <3>2 DEF Earlier
    <3>4. ts = [i \in 1..n |-> ts[i]]
      <4>1. ts \in [1..n -> Turn]
        BY <1>1, <1>2, LenProperties
      <4> QED
        BY <4>1
    <3>5. Len(turns') # 0
      BY <1>1, <3>2
    <3> HIDE DEF n
    <3> QED
      BY <1>1, <3>1, <3>2, <3>3, <3>4, <3>5, ExplainedLast
  <2> QED
    BY <2>1, <2>2
<1>7. score = [p \in Ids |-> base[p] - rerolls[p]]
  BY <1>4 DEF ScoresExplained
<1> HIDE DEF base
<1>8. score' = [p \in Ids |-> ScoreTurn(base, t)[p] - rerolls[p]]
  BY <1>1, <1>4, <1>7, ScoreTurnShift
<1> QED
  BY <1>5, <1>6, <1>8 DEF ScoresExplained

LEMMA TurnUnscored ==
  ASSUME AInv, AInv', Started, status # "DONE", status' # "DONE", ScoresExplained,
         Len(turns') = Len(turns), Kept, score' = score, rerolls' = rerolls
  PROVE  ScoresExplained'
<1> DEFINE n == Len(turns)
<1>1. turns \in Seq(Turn) /\ n \in Nat \ {0} /\ turns' \in Seq(Turn)
  BY OnTheTable DEF AInv, IInv, TypeOK
<1>2. ~ Decided(turns[n]) /\ ~ Decided(turns'[n])
  BY <1>1 DEF AInv, History
<1>3. Earlier(turns') = Earlier(turns)
  BY <1>1, EarlierSame DEF Kept
<1>4. Explained(turns') = Explained(turns)
  BY <1>1, <1>2, <1>3, ExplainedLast
<1> QED
  BY <1>4 DEF ScoresExplained

LEMMA WordScored ==
  ASSUME AInv, AInv', ScoresExplained, status = "SUBMISSION", NEW w \in Words, HandleWordSubmission(w),
         UNCHANGED <<players, playerOrder, rerolls>>
  PROVE  ScoresExplained'
<1> DEFINE last == Len(turns)
           played == [turns EXCEPT ![last].word = w]
<1>1. Started /\ turns \in Seq(Turn) /\ last \in Nat \ {0} /\ Current \in Turn /\ players \subseteq Ids
  BY OnTheTable DEF AInv, IInv, TypeOK, Started
<1>2. CASE status' = "VOTING" /\ turns' = played /\ score' = score
  <2>1. Len(turns') = Len(turns) /\ Kept
    BY <1>1, <1>2 DEF Kept
  <2> QED
    BY <1>1, <1>2, <2>1, TurnUnscored
<1>3. ASSUME NEW o \in players,
             LET done == [played EXCEPT ![last].other = o]
             IN  /\ score' = ScoreTurn(score, done[last])
                 /\ StartNextTurnOrEndGame(done, playerOrder, settings.numRounds)
      PROVE  ScoresExplained'
  <2> DEFINE t    == [Current EXCEPT !.word = w, !.other = o]
             done == [played EXCEPT ![last].other = o]
  <2>1. o \in Ids /\ o # NoOne
    BY <1>1, BotsAssumption
  <2>2. t \in Turn /\ Decided(t)
    BY <1>1, <2>1 DEF Turn, Decided
  <2>3. done = [turns EXCEPT ![last] = t] /\ done[last] = t
    <3> DEFINE t1 == [Current EXCEPT !.word = w]
    <3>1. played = [turns EXCEPT ![last] = t1]
      BY <1>1 DEF Current
    <3>2. t1 \in Turn /\ t = [t1 EXCEPT !.other = o]
      BY <1>1 DEF Turn
    <3> HIDE DEF t1, t, played
    <3>3. done = [turns EXCEPT ![last] = t]
      BY <1>1, <3>1, <3>2
    <3> QED
      BY <1>1, <3>3
  <2> HIDE DEF t, done
  <2>4. score' = ScoreTurn(score, t) /\ StartNextTurnOrEndGame(done, playerOrder, settings.numRounds)
    BY <1>3, <2>3 DEF done
  <2> QED
    BY <1>1, <2>2, <2>3, <2>4, TurnScored
<1> QED
  BY <1>2, <1>3 DEF HandleWordSubmission

LEMMA VotesScored ==
  ASSUME AInv, AInv', ScoresExplained, status = "VOTING", NEW vs \in [Ids -> Vote], HandleVote(vs),
         UNCHANGED <<players, playerOrder, rerolls>>
  PROVE  ScoresExplained'
<1> DEFINE last == Len(turns)
           v    == IF Current.word \in targetWords[Current.player] THEN "own" ELSE "bluff"
           t    == [Current EXCEPT !.votes = vs, !.verdict = v]
           done == [turns EXCEPT ![last].votes = vs, ![last].verdict = v]
<1>1. Started /\ turns \in Seq(Turn) /\ last \in Nat \ {0} /\ Current \in Turn
  BY OnTheTable DEF AInv, Started
<1>2. CASE AllVotesTallied(vs)
  <2>1. t \in Turn /\ Decided(t)
    BY <1>1 DEF Turn, Decided, Verdict
  <2>2. done = [turns EXCEPT ![last] = t]
    BY <1>1 DEF Current
  <2>3. done[last] = t
    <3> HIDE DEF t, done
    <3> QED
      BY <1>1, <2>2
  <2>4. score' = ScoreTurn(score, done[last]) /\ StartNextTurnOrEndGame(done, playerOrder, settings.numRounds)
    BY <1>2 DEF HandleVote
  <2> HIDE DEF t, done
  <2> QED
    BY <1>1, <2>1, <2>2, <2>3, <2>4, TurnScored
<1>3. CASE ~ AllVotesTallied(vs)
  <2>1. status' = "VOTING" /\ turns' = turns /\ score' = score
    BY <1>3 DEF HandleVote
  <2> QED
    BY <1>1, <2>1, TurnUnscored DEF Kept
<1> QED
  BY <1>2, <1>3

\* Joins, addBot and swaps leave the turns alone; a swap costs what it takes off.
LEMMA NextScores ==
  ASSUME AInv, ScoresExplained, ~ Started => rerolls = [p \in Ids |-> 0], [SeatedNext]_vars
  PROVE  ScoresExplained' /\ (~ Started' => rerolls' = [p \in Ids |-> 0])
<1> USE DEF roster, bots, table, rules
<1>0. AInv'
  BY NextAInv
<1>1. score \in [Ids -> Int] /\ rerolls \in [Ids -> Nat] /\ turns \in Seq(Turn)
  BY DEF AInv, IInv, TypeOK
<1>2. ~ Started => turns = <<>> /\ score = [p \in Ids |-> 0]
  <2> SUFFICES ASSUME ~ Started  PROVE turns = <<>> /\ score = [p \in Ids |-> 0]
    OBVIOUS
  <2>1. turns = <<>>
    BY DEF AInv, IInv, GameState, Started
  <2> QED
    BY <2>1, ExplainedNone DEF ScoresExplained
<1>3. Started => Started'
  <2>1. \A ts, order, rounds : StartNextTurnOrEndGame(ts, order, rounds) => Started'
    BY DEF StartNextTurnOrEndGame, Started
  <2>2. \A w : HandleWordSubmission(w) => Started'
    BY <2>1 DEF HandleWordSubmission, Started
  <2>3. \A vs : HandleVote(vs) => Started'
    BY <2>1 DEF HandleVote, Started
  <2>4. CASE Joins \/ SeatedHostCalls
    BY <2>1, <2>4 DEF Joins, JoinLobby, JoinUpdate, JoinMapping, SeatedHostCalls, AddBot, StartGame, Started
  <2>5. CASE SeatedGameCalls
    BY <2>2, <2>3, <2>5 DEF SeatedGameCalls, SubmitWord, RequestNewWords, VoteOnWord, Started
  <2>6. CASE BotSteps
    BY <2>2, <2>3, <2>6 DEF BotSteps, BotAnswers, BotTurnCommits, BotVoteCommits, Started
  <2>7. CASE BotErrors \/ UNCHANGED vars
    BY <2>7 DEF BotErrors, BotFails, Started, vars
  <2> QED
    BY <2>4, <2>5, <2>6, <2>7 DEF SeatedNext
<1>4. ASSUME UNCHANGED <<turns, score, rerolls>>  PROVE ScoresExplained'
  BY <1>4 DEF ScoresExplained
<1>5. ASSUME NEW u \in Users, JoinLobby(u) \/ JoinUpdate(u) \/ JoinMapping(u)
      PROVE  ScoresExplained' /\ rerolls' = rerolls
  BY <1>1, <1>2, <1>4, <1>5 DEF JoinLobby, JoinUpdate, JoinMapping, Started
<1>6. ASSUME NEW u \in Users, AddBot(u)  PROVE ScoresExplained' /\ rerolls' = rerolls
  <2>1. /\ turns' = turns /\ rerolls' = rerolls /\ ~ Started
        /\ \E b : score' = [score EXCEPT ![b] = 0]
    BY <1>6 DEF AddBot, Started
  <2>2. score' = score
    BY <1>1, <1>2, <2>1
  <2> QED
    BY <1>4, <2>1, <2>2
<1>7. ASSUME NEW u \in Users, NEW r \in RoundChoices, NEW b \in BankChoices, StartGame(u, r, b),
             Cardinality(players) > 1
      PROVE  ScoresExplained' /\ rerolls' = rerolls
  <2>1. /\ ~ Started /\ score' = score /\ rerolls' = rerolls
        /\ StartNextTurnOrEndGame(<<>>, playerOrder', r)
    BY <1>7 DEF StartGame, Started
  <2>2. turns' \in Seq(Turn) /\ Len(turns') \in Nat
    BY <1>0 DEF AInv, IInv, TypeOK
  <2>3. Explained(turns') = Explained(<<>>)
    <3>1. <<>> \in Seq(Turn) /\ Len(<<>>) = 0
      OBVIOUS
    <3>2. CASE turns' = <<>>
      BY <3>2
    <3>3. CASE status' = "SUBMISSION" /\ Len(turns') = 1
      <4>1. ~ Decided(turns'[1])
        BY <1>0, <3>3 DEF AInv, History
      <4>2. Earlier(turns') = <<>>
        BY <3>3 DEF Earlier
      <4> QED
        BY <2>2, <3>3, <4>1, <4>2, ExplainedLast
    <3>4. \/ status' = "DONE" /\ turns' = <<>>
          \/ status' = "SUBMISSION" /\ Len(turns') = Len(<<>>) + 1
      <4>1. StartNextTurnOrEndGame(<<>>, playerOrder', r) /\ <<>> \in Seq(Turn)
        BY <2>1, <3>1
      <4> DEFINE o == playerOrder'
      <4>2. StartNextTurnOrEndGame(<<>>, o, r)
        BY <4>1
      <4> HIDE DEF o
      <4> QED
        BY <3>1, <4>2, NextTurnKeeps
    <3> QED
      BY <3>1, <3>2, <3>3, <3>4
  <2> QED
    BY <1>2, <2>1, <2>3 DEF ScoresExplained
<1>8. ASSUME NEW u \in Users, NEW w \in Words, SubmitWord(u, w)
      PROVE  ScoresExplained' /\ rerolls' = rerolls
  BY <1>0, <1>8, WordScored DEF SubmitWord
<1>9. ASSUME NEW u \in Users, RequestNewWords(u)  PROVE ScoresExplained' /\ Started
  <2>1. /\ turns' = turns /\ score' = [score EXCEPT ![u] = @ - 1] /\ u \in Ids /\ Started
        /\ rerolls' = [rerolls EXCEPT ![u] = @ + 1]
    BY <1>9 DEF RequestNewWords, MaySwap, Started, Ids
  <2> DEFINE ex == Explained(turns)
  <2>2. ex \in [Ids -> Int]
    <3>1. PICK e : Account(turns, e)
      BY <1>1, AccountExists
    <3> QED
      BY <1>1, <3>1, ExplainedIs
  <2>3. score = [p \in Ids |-> ex[p] - rerolls[p]] /\ Explained(turns') = ex
    BY <2>1 DEF ScoresExplained
  <2> HIDE DEF ex
  <2>4. /\ score \in [Ids -> Int] /\ rerolls \in [Ids -> Nat]
        /\ score' \in [Ids -> Int]
    BY <1>0, <2>1 DEF AInv, IInv, TypeOK
  <2>5. ASSUME NEW p \in Ids  PROVE score'[p] = ex[p] - rerolls'[p]
    <3>1. score[p] = ex[p] - rerolls[p] /\ ex[p] \in Int /\ rerolls[p] \in Nat
      BY <2>2, <2>3, <2>4
    <3>2. CASE p = u
      <4>1. score'[p] = score[p] - 1 /\ rerolls'[p] = rerolls[p] + 1
        BY <2>1, <2>4, <3>2
      <4> QED
        BY <3>1, <4>1
    <3>3. CASE p # u
      BY <2>1, <2>4, <3>1, <3>3
    <3> QED
      BY <3>2, <3>3
  <2>6. score' = [p \in Ids |-> ex[p] - rerolls'[p]]
    BY <2>4, <2>5
  <2> QED
    BY <2>1, <2>3, <2>6 DEF ScoresExplained, ex
<1>10. ASSUME NEW u \in Users, u \in players, NEW v \in {"pass", "challenge"}, VoteOnWord(u, v)
       PROVE  ScoresExplained' /\ rerolls' = rerolls
  <2> DEFINE vs == UserVote(u, v)
  <2> HIDE DEF vs
  <2>1. vs \in [Ids -> Vote] /\ status = "VOTING" /\ HandleVote(vs)
    BY <1>10, UserBallot DEF vs
  <2>2. UNCHANGED <<players, playerOrder, rerolls>>
    BY <1>10 DEF VoteOnWord
  <2> QED
    BY <1>0, <2>1, <2>2, VotesScored
<1>11. ASSUME NEW j \in jobs, BotTurnCommits(j)  PROVE ScoresExplained' /\ rerolls' = rerolls
  BY <1>0, <1>11, BotsTurn, WordScored DEF BotTurnCommits
<1>12. ASSUME NEW j \in jobs, NEW chosen \in j.bots, BotVoteCommits(j, chosen)
       PROVE  ScoresExplained' /\ rerolls' = rerolls
  <2>1. /\ BotBallot(j, chosen) \in [Ids -> Vote] /\ status = "VOTING"
        /\ HandleVote(BotBallot(j, chosen))
    BY <1>12, BotsBallot
  <2>2. UNCHANGED <<players, playerOrder, rerolls>>
    BY <1>12 DEF BotVoteCommits
  <2> QED
    BY <1>0, <2>1, <2>2, VotesScored
<1>13. ASSUME NEW j \in jobs, BotFails(j) \/ \E a \in Words \cup {"pass", "challenge"} : BotAnswers(j, a)
       PROVE  ScoresExplained' /\ rerolls' = rerolls
  BY <1>4, <1>13 DEF BotFails, BotAnswers
<1>14. ScoresExplained' /\ (rerolls' = rerolls \/ Started)
  <2>1. CASE Joins
    BY <1>5, <2>1 DEF Joins
  <2>2. CASE SeatedHostCalls
    BY <1>6, <1>7, <2>2 DEF SeatedHostCalls
  <2>3. CASE SeatedGameCalls
    BY <1>8, <1>9, <1>10, <2>3 DEF SeatedGameCalls
  <2>4. CASE BotSteps \/ BotErrors
    BY <1>11, <1>12, <1>13, <2>4 DEF BotSteps, BotErrors
  <2>5. CASE UNCHANGED vars
    BY <1>4, <2>5 DEF vars
  <2> QED
    BY <2>1, <2>2, <2>3, <2>4, <2>5 DEF SeatedNext
<1> QED
  BY <1>3, <1>14

\* Every score is what the record of decided turns and the swaps explain: no
\* turn is scored twice, before its verdict or not at all, whoever resolved it.
THEOREM ScoresAreExplained == SeatedSpec => []ScoresExplained
<1> DEFINE Scores == AInv /\ ScoresExplained /\ (~ Started => rerolls = [p \in Ids |-> 0])
<1>1. Init => Scores
  <2> SUFFICES ASSUME Init  PROVE Scores
    OBVIOUS
  <2>1. /\ turns = <<>> /\ score = [p \in Ids |-> 0] /\ rerolls = [p \in Ids |-> 0]
    BY DEF Init
  <2>2. ScoresExplained
    BY <2>1, ExplainedNone DEF ScoresExplained
  <2> QED
    BY <2>1, <2>2, InitAInv
<1>2. Scores /\ [SeatedNext]_vars => Scores'
  BY NextAInv, NextScores
<1>3. Scores => ScoresExplained
  OBVIOUS
<1> HIDE DEF Scores
<1> QED
  BY <1>1, <1>2, <1>3, PTL DEF SeatedSpec

----------------------------------------------------------------------------
(************************ Bots that are waited for **************************)

\* Every turn whose word is in has a word.
Worded == \A i \in 1..Len(turns) :
            i < Len(turns) \/ status \in {"VOTING", "DONE"} => turns[i].word \in Words

\* What a handler finds when it asks the bot server.
BInv == AInv /\ WInv /\ Worded

\* The flag is up only in a turn of a bot.
Flag == awaitingBotTurn => status = "SUBMISSION" /\ Current.player \in BotIds

\* A new turn behind worded ones leaves them worded.
LEMMA NextTurnWorded ==
  ASSUME NEW ts \in Seq(Turn), \A i \in 1..Len(ts) : ts[i].word \in Words,
         NEW order, NEW r, StartNextTurnOrEndGame(ts, order, r)
  PROVE  Worded'
<1>1. /\ \A i \in 1..Len(ts) : turns'[i] = ts[i]
      /\ \/ status' = "DONE" /\ turns' = ts
         \/ status' = "SUBMISSION" /\ Len(turns') = Len(ts) + 1
  BY NextTurnKeeps
<1>2. CASE status' = "DONE" /\ turns' = ts
  BY <1>2 DEF Worded
<1>3. CASE status' = "SUBMISSION" /\ Len(turns') = Len(ts) + 1
  <2> SUFFICES ASSUME NEW i \in 1..(Len(ts) + 1), i < Len(ts) + 1
               PROVE  turns'[i].word \in Words
    BY <1>3 DEF Worded
  <2>1. i \in 1..Len(ts)
    OBVIOUS
  <2> QED
    BY <1>1, <2>1
<1> QED
  BY <1>1, <1>2, <1>3

\* Turns whose last one is replaced by a worded turn are worded.
LEMMA LastWorded ==
  ASSUME NEW ts \in Seq(Turn), Len(ts) \in Nat \ {0}, NEW t \in Turn, t.word \in Words,
         \A i \in 1..(Len(ts) - 1) : ts[i].word \in Words
  PROVE  /\ [ts EXCEPT ![Len(ts)] = t] \in Seq(Turn) /\ Len([ts EXCEPT ![Len(ts)] = t]) = Len(ts)
         /\ \A i \in 1..Len(ts) : [ts EXCEPT ![Len(ts)] = t][i].word \in Words
<1> DEFINE n == Len(ts)
           ts2 == [ts EXCEPT ![n] = t]
<1>1. /\ ts2 \in Seq(Turn) /\ Len(ts2) = n /\ ts2[n] = t
      /\ \A i \in 1..(n - 1) : ts2[i] = ts[i]
  OBVIOUS
<1> HIDE DEF ts2
<1>2. ASSUME NEW i \in 1..n  PROVE ts2[i].word \in Words
  <2>1. CASE i = n
    BY <1>1, <2>1
  <2>2. CASE i \in 1..(n - 1)
    BY <1>1, <2>2
  <2> QED
    BY <2>1, <2>2
<1> QED
  BY <1>1, <1>2 DEF ts2

\* The word that comes in is the turn's word from then on.
LEMMA WordWorded ==
  ASSUME AInv, Worded, status = "SUBMISSION", NEW w \in Words, HandleWordSubmission(w)
  PROVE  Worded'
<1> DEFINE last   == Len(turns)
           t      == [Current EXCEPT !.word = w]
           played == [turns EXCEPT ![last] = t]
<1>1. /\ turns \in Seq(Turn) /\ last \in Nat \ {0} /\ Started /\ Current \in Turn
      /\ players \subseteq Ids
  BY OnTheTable DEF AInv, Started, IInv, TypeOK
<1>2. t \in Turn /\ t.word = w
  BY <1>1 DEF Turn
<1>3. \A i \in 1..(last - 1) : turns[i].word \in Words
  BY <1>1 DEF Worded
<1>4. played = [turns EXCEPT ![last].word = w]
  BY <1>1 DEF Current
<1> HIDE DEF t
<1>5. CASE turns' = played
  BY <1>1, <1>2, <1>3, <1>5, LastWorded DEF Worded
<1>6. ASSUME NEW o \in players,
             StartNextTurnOrEndGame([played EXCEPT ![last].other = o], playerOrder, settings.numRounds)
      PROVE  Worded'
  <2> DEFINE t2   == [t EXCEPT !.other = o]
             done == [turns EXCEPT ![last] = t2]
  <2>1. t2 \in Turn /\ t2.word = w
    BY <1>1, <1>2 DEF Turn
  <2>2. done = [played EXCEPT ![last].other = o]
    BY <1>1
  <2>3. StartNextTurnOrEndGame(done, playerOrder, settings.numRounds)
    BY <1>6, <2>2
  <2> HIDE DEF t2
  <2>4. /\ done \in Seq(Turn) /\ Len(done) = last
        /\ \A i \in 1..last : done[i].word \in Words
    BY <1>1, <1>3, <2>1, LastWorded
  <2> HIDE DEF done
  <2> QED
    BY <2>3, <2>4, NextTurnWorded
<1> QED
  BY <1>4, <1>5, <1>6 DEF HandleWordSubmission

\* The votes leave every word as it is.
LEMMA VotesWorded ==
  ASSUME AInv, Worded, status = "VOTING", NEW vs \in [Ids -> Vote], HandleVote(vs)
  PROVE  Worded'
<1> DEFINE last == Len(turns)
           v    == IF Current.word \in targetWords[Current.player] THEN "own" ELSE "bluff"
           t    == [Current EXCEPT !.votes = vs, !.verdict = v]
           done == [turns EXCEPT ![last] = t]
<1>1. /\ turns \in Seq(Turn) /\ last \in Nat \ {0} /\ Started /\ Current \in Turn
      /\ \A i \in 1..last : turns[i].word \in Words
  BY OnTheTable DEF AInv, Started, Worded
<1>2. t \in Turn /\ t.word \in Words
  <2>1. t \in Turn /\ t.word = Current.word
    BY <1>1 DEF Turn, Verdict
  <2>2. Current.word \in Words
    BY <1>1 DEF Current
  <2> QED
    BY <2>1, <2>2
<1>3. done = [turns EXCEPT ![last].votes = vs, ![last].verdict = v]
  BY <1>1 DEF Current
<1>4. CASE turns' = turns
  BY <1>1, <1>4 DEF Worded
<1>5. CASE StartNextTurnOrEndGame(done, playerOrder, settings.numRounds)
  <2> HIDE DEF t
  <2>1. /\ done \in Seq(Turn) /\ Len(done) = last
        /\ \A i \in 1..last : done[i].word \in Words
    BY <1>1, <1>2, LastWorded
  <2> HIDE DEF done
  <2> QED
    BY <1>5, <2>1, NextTurnWorded
<1> QED
  BY <1>3, <1>4, <1>5 DEF HandleVote

LEMMA NextBInv == BInv /\ [SeatedNext]_vars => BInv'
<1> SUFFICES ASSUME BInv, [SeatedNext]_vars PROVE Worded'
  BY NextAInv, NextWInv, SeatedNextIsNext DEF BInv
<1>1. AInv /\ Worded
  BY DEF BInv
<1>2. CASE UNCHANGED <<turns, status>>
  BY <1>1, <1>2 DEF Worded
<1>3. CASE Joins
  BY <1>2, <1>3 DEF Joins, JoinLobby, JoinUpdate, JoinMapping, table
<1>4. CASE SeatedHostCalls
  <2>1. ASSUME NEW u \in Users, NEW r, NEW b, StartGame(u, r, b)  PROVE Worded'
    <3> DEFINE o == playerOrder'
    <3>1. StartNextTurnOrEndGame(<<>>, o, r)
      BY <2>1 DEF StartGame
    <3>2. <<>> \in Seq(Turn) /\ \A i \in 1..Len(<<>>) : <<>>[i].word \in Words
      OBVIOUS
    <3> HIDE DEF o
    <3> QED
      BY <3>1, <3>2, NextTurnWorded
  <2> QED
    BY <1>2, <1>4, <2>1 DEF SeatedHostCalls, AddBot
<1>5. CASE SeatedGameCalls
  <2>1. PICK u \in Users : \/ \E w \in Words : SubmitWord(u, w)
                           \/ RequestNewWords(u)
                           \/ u \in players /\ \E v \in {"pass", "challenge"} : VoteOnWord(u, v)
    BY <1>5 DEF SeatedGameCalls
  <2>2. CASE \E w \in Words : SubmitWord(u, w)
    BY <1>1, <2>2, WordWorded DEF SubmitWord
  <2>3. CASE RequestNewWords(u)
    BY <1>2, <2>3 DEF RequestNewWords
  <2>4. ASSUME u \in players, NEW v \in {"pass", "challenge"}, VoteOnWord(u, v)  PROVE Worded'
    <3> DEFINE vs == UserVote(u, v)
    <3> HIDE DEF vs
    <3>1. vs \in [Ids -> Vote] /\ status = "VOTING" /\ HandleVote(vs)
      BY <1>1, <2>1, <2>4, UserBallot DEF vs
    <3> QED
      BY <1>1, <3>1, VotesWorded
  <2> QED
    BY <2>1, <2>2, <2>3, <2>4
<1>6. ASSUME NEW j \in jobs, BotTurnCommits(j)  PROVE Worded'
  BY <1>1, <1>6, BotsTurn, WordWorded
<1>7. ASSUME NEW j \in jobs, NEW chosen \in j.bots, BotVoteCommits(j, chosen)  PROVE Worded'
  BY <1>1, <1>7, BotsBallot, VotesWorded
<1>8. ASSUME NEW j \in jobs, BotFails(j) \/ \E a \in Words \cup {"pass", "challenge"} : BotAnswers(j, a)
      PROVE  Worded'
  BY <1>2, <1>8 DEF BotFails, BotAnswers, table
<1> QED
  BY <1>2, <1>3, <1>4, <1>5, <1>6, <1>7, <1>8 DEF SeatedNext, BotSteps, BotErrors, vars, table

----------------------------------------------------------------------------
\* With an embedding for every word, a handler always gets an answer, and with
\* no other failure the handler always gets to its commit.
LEMMA NoBotFails ==
  ASSUME BInv, Words \subseteq Embedded, ~ BotsMayFail, NEW j \in jobs
  PROVE  ~ BotFails(j)
<1>1. /\ AInv /\ IInv /\ Worded /\ Started
      /\ turns \in Seq(Turn) /\ Len(turns) \in Nat \ {0} /\ Current \in Turn /\ Current.player \in Ids
      /\ targetWords \in [Ids -> SUBSET WordList] /\ votes \in [Ids -> Vote] /\ jobs \subseteq Job
  <2>1. AInv /\ IInv /\ Worded /\ Started
    BY DEF BInv, AInv, IInv, GameState, Started
  <2> QED
    BY <2>1, OnTheTable DEF IInv, TypeOK, Turn
<1>2. CanAnswer(j)
  <2>1. PreviousWord \in Words
    <3>1. CASE Len(turns) = 1
      BY <1>1, <3>1 DEF PreviousWord, BInv, WInv, WordsPartitioned, Words
    <3>2. CASE Len(turns) # 1
      <4> DEFINE n == Len(turns)
      <4>1. n - 1 \in 1..n /\ n - 1 < n
        <5>1. n \in Nat /\ n # 0 /\ n # 1
          BY <1>1, <3>2
        <5> HIDE DEF n
        <5> QED
          BY <5>1
      <4> QED
        BY <1>1, <3>2, <4>1 DEF PreviousWord, Worded
    <3> QED
      BY <3>1, <3>2
  <2>2. targetWords[Current.player] \subseteq Words
    BY <1>1 DEF Words
  <2>3. j.kind # "turn" => Current.word \in Words
    <3>1. ASSUME j.kind # "turn"  PROVE status = "VOTING"
      BY <1>1, <3>1 DEF AInv, Handlers, Job, TurnJob, VoteJob
    <3> QED
      BY <1>1, <3>1 DEF Worded, Current
  <2> QED
    BY <2>1, <2>2, <2>3 DEF CanAnswer
<1>3. ASSUME j.kind = "vote", j.answer # NoAnswer, NEW chosen \in j.bots
      PROVE  ~ TallyThrows(BotBallot(j, chosen))
  <2>1. /\ j.bots \subseteq Others /\ Voters(votes) \subseteq Others
    BY <1>1, <1>3 DEF AInv, Handlers, Ballots
  <2>2. Challengers(BotBallot(j, chosen)) \subseteq Voters(votes) \cup j.bots
    BY <1>1, <1>3 DEF Challengers, Voters, BotBallot, Vote
  <2> QED
    BY <2>1, <2>2 DEF TallyThrows, Others
<1> QED
  BY <1>2, <1>3 DEF BotFails

\* A commit keeps the handlers that go on, and starts the ones it calls for.
LEMMA StillHandled ==
  ASSUME NEW running, FireTriggers(running)
  PROVE  /\ running \subseteq jobs'
         /\ awaitingBotTurn' /\ ~ awaitingBotTurn => \E j \in jobs' : j.kind = "turn"
         /\ awaitingBotVotes' # {} /\ awaitingBotVotes = {} => \E j \in jobs' : j.kind = "vote"
<1>1. NewJob("turn", {}).kind = "turn" /\ NewJob("vote", awaitingBotVotes').kind = "vote"
  BY DEF NewJob
<1> QED
  BY <1>1 DEF FireTriggers

\* The bots that are asked to vote keep the handler that the ask started.
LEMMA VotesKeepServed ==
  ASSUME BInv, BInv', Words \subseteq Embedded, ~ BotsMayFail, BotVotesServed, [SeatedNext]_vars
  PROVE  BotVotesServed'
<1>1. AInv /\ IInv /\ AInv'
  BY DEF BInv, AInv
<1>2. CASE UNCHANGED <<status, awaitingBotVotes, jobs>>
  BY <1>2 DEF BotVotesServed
<1>3. CASE awaitingBotVotes' = {}
  BY <1>3 DEF BotVotesServed
<1>4. ASSUME status = "SUBMISSION", NEW running, FireTriggers(running)
      PROVE  BotVotesServed'
  <2>1. awaitingBotVotes = {}
    BY <1>1, <1>4 DEF AInv, Handlers
  <2> QED
    BY <1>4, <2>1, StillHandled DEF BotVotesServed
<1>5. CASE Joins
  BY <1>2, <1>5 DEF Joins, JoinLobby, JoinUpdate, JoinMapping, table, bots
<1>6. CASE SeatedHostCalls
  <2>1. ASSUME NEW u, NEW r, NEW b, StartGame(u, r, b)  PROVE awaitingBotVotes' = {}
    BY <1>1, <2>1 DEF StartGame, AInv, Handlers
  <2> QED
    BY <1>2, <1>3, <1>6, <2>1 DEF SeatedHostCalls, AddBot, bots
<1>7. CASE SeatedGameCalls
  <2>1. PICK u \in Users : \/ \E w \in Words : SubmitWord(u, w)
                           \/ RequestNewWords(u)
                           \/ u \in players /\ \E v \in {"pass", "challenge"} : VoteOnWord(u, v)
    BY <1>7 DEF SeatedGameCalls
  <2>2. CASE \E w \in Words : SubmitWord(u, w)
    BY <1>4, <2>2 DEF SubmitWord
  <2>3. CASE RequestNewWords(u)
    BY <1>2, <2>3 DEF RequestNewWords, bots
  <2>4. CASE \E v \in {"pass", "challenge"} : VoteOnWord(u, v)
    <3>1. status = "VOTING" /\ awaitingBotVotes' = awaitingBotVotes /\ jobs \subseteq jobs'
      BY <2>4, StillHandled DEF VoteOnWord
    <3> QED
      BY <3>1 DEF BotVotesServed
  <2> QED
    BY <2>1, <2>2, <2>3, <2>4
<1>8. ASSUME NEW j \in jobs, NEW a, BotAnswers(j, a)  PROVE BotVotesServed'
  <2> DEFINE d == [j EXCEPT !.answer = a]
  <2>1. d.kind = j.kind
    BY <1>1 DEF IInv, TypeOK, Job, TurnJob, VoteJob
  <2>2. /\ jobs' = (jobs \ {j}) \cup {d} /\ UNCHANGED <<status, awaitingBotVotes>>
    BY <1>8 DEF BotAnswers, table
  <2> HIDE DEF d
  <2> QED
    BY <2>1, <2>2 DEF BotVotesServed
<1>9. ASSUME NEW j \in jobs, BotTurnCommits(j)  PROVE BotVotesServed'
  BY <1>1, <1>4, <1>9, BotsTurn DEF BotTurnCommits
<1>10. ASSUME NEW j \in jobs, NEW chosen, BotVoteCommits(j, chosen)  PROVE BotVotesServed'
  BY <1>3, <1>10 DEF BotVoteCommits
<1> QED
  BY <1>2, <1>5, <1>6, <1>7, <1>8, <1>9, <1>10, NoBotFails
     DEF SeatedNext, BotSteps, BotErrors, vars, bots, table

----------------------------------------------------------------------------
\* Two numbers in a row differ modulo every number above one.
LEMMA NextSeatDiffers ==
  ASSUME NEW n \in Nat, n >= 1, NEW m \in Nat, m > 1
  PROVE  /\ ((n - 1) % m) + 1 \in 1..m /\ (n % m) + 1 \in 1..m
         /\ ((n - 1) % m) + 1 # (n % m) + 1
<1>1. /\ n % m \in 0..(m - 1) /\ (n - 1) % m \in 0..(m - 1)
      /\ n \div m \in Int /\ (n - 1) \div m \in Int
  OBVIOUS
<1>2. /\ n = m * (n \div m) + (n % m)
      /\ n - 1 = m * ((n - 1) \div m) + ((n - 1) % m)
  OBVIOUS
<1>3. \A a, b \in Int : m * a - m * b # 1
  <2> SUFFICES ASSUME NEW a \in Int, NEW b \in Int  PROVE m * a - m * b # 1
    OBVIOUS
  <2> DEFINE d == a - b
  <2>0. m * d = m * a - m * b
    OBVIOUS
  <2>1. d \in Int
    OBVIOUS
  <2>2. d >= 1 => m * d >= m
    OBVIOUS
  <2>3. d <= 0 => m * d <= 0
    OBVIOUS
  <2> QED
    <3> HIDE DEF d
    <3> QED
      BY <2>0, <2>1, <2>2, <2>3
<1>4. n % m # (n - 1) % m
  <2> SUFFICES ASSUME n % m = (n - 1) % m  PROVE FALSE
    OBVIOUS
  <2>1. PICK a \in Int, b \in Int, c \in Int : n = m * a + c /\ n - 1 = m * b + c
    BY <1>1, <1>2
  <2>2. m * a \in Int /\ m * b \in Int
    OBVIOUS
  <2>3. m * a - m * b = 1
    BY <2>1, <2>2
  <2> QED
    BY <1>3, <2>3
<1> QED
  BY <1>1, <1>4

\* No two turns in a row are of one player.
LEMMA SeatsDiffer ==
  ASSUME IInv, IInv', Seating, Started, UNCHANGED <<players, playerOrder>>, Started',
         Len(turns') = Len(turns) + 1
  PROVE  Current'.player # Current.player
<1> DEFINE n == Len(turns)
           L == Len(playerOrder)
           i == ((n - 1) % L) + 1
           k == (n % L) + 1
<1>1. /\ n \in Nat \ {0} /\ GoodTurns(turns, playerOrder, settings.numRounds)
      /\ Len(turns') = n + 1 /\ GoodTurns(turns', playerOrder, settings'.numRounds)
  BY OnTheTable DEF IInv, GameState
<1>2. /\ players \in SUBSET Ids /\ playerOrder \in Orders(players)
      /\ L \in Nat /\ L > 1 /\ L = Cardinality(players)
  <2>1. Cardinality(players) = L /\ L \in Nat \ {0}
    BY OthersCount
  <2> QED
    BY <2>1 DEF Seating, IInv, TypeOK, GameState
<1>3. Current.player = playerOrder[i] /\ Current'.player = playerOrder[k]
  <2>1. turns[n].player = playerOrder[i]
    BY <1>1 DEF GoodTurns
  <2>2. turns'[n + 1].player = playerOrder[((n + 1 - 1) % L) + 1]
    BY <1>1 DEF GoodTurns
  <2>3. n + 1 - 1 = n
    BY <1>1
  <2> QED
    BY <1>1, <2>1, <2>2, <2>3 DEF Current
<1>4. i \in 1..L /\ k \in 1..L /\ i # k
  <2>1. n \in Nat /\ n >= 1 /\ L \in Nat /\ L > 1
    BY <1>1, <1>2
  <2> HIDE DEF n, L
  <2> QED
    BY <2>1, NextSeatDiffers DEF i, k
<1>5. playerOrder \in Injection(1..L, players)
  <2>1. IsFiniteSet(1..L) /\ Cardinality(1..L) = L
    BY <1>2, FS_Interval
  <2>2. playerOrder \in Surjection(1..L, players)
    BY <1>2 DEF Orders, Surjection
  <2> QED
    BY <1>2, <2>1, <2>2, FS_SurjSameCardinalityImpliesInj
<1> HIDE DEF i, k, L
<1> QED
  BY <1>3, <1>4, <1>5 DEF Injection, IsInjective

\* While the flag is down, the turn that begins raises it for a bot.
LEMMA FlagRaised ==
  ASSUME ~ awaitingBotTurn, awaitingBotTurn' = (awaitingBotTurn \/ BotIsNext),
         NEW running, FireTriggers(running),
         Len(turns) \in Nat, Len(turns') \in Nat,
         \/ status' \in {"VOTING", "DONE"} /\ Len(turns') = Len(turns)
         \/ status' = "SUBMISSION" /\ Len(turns') = Len(turns) + 1
  PROVE  Flag' /\ BotTurnServed'
<1>1. awaitingBotTurn' <=> BotIsNext
  OBVIOUS
<1>2. BotIsNext <=> status' = "SUBMISSION" /\ Current'.player \in BotIds
  BY DEF BotIsNext, Current
<1>3. BotIsNext => \E j \in jobs' : j.kind = "turn"
  BY <1>1, StillHandled
<1> QED
  BY <1>1, <1>2, <1>3 DEF Flag, BotTurnServed

\* With one bot, a bot's turn keeps the handler that its flag started: the
\* bot's own commit, which lowers the flag, begins a turn of somebody else.
LEMMA TurnKeepsServed ==
  ASSUME BInv, BInv', Words \subseteq Embedded, ~ BotsMayFail, Len(Bots) <= 1,
         Flag, BotTurnServed, [SeatedNext]_vars
  PROVE  Flag' /\ BotTurnServed'
<1>1. AInv /\ IInv /\ AInv' /\ IInv' /\ Seating
  BY DEF BInv, AInv
<1>2. turns \in Seq(Turn) /\ turns' \in Seq(Turn) /\ Len(turns) \in Nat /\ Len(turns') \in Nat
  BY <1>1 DEF IInv, TypeOK
<1>3. CASE UNCHANGED <<status, turns, awaitingBotTurn, jobs>>
  BY <1>3 DEF BotTurnServed, Flag, Current
<1>4. CASE Joins
  BY <1>3, <1>4 DEF Joins, JoinLobby, JoinUpdate, JoinMapping, table, bots
<1>5. CASE SeatedHostCalls
  <2>1. ASSUME NEW u, NEW r \in RoundChoices, NEW b, StartGame(u, r, b), Cardinality(players) > 1
        PROVE  Flag' /\ BotTurnServed'
    <3>1. ~ awaitingBotTurn /\ turns = <<>> /\ Len(turns) = 0
      BY <1>1, <2>1 DEF StartGame, Flag, IInv, GameState
    <3>2. /\ awaitingBotTurn' = (awaitingBotTurn \/ BotIsNext) /\ FireTriggers(jobs)
      BY <2>1 DEF StartGame
    <3>3. status' = "SUBMISSION" /\ Len(turns') = 1
      <4> DEFINE o == playerOrder'
      <4>1. StartNextTurnOrEndGame(<<>>, o, r)
        BY <2>1 DEF StartGame
      <4>2. Len(turns') # 0
        <5>1. Started'
          BY <4>1 DEF StartNextTurnOrEndGame, Started
        <5> QED
          BY <1>1, <1>2, <5>1 DEF IInv, GameState, GoodTurns
      <4>3. <<>> \in Seq(Turn) /\ Len(<<>>) = 0
        OBVIOUS
      <4> HIDE DEF o
      <4>4. \/ status' = "DONE" /\ turns' = <<>>
            \/ status' = "SUBMISSION" /\ Len(turns') = Len(<<>>) + 1
        BY <4>1, <4>3, NextTurnKeeps
      <4> QED
        BY <4>2, <4>3, <4>4
    <3> QED
      BY <1>2, <3>1, <3>2, <3>3, FlagRaised
  <2> QED
    BY <1>3, <1>5, <2>1 DEF SeatedHostCalls, AddBot, bots
<1>6. CASE SeatedGameCalls
  <2>1. PICK u \in Users : \/ \E w \in Words : SubmitWord(u, w)
                           \/ RequestNewWords(u)
                           \/ u \in players /\ \E v \in {"pass", "challenge"} : VoteOnWord(u, v)
    BY <1>6 DEF SeatedGameCalls
  <2>2. ASSUME NEW w \in Words, SubmitWord(u, w)  PROVE Flag' /\ BotTurnServed'
    <3>1. /\ status = "SUBMISSION" /\ Current.player = u /\ HandleWordSubmission(w)
          /\ awaitingBotTurn' = (awaitingBotTurn \/ BotIsNext) /\ FireTriggers(jobs)
          /\ UNCHANGED <<players, playerOrder>>
      BY <2>2 DEF SubmitWord, roster, rules
    <3>2. ~ awaitingBotTurn
      BY <3>1, BotsAssumption DEF Flag
    <3>3. \/ status' = "VOTING" /\ Len(turns') = Len(turns)
          \/ Decides
      BY <1>1, <3>1, WordIn
    <3> QED
      BY <1>2, <3>1, <3>2, <3>3, FlagRaised DEF Decides
  <2>3. CASE RequestNewWords(u)
    BY <1>3, <2>3 DEF RequestNewWords, bots
  <2>4. ASSUME u \in players, NEW v \in {"pass", "challenge"}, VoteOnWord(u, v)  PROVE Flag' /\ BotTurnServed'
    <3> DEFINE vs == UserVote(u, v)
    <3> HIDE DEF vs
    <3>1. /\ vs \in [Ids -> Vote] /\ status = "VOTING" /\ HandleVote(vs) /\ Voters(vs) \subseteq Others
      BY <1>1, <2>1, <2>4, UserBallot DEF vs
    <3>2. /\ awaitingBotTurn' = (awaitingBotTurn \/ BotIsNext) /\ FireTriggers(jobs)
          /\ UNCHANGED <<players, playerOrder>> /\ ~ awaitingBotTurn
      BY <2>4, <3>1 DEF VoteOnWord, Flag, roster, rules
    <3>3. \/ status' = "VOTING" /\ turns' = turns
          \/ Decides
      BY <1>1, <3>1, <3>2, VotesIn
    <3> QED
      BY <1>2, <3>2, <3>3, FlagRaised DEF Decides
  <2> QED
    BY <2>1, <2>2, <2>3, <2>4
<1>7. ASSUME NEW j \in jobs, NEW a, BotAnswers(j, a)  PROVE Flag' /\ BotTurnServed'
  <2> DEFINE d == [j EXCEPT !.answer = a]
  <2>1. d.kind = j.kind
    BY <1>1 DEF IInv, TypeOK, Job, TurnJob, VoteJob
  <2>2. /\ jobs' = (jobs \ {j}) \cup {d} /\ UNCHANGED <<status, turns, awaitingBotTurn>>
    BY <1>7 DEF BotAnswers, table
  <2> HIDE DEF d
  <2> QED
    BY <2>1, <2>2 DEF BotTurnServed, Flag, Current
<1>8. ASSUME NEW j \in jobs, BotTurnCommits(j)  PROVE Flag' /\ BotTurnServed'
  <2>1. /\ status = "SUBMISSION" /\ j.answer \in Words /\ HandleWordSubmission(j.answer)
        /\ Current.player \in BotIds
    BY <1>1, <1>8, BotsTurn DEF BotTurnCommits, AInv, Handlers
  <2>2. awaitingBotTurn' = FALSE /\ UNCHANGED <<players, playerOrder>>
    BY <1>8 DEF BotTurnCommits, roster, rules
  <2>3. \/ status' = "VOTING"
        \/ Decides
    BY <1>1, <2>1, <2>2, WordIn
  <2>4. ASSUME status' = "SUBMISSION"  PROVE Current'.player \notin BotIds
    <3>1. Len(turns') = Len(turns) + 1
      BY <2>3, <2>4 DEF Decides
    <3>2. Current'.player # Current.player
      BY <1>1, <2>1, <2>2, <2>4, <3>1, SeatsDiffer DEF Started
    <3>3. \A p, q \in BotIds : p = q
      <4>1. Len(Bots) \in Nat
        BY BotsAssumption
      <4> QED
        BY <4>1 DEF BotIds
    <3> QED
      BY <2>1, <3>2, <3>3
  <2> QED
    BY <2>2, <2>4 DEF Flag, BotTurnServed
<1>9. ASSUME NEW j \in jobs, NEW chosen \in j.bots, BotVoteCommits(j, chosen)
      PROVE  Flag' /\ BotTurnServed'
  <2> DEFINE vs == BotBallot(j, chosen)
  <2>1. /\ vs \in [Ids -> Vote] /\ status = "VOTING" /\ HandleVote(vs) /\ Voters(vs) \subseteq Others
    BY <1>1, <1>9, BotsBallot
  <2> HIDE DEF vs
  <2>2. /\ awaitingBotTurn' = (awaitingBotTurn \/ BotIsNext) /\ FireTriggers(jobs \ {j})
        /\ UNCHANGED <<players, playerOrder>> /\ ~ awaitingBotTurn
    BY <1>9, <2>1 DEF BotVoteCommits, Flag, roster, rules
  <2>3. \/ status' = "VOTING" /\ turns' = turns
        \/ Decides
    BY <1>1, <2>1, <2>2, VotesIn
  <2> QED
    BY <1>2, <2>2, <2>3, FlagRaised DEF Decides
<1> QED
  BY <1>3, <1>4, <1>5, <1>6, <1>7, <1>8, <1>9, NoBotFails
     DEF SeatedNext, BotSteps, BotErrors, vars, bots, table

LEMMA InitServed == Init => BInv /\ Flag /\ BotTurnServed /\ BotVotesServed
<1> SUFFICES ASSUME Init PROVE BInv /\ Flag /\ BotTurnServed /\ BotVotesServed
  OBVIOUS
<1> QED
  BY InitAInv, InitWInv DEF Init, BInv, Worded, Flag, BotTurnServed, BotVotesServed

----------------------------------------------------------------------------
\* With a bot server that answers every word and handlers that end, every vote
\* that waits for bots has a handler under way that will cast their votes,
\* whoever plays and with however many bots.
THEOREM VotesOfBotsServed ==
  ASSUME Words \subseteq Embedded, ~ BotsMayFail
  PROVE  SeatedSpec => []BotVotesServed
<1> DEFINE SInv == BInv /\ BotVotesServed
<1>1. Init => SInv
  BY InitServed
<1>2. SInv /\ [SeatedNext]_vars => SInv'
  BY NextBInv, VotesKeepServed
<1>3. SInv => BotVotesServed
  OBVIOUS
<1> HIDE DEF SInv
<1> QED
  BY <1>1, <1>2, <1>3, PTL DEF SeatedSpec

\* With one bot at most, besides, every turn of a bot has a handler under way
\* that will play it: the commit that lowers the flag begins no bot's turn.
THEOREM TurnsOfBotsServed ==
  ASSUME Words \subseteq Embedded, ~ BotsMayFail, Len(Bots) <= 1
  PROVE  SeatedSpec => []BotTurnServed
<1> DEFINE SInv == BInv /\ Flag /\ BotTurnServed
<1>1. Init => SInv
  BY InitServed
<1>2. SInv /\ [SeatedNext]_vars => SInv'
  BY NextBInv, TurnKeepsServed
<1>3. SInv => BotTurnServed
  OBVIOUS
<1> HIDE DEF SInv
<1> QED
  BY <1>1, <1>2, <1>3, PTL DEF SeatedSpec
=============================================================================
