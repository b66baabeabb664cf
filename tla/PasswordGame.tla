---------------------------- MODULE PasswordGame ----------------------------
(***************************************************************************)
(* One lobby of the Password word game as the cloud functions of           *)
(* backend/functions see it, from the moment createLobby has pushed it.    *)
(*                                                                         *)
(* Every callable function and every bot trigger ends in updateLobby: one  *)
(* database transaction that validates the lobby and rewrites it.  Such a  *)
(* transaction is one action here; what surrounds it (two writes of one    *)
(* join, a bot trigger that asks the bot server and commits much later) is *)
(* made of several.  An exception thrown inside a transaction commits      *)
(* nothing: the action is then not enabled.                                *)
(*                                                                         *)
(* The database stores an empty list or object as an absent node, so       *)
(* "absent" is the empty set here.                                         *)
(***************************************************************************)
EXTENDS Integers, Sequences, FiniteSets

CONSTANTS
  Users,         \* authenticated user ids
  Host,          \* the user whose createLobby call made this lobby
  Bots,          \* Bots[i] is the player id "bot" + i; its length bounds addBot
  WordList,      \* the curated list of word-utils.js
  FreeWords,     \* words outside the list that somebody may submit
  Embedded,      \* words the bot server has an embedding for
  RoundChoices,  \* values of settings.numRounds
  BankChoices,   \* values of settings.wordBankSize
  BotsMayFail,   \* may the bot server be down, or a handler time out
  MaxRerolls,    \* bound: requestNewWords calls of one player
  MaxTally,      \* bound: votesTallied up to which a vote may be repeated
  NoOne, NoWord, NoAnswer

BotIds == {Bots[i] : i \in 1..Len(Bots)}
Ids    == Users \cup BotIds
Words  == WordList \cup FreeWords

ASSUME UsersAssumption == IsFiniteSet(Users) /\ Host \in Users
ASSUME BotsAssumption ==
  Bots \in Seq(BotIds) /\ BotIds \cap Users = {} /\ NoOne \notin Ids
ASSUME WordsAssumption ==
  /\ IsFiniteSet(WordList) /\ WordList \cap FreeWords = {}
  /\ Embedded \subseteq Words /\ NoWord \notin Words
  /\ NoAnswer \notin Words \cup {"pass", "challenge"}
ASSUME SettingsAssumption ==
  RoundChoices \subseteq Nat \ {0} /\ BankChoices \subseteq Nat \ {0}
ASSUME BoundsAssumption ==
  BotsMayFail \in BOOLEAN /\ MaxRerolls \in Nat /\ MaxTally \in Nat

VARIABLES
  \* lobbies/$lobbyId/public
  status, players, score, playerOrder, settings, startWord, turns, votesTallied,
  \* lobbies/$lobbyId/private
  targetWords,
  \* lobbies/$lobbyId/internal
  votes, availableWords, awaitingBotTurn, awaitingBotVotes,
  \* outside the lobby: the joins under way, the users whose playerLobbyMap
  \* entry has pointed here, the bot triggers being handled
  joining, mapped, jobs,
  \* history: requestNewWords calls that committed
  rerolls

roster == <<players, joining, mapped>>
deal   == <<targetWords, availableWords, startWord>>
rules  == <<playerOrder, settings>>
bots   == <<awaitingBotTurn, awaitingBotVotes, jobs>>
table  == <<status, turns, score, votes, votesTallied>>
vars   == <<roster, deal, rules, bots, table, rerolls>>

----------------------------------------------------------------------------
(***************************** Types of the data ***************************)

\* A recorded vote: nothing, or a value the rules take for false or for true.
\* The app sends false and true.  (A null, which no client of the repository
\* sends and getVote lets through, is left out.)
Vote     == {"none", "pass", "challenge"}
Verdict  == {"open", "own", "bluff"}
NoVotes  == [p \in Ids |-> "none"]

\* A turn: other is set with wasOthersWord, verdict is wasSubmittersWord.
Turn == [player: Ids, word: Words \cup {NoWord}, other: Ids \cup {NoOne},
         votes: [Ids -> Vote], verdict: Verdict]

NewTurn(p) == [player |-> p, word |-> NoWord, other |-> NoOne,
               votes |-> NoVotes, verdict |-> "open"]

\* A bot trigger being handled: the turn it fired at, the bots it votes for,
\* the bot server's answer once it has come.
TurnJob == [kind: {"turn"}, at: Nat, bots: {{}}, answer: Words \cup {NoAnswer}]
VoteJob == [kind: {"vote"}, at: Nat, bots: SUBSET BotIds,
            answer: {"pass", "challenge", NoAnswer}]
Job == TurnJob \cup VoteJob

Settings   == [numRounds: RoundChoices, wordBankSize: BankChoices]
NoSettings == [numRounds |-> 0, wordBankSize |-> 0]

Started == status # "LOBBY"
Current == turns[Len(turns)]
Voters(vs)      == {p \in Ids : vs[p] # "none"}
Challengers(vs) == {p \in Ids : vs[p] = "challenge"}

\* Orders(S): the sequences that name every member of S once.
Orders(S) == {f \in [1..Cardinality(S) -> S] : \A p \in S : \E i \in DOMAIN f : f[i] = p}

----------------------------------------------------------------------------
(************************* Rules of the game (game-logic) ******************)

\* The scores after a decided turn t: two points for the owner of another
\* player's word; else every challenger and the player settle their bets.
ScoreTurn(sc, t) ==
  LET C   == Challengers(t.votes)
      own == t.verdict = "own"
      hit(p)    == IF p = t.other THEN 2 ELSE 0
      bet(p)    == IF p \notin C THEN 0 ELSE IF own THEN 2 ELSE -1
      stake(p)  == IF p # t.player THEN 0
                   ELSE IF own /\ C = {} THEN 2 ELSE -Cardinality(C)
  IN  [p \in Ids |-> sc[p] + IF t.other # NoOne THEN hit(p) ELSE bet(p) + stake(p)]

\* Mutants of the next definition: the wrong seat, all rounds of one seat in a
\* row, and an end too early.
SkipSeat(ts, order, rounds) ==
  IF Len(ts) = rounds * Len(order)
    THEN status' = "DONE" /\ turns' = ts
    ELSE /\ status' = "SUBMISSION"
         /\ turns' = Append(ts, NewTurn(order[((Len(ts) + 1) % Len(order)) + 1]))
SeatByRound(ts, order, rounds) ==
  IF Len(ts) = rounds * Len(order)
    THEN status' = "DONE" /\ turns' = ts
    ELSE /\ status' = "SUBMISSION"
         /\ turns' = Append(ts, NewTurn(order[((Len(ts) \div rounds) % Len(order)) + 1]))
EndEarly(ts, order, rounds) ==
  IF Len(ts) = rounds * Len(order) - 1
    THEN status' = "DONE" /\ turns' = ts
    ELSE /\ status' = "SUBMISSION"
         /\ turns' = Append(ts, NewTurn(order[(Len(ts) % Len(order)) + 1]))

\* The next seat's turn begins after the turns ts, or the game is over.
StartNextTurnOrEndGame(ts, order, rounds) ==
  IF Len(ts) = rounds * Len(order)
    THEN status' = "DONE" /\ turns' = ts
    ELSE /\ status' = "SUBMISSION"
         /\ turns' = Append(ts, NewTurn(order[(Len(ts) % Len(order)) + 1]))

\* Mutant: the flag is forgotten for the turn that startGame begins.
BotIsNextLater ==
  Len(turns') > Len(turns) /\ turns # <<>> /\ turns'[Len(turns')].player \in BotIds

\* A turn of a bot has just begun: startNextTurnOrEndGame raises the flag.
BotIsNext == Len(turns') > Len(turns) /\ turns'[Len(turns')].player \in BotIds

\* Mutant: whose word it was is not noted.
SubmitUnnoted(w) ==
  LET last    == Len(turns)
      played  == [turns EXCEPT ![last].word = w]
      holders == {o \in players \ {Current.player} : w \in targetWords[o]}
  IN  \/ /\ holders = {} /\ status' = "VOTING" /\ turns' = played
         /\ awaitingBotVotes' = (players \cap BotIds) \ {Current.player}
         /\ UNCHANGED score
      \/ /\ holders # {}
         /\ StartNextTurnOrEndGame(played, playerOrder, settings.numRounds)
         /\ UNCHANGED <<awaitingBotVotes, score>>

\* The word w is in: another player's target word ends the turn at once,
\* any other word is put to the vote.
HandleWordSubmission(w) ==
  LET last    == Len(turns)
      played  == [turns EXCEPT ![last].word = w]
      holders == {o \in players \ {Current.player} : w \in targetWords[o]}
  IN  \/ /\ holders = {}
         /\ status' = "VOTING"
         /\ turns' = played
         /\ awaitingBotVotes' = (players \cap BotIds) \ {Current.player}
         /\ UNCHANGED score
      \/ \E o \in holders :
           LET done == [played EXCEPT ![last].other = o]
           IN  /\ score' = ScoreTurn(score, done[last])
               /\ StartNextTurnOrEndGame(done, playerOrder, settings.numRounds)
               /\ UNCHANGED awaitingBotVotes

\* Mutant: the vote waits for the submitter's own, too.
OneVoteMore(vs) == Cardinality(Voters(vs)) = Len(playerOrder)

\* With the votes vs the number of votes is the one that ends the vote.
AllVotesTallied(vs) == Cardinality(Voters(vs)) = Len(playerOrder) - 1

\* scoreTurn looks every challenger up among the players and throws when one
\* is missing.
TallyThrows(vs) ==
  AllVotesTallied(vs) /\ Current.other = NoOne /\ ~ Challengers(vs) \subseteq players

\* Mutants: the turn is scored before its verdict is set, and the votes are
\* not reset.
ScoreTooSoon(vs) ==
  LET last == Len(turns)
      own  == Current.word \in targetWords[Current.player]
      done == [turns EXCEPT ![last].votes = vs,
                            ![last].verdict = IF own THEN "own" ELSE "bluff"]
  IN  /\ ~ TallyThrows(vs)
      /\ IF AllVotesTallied(vs)
           THEN /\ score' = ScoreTurn(score, [done[last] EXCEPT !.verdict = "open"])
                /\ votes' = NoVotes
                /\ StartNextTurnOrEndGame(done, playerOrder, settings.numRounds)
           ELSE votes' = vs /\ status' = "VOTING" /\ UNCHANGED <<turns, score>>
KeepVotes(vs) ==
  LET last == Len(turns)
      done == [turns EXCEPT ![last].votes = vs, ![last].verdict = "bluff"]
  IN  /\ ~ TallyThrows(vs)
      /\ votes' = vs
      /\ IF AllVotesTallied(vs)
           THEN /\ score' = ScoreTurn(score, done[last])
                /\ StartNextTurnOrEndGame(done, playerOrder, settings.numRounds)
           ELSE status' = "VOTING" /\ UNCHANGED <<turns, score>>

\* handleVote: the last vote copies the votes into the turn, reveals whose word
\* it was, scores and goes on; any other leaves the vote open.
HandleVote(vs) ==
  LET last == Len(turns)
      own  == Current.word \in targetWords[Current.player]
      done == [turns EXCEPT ![last].votes = vs,
                            ![last].verdict = IF own THEN "own" ELSE "bluff"]
  IN  /\ ~ TallyThrows(vs)
      /\ IF AllVotesTallied(vs)
           THEN /\ score' = ScoreTurn(score, done[last])
                /\ votes' = NoVotes
                /\ StartNextTurnOrEndGame(done, playerOrder, settings.numRounds)
           ELSE /\ votes' = vs
                /\ status' = "VOTING"
                /\ UNCHANGED <<turns, score>>

\* The onCreate triggers of the two sentinels fire when a commit makes one of
\* them appear; the handler starts some time later.
NewJob(k, bs) == [kind |-> k, at |-> Len(turns'), bots |-> bs, answer |-> NoAnswer]

FireTriggers(running) ==
  LET turnRaised == awaitingBotTurn' /\ ~ awaitingBotTurn
      voteRaised == awaitingBotVotes' # {} /\ awaitingBotVotes = {}
  IN  jobs' = running \cup (IF turnRaised THEN {NewJob("turn", {})} ELSE {})
                      \cup (IF voteRaised THEN {NewJob("vote", awaitingBotVotes')} ELSE {})

----------------------------------------------------------------------------
(************************ Joining and starting *****************************)

\* createLobby has pushed the lobby; both halves of adding the host run.
Init ==
  /\ status = "LOBBY" /\ players = {} /\ score = [p \in Ids |-> 0]
  /\ playerOrder = <<>> /\ settings = NoSettings /\ turns = <<>>
  /\ startWord = NoWord /\ votesTallied = 0
  /\ targetWords = [p \in Ids |-> {}] /\ availableWords = {}
  /\ votes = NoVotes /\ awaitingBotTurn = FALSE /\ awaitingBotVotes = {}
  /\ joining = [u \in Users |-> IF u = Host THEN {"update", "mapping"} ELSE {}]
  /\ mapped = {} /\ jobs = {} /\ rerolls = [p \in Ids |-> 0]

\* joinLobby: the code resolved to this lobby, both writes of
\* addPlayerToLobby are on their way.  (Bound: a user joins once.  Another
\* join would write the same player, mapping and score 0 again.)
JoinLobby(u) ==
  /\ joining[u] = {} /\ u \notin mapped
  /\ joining' = [joining EXCEPT ![u] = {"update", "mapping"}]
  /\ UNCHANGED <<players, mapped, deal, rules, bots, table, rerolls>>

\* Mutant: the status is not looked at.
JoinAnytime(u) ==
  /\ "update" \in joining[u]
  /\ joining' = [joining EXCEPT ![u] = @ \ {"update"}]
  /\ players' = players \cup {u} /\ score' = [score EXCEPT ![u] = 0]
  /\ UNCHANGED <<mapped, deal, rules, bots, status, turns, votes, votesTallied, rerolls>>

\* The lobby transaction of addPlayerToLobby: refused once the game started.
JoinUpdate(u) ==
  /\ "update" \in joining[u]
  /\ joining' = [joining EXCEPT ![u] = @ \ {"update"}]
  /\ IF status = "LOBBY"
       THEN players' = players \cup {u} /\ score' = [score EXCEPT ![u] = 0]
       ELSE UNCHANGED <<players, score>>
  /\ UNCHANGED <<mapped, deal, rules, bots, status, turns, votes, votesTallied, rerolls>>

\* The unconditional write of playerLobbyMap.
JoinMapping(u) ==
  /\ "mapping" \in joining[u]
  /\ joining' = [joining EXCEPT ![u] = @ \ {"mapping"}]
  /\ mapped' = mapped \cup {u}
  /\ UNCHANGED <<players, deal, rules, bots, table, rerolls>>

\* findLobbyIdFromUID returned this lobby: mapped only grows here, since a
\* call that looked the user up may commit any time after the entry changed.
Caller(u) == u \in mapped

AddBot(u) ==
  LET n == Cardinality(players \cap BotIds)
  IN  /\ Caller(u) /\ u = Host /\ status = "LOBBY"
      /\ players # {}              \* else the update throws
      /\ n < Len(Bots)             \* bound
      /\ players' = players \cup {Bots[n + 1]}
      /\ score' = [score EXCEPT ![Bots[n + 1]] = 0]
      /\ UNCHANGED <<joining, mapped, deal, rules, bots, status, turns, votes,
                     votesTallied, rerolls>>

\* The banks getGameWords can deal beside the start word: b words for each
\* player, no word twice.  (What shuffleArray can produce is narrower.)
Banks(b, start) ==
  {f \in [Ids -> {S \in SUBSET (WordList \ {start}) : Cardinality(S) \in {0, b}}] :
     /\ \A p \in Ids : Cardinality(f[p]) = (IF p \in players THEN b ELSE 0)
     /\ \A p, q \in Ids : p # q => f[p] \cap f[q] = {}}

StartGame(u, rounds, b) ==
  /\ Caller(u) /\ u = Host /\ status = "LOBBY"
  /\ players # {}
  /\ Cardinality(players) * b + 1 <= Cardinality(WordList)
  /\ settings' = [numRounds |-> rounds, wordBankSize |-> b]
  /\ playerOrder' \in Orders(players)
  /\ startWord' \in WordList
  /\ targetWords' \in Banks(b, startWord')
  /\ availableWords' = WordList \ ({startWord'} \cup UNION {targetWords'[p] : p \in Ids})
  /\ StartNextTurnOrEndGame(<<>>, playerOrder', rounds)
  /\ awaitingBotTurn' = (awaitingBotTurn \/ BotIsNext)
  /\ UNCHANGED awaitingBotVotes
  /\ FireTriggers(jobs)
  /\ UNCHANGED <<roster, score, votes, votesTallied, rerolls>>

----------------------------------------------------------------------------
(***************************** Playing *************************************)

SubmitWord(u, w) ==
  /\ Caller(u) /\ status = "SUBMISSION" /\ Current.player = u
  /\ votesTallied' = 0
  /\ HandleWordSubmission(w)
  /\ awaitingBotTurn' = (awaitingBotTurn \/ BotIsNext)
  /\ FireTriggers(jobs)
  /\ UNCHANGED <<roster, deal, rules, votes, rerolls>>

\* Mutant: a submitter may swap while its own word is voted on.
MaySwapAnytime(u) == status \in {"SUBMISSION", "VOTING"}

MaySwap(u) == status = "SUBMISSION" \/ (status = "VOTING" /\ Current.player # u)

\* Mutant: fresh words only when there are enough of them.
FullBankOrNone ==
  IF Cardinality(availableWords) < settings.wordBankSize THEN 0 ELSE settings.wordBankSize

FreshCount ==
  IF Cardinality(availableWords) < settings.wordBankSize
    THEN Cardinality(availableWords) ELSE settings.wordBankSize

\* Mutant: slice for splice, the fresh words stay available.
SliceWords(u) ==
  \E fresh \in SUBSET availableWords :
    /\ Cardinality(fresh) = FreshCount
    /\ targetWords' = [targetWords EXCEPT ![u] = fresh]
    /\ availableWords' = availableWords \cup targetWords[u]

\* assignNewWords: the first wordBankSize available words (the list is kept
\* shuffled, so any of them) replace the bank, which goes back to the list.
AssignNewWords(u) ==
  \E fresh \in SUBSET availableWords :
    /\ Cardinality(fresh) = FreshCount
    /\ targetWords' = [targetWords EXCEPT ![u] = fresh]
    /\ availableWords' = (availableWords \ fresh) \cup targetWords[u]

RequestNewWords(u) ==
  /\ Caller(u) /\ MaySwap(u)
  /\ u \in players /\ availableWords # {}      \* else the update throws
  /\ rerolls[u] < MaxRerolls                   \* bound
  /\ AssignNewWords(u)
  /\ score' = [score EXCEPT ![u] = @ - 1]
  /\ rerolls' = [rerolls EXCEPT ![u] = @ + 1]
  /\ UNCHANGED <<roster, startWord, rules, bots, status, turns, votes, votesTallied>>

\* Mutant: no look at the votes at all.
NeverVoted(u) == FALSE

\* Only a challenge counts as "already voted": the test is on its truth value.
AlreadyVoted(u) == votes[u] = "challenge"

VoteOnWord(u, v) ==
  /\ Caller(u) /\ status = "VOTING" /\ Current.player # u
  /\ ~ AlreadyVoted(u)
  /\ votes[u] = "none" \/ votesTallied < MaxTally    \* bound on repeated votes
  /\ votesTallied' = votesTallied + 1
  /\ HandleVote([votes EXCEPT ![u] = v])
  /\ awaitingBotTurn' = (awaitingBotTurn \/ BotIsNext)
  /\ UNCHANGED awaitingBotVotes
  /\ FireTriggers(jobs)
  /\ UNCHANGED <<roster, deal, rules, rerolls>>

----------------------------------------------------------------------------
(************************* The bot handlers ********************************)

PreviousWord == IF Len(turns) = 1 THEN startWord ELSE turns[Len(turns) - 1].word

\* Mutant: getPreviousWord knows no word before the first turn.
CanAnswerLater(j) == PreviousWord \in Embedded /\ Len(turns) > 1

\* The bot server raises KeyError on a word it has no embedding for.
CanAnswer(j) ==
  /\ PreviousWord \in Embedded
  /\ IF j.kind = "turn" THEN targetWords[Current.player] \subseteq Embedded
                        ELSE Current.word \in Embedded

\* play_turn returns a target word or a nearby word other than the previous
\* one; vote_on_other_turn returns a verdict.
Answers(j) ==
  IF j.kind = "turn"
    THEN targetWords[Current.player] \cup (Embedded \ {PreviousWord})
    ELSE {"pass", "challenge"}

\* The handler reads the lobby and the bot server answers from what it read.
BotAnswers(j, a) ==
  /\ j.answer = NoAnswer /\ CanAnswer(j) /\ a \in Answers(j)
  /\ jobs' = (jobs \ {j}) \cup {[j EXCEPT !.answer = a]}
  /\ UNCHANGED <<roster, deal, rules, awaitingBotTurn, awaitingBotVotes, table, rerolls>>

\* Mutant: the promise of the bot server's answer is not returned.
NotAwaited(j) == TRUE

Answered(j) == j.answer # NoAnswer

\* Mutant: the trigger is delivered once more.
BotTurnRedelivered(j) ==
  /\ j.kind = "turn" /\ Answered(j)
  /\ votesTallied' = 0
  /\ HandleWordSubmission(j.answer)
  /\ awaitingBotTurn' = FALSE
  /\ FireTriggers(jobs)
  /\ UNCHANGED <<roster, deal, rules, votes, rerolls>>

\* The final transaction of watchForBotTurns: no validation, and the flag is
\* cleared after startNextTurnOrEndGame may have raised it.
BotTurnCommits(j) ==
  /\ j.kind = "turn" /\ Answered(j)
  /\ votesTallied' = 0
  /\ HandleWordSubmission(j.answer)
  /\ awaitingBotTurn' = FALSE
  /\ FireTriggers(jobs \ {j})
  /\ UNCHANGED <<roster, deal, rules, votes, rerolls>>

\* Every bot passes but one at random, which casts the answer.
BotBallot(j, chosen) ==
  [p \in Ids |-> IF p = chosen THEN j.answer
                 ELSE IF p \in j.bots THEN "pass" ELSE votes[p]]

\* Mutant: the sentinel is left behind.
SentinelStays(j, chosen) ==
  /\ j.kind = "vote" /\ Answered(j)
  /\ votesTallied' = votesTallied + Cardinality(j.bots)
  /\ HandleVote(BotBallot(j, chosen))
  /\ awaitingBotTurn' = (awaitingBotTurn \/ BotIsNext)
  /\ UNCHANGED awaitingBotVotes
  /\ FireTriggers(jobs \ {j})
  /\ UNCHANGED <<roster, deal, rules, rerolls>>

\* The final transaction of watchForBotVotes: no validation either.
BotVoteCommits(j, chosen) ==
  /\ j.kind = "vote" /\ Answered(j)
  /\ votesTallied' = votesTallied + Cardinality(j.bots)
  /\ HandleVote(BotBallot(j, chosen))
  /\ awaitingBotTurn' = (awaitingBotTurn \/ BotIsNext)
  /\ awaitingBotVotes' = {}
  /\ FireTriggers(jobs \ {j})
  /\ UNCHANGED <<roster, deal, rules, rerolls>>

\* Any error on the way is logged and the handler ends; the sentinel stays.
BotFails(j) ==
  /\ \/ BotsMayFail
     \/ j.answer = NoAnswer /\ ~ CanAnswer(j)
     \/ j.kind = "vote" /\ j.answer # NoAnswer
          /\ \E chosen \in j.bots : TallyThrows(BotBallot(j, chosen))
  /\ jobs' = jobs \ {j}
  /\ UNCHANGED <<roster, deal, rules, awaitingBotTurn, awaitingBotVotes, table, rerolls>>

----------------------------------------------------------------------------
Joins     == \E u \in Users : JoinLobby(u) \/ JoinUpdate(u) \/ JoinMapping(u)
HostCalls == \E u \in Users : \/ AddBot(u)
                              \/ \E r \in RoundChoices, b \in BankChoices : StartGame(u, r, b)
GameCalls == \E u \in Users : \/ \E w \in Words : SubmitWord(u, w)
                              \/ RequestNewWords(u)
                              \/ \E v \in {"pass", "challenge"} : VoteOnWord(u, v)
BotSteps  == \E j \in jobs : \/ \E a \in Words \cup {"pass", "challenge"} : BotAnswers(j, a)
                             \/ BotTurnCommits(j)
                             \/ \E chosen \in j.bots : BotVoteCommits(j, chosen)
BotErrors == \E j \in jobs : BotFails(j)

\* Whoever has a playerLobbyMap entry for the lobby may call: the web console.
Next == Joins \/ HostCalls \/ GameCalls \/ BotSteps \/ BotErrors

Spec == Init /\ [][Next]_vars

----------------------------------------------------------------------------
(***************** What holds whoever calls the backend ********************)

TypeOK ==
  /\ status \in {"LOBBY", "SUBMISSION", "VOTING", "DONE"}
  /\ players \subseteq Ids /\ score \in [Ids -> Int]
  /\ playerOrder \in Seq(Ids) /\ settings \in Settings \cup {NoSettings}
  /\ startWord \in WordList \cup {NoWord} /\ turns \in Seq(Turn) /\ votesTallied \in Nat
  /\ targetWords \in [Ids -> SUBSET WordList] /\ availableWords \subseteq WordList
  /\ votes \in [Ids -> Vote]
  /\ awaitingBotTurn \in BOOLEAN /\ awaitingBotVotes \subseteq BotIds
  /\ joining \in [Users -> SUBSET {"update", "mapping"}] /\ mapped \subseteq Users
  /\ jobs \subseteq Job /\ rerolls \in [Ids -> Nat]

\* From the deal on every word of the list is in exactly one place: the start
\* word, one bank or the available words.  (getGameWords deals, assignNewWords
\* swaps a bank against the list.)
WordsPartitioned ==
  Started =>
    /\ startWord \in WordList
    /\ availableWords = WordList \ ({startWord} \cup UNION {targetWords[p] : p \in Ids})
    /\ startWord \notin UNION {targetWords[p] : p \in Ids}
    /\ \A p, q \in Ids : p # q => targetWords[p] \cap targetWords[q] = {}

\* Exactly the players hold words, and a swap never leaves one without any:
\* handleVote and the bots look into every bank.
EveryPlayerHoldsWords == Started => {p \in Ids : targetWords[p] # {}} = players

\* The players' order names every player once, and nobody is seated later:
\* a join or addBot racing startGame is in both or in neither.
RosterMatchesOrder == Started => playerOrder \in Orders(players)

\* Turn i belongs to seat i modulo the number of players, there are never more
\* turns than the settings ask for, and all have begun when the game is over.
SeatsTakeTurns ==
  Started =>
    /\ Len(turns) \in 1..(settings.numRounds * Len(playerOrder))
    /\ \A i \in DOMAIN turns : turns[i].player = playerOrder[((i - 1) % Len(playerOrder)) + 1]
    /\ status = "DONE" => Len(turns) = settings.numRounds * Len(playerOrder)

\* Nobody is ever two turns ahead of another player, and when the game is over
\* everybody has had one turn in each round, also when the modulo of
\* startNextTurnOrEndGame has gone round the table several times.
TurnsOf(p) == Cardinality({i \in 1..Len(turns) : turns[i].player = p})
FairShares ==
  Started => /\ \A p, q \in players : TurnsOf(p) <= TurnsOf(q) + 1
             /\ status = "DONE" => \A p \in players : TurnsOf(p) = settings.numRounds

SameVote == status = "VOTING" /\ status' = "VOTING" /\ Len(turns') = Len(turns)

\* While a word is voted on, whether it is the submitter's own cannot change.
VerdictIsFixed ==
  [][SameVote => (Current.word \in targetWords[Current.player]
                    <=> Current.word \in targetWords'[Current.player])]_vars
=============================================================================
