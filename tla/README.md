# Password: specifications of the word game's backend

TLA+ modules, model-checking configurations and TLAPS proofs about the Password
word game: an iOS app (`src/password_prototype`), a set of Firebase cloud
functions (`src/backend/functions`) and a bot server (`src/bot`). Friends share
a four-letter code, join a lobby, and take turns submitting words; another
player's target word scores for that player, any other word is put to a vote.

## The system

| component | state | operations | talks to |
|---|---|---|---|
| callables (`index.js`) and rules (`game-logic.js`) | `/lobbies/$id`: `public` (status, players with scores, playerOrder, settings, startWord, turns, votesTallied), `private` (target words), `internal` (host, votes, availableWords, the sentinels awaitingBotTurn and awaitingBotVotes) | createLobby, joinLobby, addBot, startGame, submitWord, requestNewWords, voteOnWord, each a transaction of `updateLobby` | the database, the app |
| bot triggers (`index.js:284-367`) | handlers under way | onCreate of a sentinel, read the lobby, ask the bot server, commit | database, bot server |
| lobby directory (`lobby-utils.js`, createLobby, joinLobby) | `/lobbyCodeMap`, `/playerLobbyMap` | reserve a code, resolve a code, map a player, resolve a player | database |
| dealing (`utils.js`, `word-utils.js`) | the array being shuffled, the chunks | shuffleArray, chunkArray, getGameWords | startGame, requestNewWords |
| validation (`validation.js`) | none | checks of the request data | callables |
| bot server (`bot.py`, `botServer.py`) | word embeddings | getBotTurn, getBotVote | triggers |
| iOS app | `LOCAL`: user, users, lobby, isHost, hasVoted, gameDone; table contents | buttons call the functions, listeners follow `/lobbies/$id/public`, chat writes it | callables, database |
| transaction loop (`updateLobby`, `index.js:20-50`, with the database SDK) | transactionError, the SDK's guess of the lobby | run the callback, put, run again on a stale guess, answer or throw | every callable and trigger, database |
| chat (`GameScreenVC.swift`, `/public/chat`) | the list of messages on each phone, the SDK's outstanding writes | send, childAdded | database, all phones |
| web console (`backend/public`) | none | calls any function as any user | callables |
| WordLinks, vocabulary scripts, notebook, Pods | | an early stub, offline tools, vendored code | |

What is hard about it:

- **Several writes per call.** A join is a transaction on the lobby and an
  independent write of `playerLobbyMap`; createLobby adds a push and the
  reservation of a code. They run concurrently, each may fail alone, and the
  call answers at the first error while the others go on.
- **Handlers that read, wait and commit.** A bot trigger reads the lobby, waits
  some 18 seconds for the bot server, and commits without validation into
  whatever the lobby has become.
- **Sentinels that are edges.** A trigger fires when a node appears. A flag that
  is raised while it is up, or cleared in the commit that raised it, is lost.
- **Counting to an exact number.** Votes end and games end on `===`.
- **Events, not state.** The app's screens act on changes they hear of. A change
  that happens before a screen listens, or while the phone is offline, is none.
- **Optimistic writes.** The update of a lobby is run on a guess, at first on
  none, and again when the guess was stale; what the caller is told comes from
  the last run, and a lost connection leaves it not knowing.
- **Keys made from what a phone has seen.** Two phones that write a chat message
  at once pick the same key.
- **Everything waits.** The game stops for ever when one player, or the bot
  server, does not answer: there are no timeouts, retries or leave operations.

What makes each component correct: the *game* lets seats take turns in order,
ends a vote at the last vote of the others, decides every turn once, scores exactly
the decided turns and ends after the last round; the *triggers* serve every bot
turn and vote and never touch a turn already decided; the *directory* leads a
code to one lobby and a screen to a lobby its user is seated in, and the calls
of that screen to the same lobby; a *phone* asks its user for every vote the game
waits for, and the vote it sends counts for the word it showed; the *deal* puts every word of the list in one
place; the *transaction loop* makes every update one atomic step and tells the
caller the truth about it; the *chat* writes over nothing that its writer could
know of and shows everybody the same messages in the end.

## The modules

| module | models |
|---|---|
| `PasswordGame` | one lobby: all callables, all rules, both bot triggers, open to any mapped caller |
| `PasswordApp` | `PasswordGame` among the players at the table; the properties of a game; fairness; the refinement of `TurnGame` |
| `TurnGame` | abstract: seats take turns, a turn ends at once or by a vote of all others, the game ends after its rounds |
| `MCPasswordApp` | instances of the two for TLC |
| `LobbyDirectory`, `MCLobbyDirectory` | createLobby, joinLobby, code map, player map and the waiting screen of the app |
| `GameScreen`, `MCGameScreen` | composed with `TurnGame`: the lobby and game screens of the phones, events and votes under way |
| `Dealing` | shuffleArray, chunkArray and getGameWords step by step |
| `DealRules` | what a deal of words is |
| `AtomicDeal` | abstract: getGameWords hands out a whole deal at one moment, or refuses |
| `LobbyCalls` | what the callers of updateLobby do to a lobby, as far as they tell each other apart when they race |
| `AtomicLobby` | abstract: every call takes effect, or is refused, at one moment |
| `LobbyTransaction`, `MCLobbyTransaction` | the loop of updateLobby over a database that compares and replaces |
| `Chat`, `MCChat` | the chat over connections that are slow or lost |
| `PasswordGameProofs` | inductive invariants and proofs: types, roster, order of turns, equal shares of turns; the words: partition, filled banks, settled verdicts; that a deal may start a game |
| `AppProofs` | proofs about games of seated players: votes, decided turns, scores, the bots' handlers, the refinement of `TurnGame` |
| `LobbyDirectoryProofs` | proofs about seats, codes, screens and closed lobbies |
| `LobbyTransactionProofs` | proofs that the loop implements `AtomicLobby` and answers truly |
| `GameScreenProofs` | proofs that late votes meet their word, and that every vote is asked for |
| `DealingProofs` | proofs that every deal is complete, that dealing implements `AtomicDeal`, and which orders the shuffle produces |
| `ChatProofs` | proofs about the keys of the chat and what the screens agree on |
| `NaturalRecursion` | lemmas: induction over the natural numbers, and functions defined by recursion on them |

How they fit together: `PasswordGame` takes updateLobby for one atomic step,
which is what `LobbyTransaction` shows of the loop; it takes the deal for any
assignment of disjoint banks: `Dealing` implements `AtomicDeal`, and each deal of
`AtomicDeal` is one that `StartGame` allows (theorem `EveryDealMayStart`); `PasswordApp` implements `TurnGame`, and `GameScreen` puts the phones
in front of `TurnGame`.

### PasswordGame and the code

Variables carry the names of the database nodes. `score` is the field of each
player, `votes` has `"none"` where the node has no key (`"pass"` is false,
`"challenge"` is true), an absent list is the empty set (the database does not
store empty nodes), a turn's `other` and `verdict` stand for `wasOthersWord` with
`otherId` and for `wasSubmittersWord`. `joining` holds the writes of a join that
are under way, `mapped` the users whose `playerLobbyMap` entry has pointed to
this lobby, `jobs` the running bot handlers, `rerolls` counts swaps of words
(history).

- A callable is one action: `updateLobby` runs the validation and the update in
  one database transaction. The guards are the validation and the conditions
  under which the update function does not throw. A throw commits nothing.
- `Caller(u)` is findLobbyIdFromUID. The lookup happens before the transaction,
  so a caller whose entry has changed since may still commit: `mapped` never
  shrinks. Nothing else asks whether the caller is a player, and `Spec` lets
  refused joiners call everything, as the code does. A submission or a swap of
  theirs comes to nothing; their votes count.
- `VoteOnWord` has the two challenges the app sends, true and false. The
  validation rejects an undefined one only; null, or a value that is no boolean, is
  left out.
- `StartNextTurnOrEndGame`, `HandleWordSubmission`, `HandleVote`, `ScoreTurn`,
  `AssignNewWords` are the functions of `game-logic.js`. `TallyThrows` is the
  TypeError of scoreTurn on a challenger who is no player.
- `FireTriggers` compares the sentinels before and after a commit, as onCreate
  does. A handler is a `Job`: `BotAnswers` is the read of the lobby together
  with the server's answer to it, `BotTurnCommits` and `BotVoteCommits` the
  final transactions (the flag is cleared last, as in `index.js:359`),
  `BotFails` the catch clause.
- The deal in `StartGame` is any assignment of disjoint banks beside a start
  word; which of them the shuffle can produce is the subject of `Dealing`.
- `FairShares` is what the players of a game may expect of startNextTurnOrEndGame:
  nobody is ever two turns ahead of another, and a finished game gave everybody
  one turn in each round.

### PasswordApp

`SeatedSpec` is `PasswordGame` under an assumption about its environment, which no
guard of the code enforces: whoever votes is a player of the lobby, and "start" is
pressed with two players in it. The app makes this the usual case (`LobbyCodeVC` and
`SplashVC` open a lobby only on success, `LobbyVC` enables the button for two
listed users), but a phone's calls go where its entry of `playerLobbyMap` leads, and
that may be another lobby (`MappingIsCurrent`, run `current_lobby`): a host's start can
reach a lobby it is alone in, and a refused joiner's vote a lobby it has no seat
in. What the second does to a game is the run `stranger`: its vote stands for that
of a player, whose own comes too late. So `EveryPlayerVoted` is checked under `Spec`,
where it fails, and is no theorem. A player may send any call at any time, a vote
twice included.

### LobbyDirectory

A call is a record of the writes it has still to do. `Succeed` waits for all of
them, `Fail` answers at the first error (createLobby looks at the code first),
after which the other writes may still happen or never (`Abandon`: the instance
may be frozen once the call is answered). New Game is not disabled while its call
runs, the Enter button of the code screen is. Started lobbies are only "closed".

### GameScreen

The module extends `TurnGame`, which `PasswordApp` is checked to implement, and
puts phones in front of it. `feed` holds the states of `/public` on their way to
a phone, `seen` the last one it was told; a listener of GameScreenVC or LobbyVC
acts on the difference (childChanged). One delivery runs all listeners and ends
with the drawing of the table, `Drawn`: accept and challenge are usable when
the last turn has a word of somebody else and `LOCAL.hasVoted` is false. A tap
sends a call without a turn number, sets the flag and leaves the buttons until
the next drawing (`Tap`). `OpenLobby` is the answer of joinLobby, at any time after
the join, so also after the start. `Reconnect` drops all but the latest state
(the listen of the vendored SDK, after a time offline), `CallFails` loses a vote. A submission has no guard in the app and is modelled
by its arrival; a call that changes neither phase nor turn (a swap, a chat
message, a repeated vote) only redraws. Players are told apart by their id, and
the table is taken to show the game, not the chat.

### LobbyTransaction

`updateLobby` hands a callback to the SDK's `transaction`. `Callback` is that
function: null is returned as null with a not-found error noted (the comment at
`index.js:29` says why it must not abort), a refusal of validateLobbyFn or a
throw of updateLobbyFn aborts, each with its own error noted, else the updated
lobby is returned. `Throws` is the throw of startGame: a lobby without players, or a
word list too short for them (`word-utils.js:5`; the TypeErrors of `game-logic.js`
end in the same way). A call that throws is told so and has left the lobby alone. `Attempt` runs
it on a guess, `Serve` is the database comparing the guess with the lobby,
`Rerun` the SDK running it again on the lobby a stale reply brought, `Resolve` the
end of the promise with the code after it (`Outcome`), `GiveUp` the SDK's limit on
tries, `CutOff` the loss of the connection or the instance. The callback, the
error variable and the answers are the code's; the SDK and the database are
external (the repository vendors the SDK of the app, not the one of the
functions) and modelled as the code uses them: the first guess is null, since an
instance holds no data of the lobby, and a connection keeps the order of its
messages, so a stale reply comes with the lobby the server compared. One
transaction runs per request. A call that is cut off is told of a failure and
may have taken effect; it never takes effect twice.

`AtomicLobby` is the promise: `Decide` at one moment that the call takes effect,
is refused or has thrown, `Answer` what was decided or a failure. The refinement maps `decided` to what the reply on its way decides
(`Decided`): a stale reply is a refusal when the callback will refuse the lobby
it brings, because the lobby was that one when the server looked.

### Chat

`Send` is submitButton of the chat: the key is made of the number of messages the
phone lists, the write goes straight to `/public/chat`, and the SDK raises the
phone's own event at once. `Serve` and `Receive` are the database and the
connection, `ChildAdded` the listener that lists a message. The app listens for
added keys only, so what comes under a known key is not listed (`Raised`).
`Reconnect` is the SDK after a lost connection: it listens anew, is told all there
is, and repeats its outstanding writes, those that had arrived included. These
steps are mapped to the SDK in `src/password_prototype/Pods/FirebaseDatabase`; the
database itself is external.

A phone is told what is there in the order of the keys, which are strings:
`InStringOrder` compares them digit by digit in numerals of `Base` (10 in the
program), so `message10` comes before `message2`. `childAdded` then lists messages out
of order, a phone that has been told some of them counts less than there are, and
may write over one it is about to hear of. The properties therefore promise
something for chats of up to ten messages only (`OneDigit`): with `Base` 3, five
messages and the condition left out, TLC finds `CollisionsAreConcurrent` violated.
The app does not limit the chat, so a longer one has no such guarantee.

Two phones that have not heard of each other's message do pick the same key,
and one of the messages is gone on every phone but its sender's: the properties
say that in a chat of up to ten this is the only way to lose one.

## The runs

All configurations are explored completely; `games` leaves out games of two rounds
of three players, with swaps or with banks of two, by a state constraint. The game may
stop (a finished game, a game without calls), so deadlock is not checked.

| run | specification and bounds | shows |
|---|---|---|
| `games` | `SeatedSpec`, 2 users, 1 bot that may fail, 6 words in banks of 1 or 2, 1 swap each, votesTallied up to 2 for repeated votes; 1 round of any players, 2 rounds of two with banks of 1 and without swaps (`ShortGames`, a state constraint) | `TypeOK`, `RosterMatchesOrder`, `WordsPartitioned`, `EveryPlayerHoldsWords`, `VoteStaysOpen`, `ScoresExplained`, `DecidedInOrder`, `NoVotesBetweenTurns`, `SeatsTakeTurns`, `FairShares`, `VerdictIsFixed`, `ChallengeStands`, `DecidedStays`, and `KeepsTheRules`: the game implements `TurnGame` |
| `stranger` | `Spec`, 3 users, no bot, 4 words | `EveryPlayerVoted` fails: a join that is refused maps its user to the lobby all the same, and its vote ends the vote before a player's |
| `bot_served` | `ServedSpec`, 2 users, 1 bot, embeddings for all words | `BotTurnServed`, `BotVotesServed`, `BotPlays`, `BotsVote`, `GameEnds` |
| `directory` | 2 users, 2 lobbies, 2 codes, 3 calls under way at once | `TypeOK`, `ScreenIsSeated`, `OneCodePerLobby`, `SeatsAreKept`, `HostHasCode`, `ClosedMeansClosed` |
| `screens` | `ScreenSpec`, 2 phones that may lose events and calls, one impatient user, 1 bot, 1 round | `AskedWhenMissing`, `VotesAreTimely`, `VoteEnds` |
| `deals` | 5 words, 1 to 3 players, banks of 1 or 2 | `DealIsComplete`, and `DealsAtOnce`: dealing implements `AtomicDeal` |
| `vote_twice` | `SeatedSpec`, 2 users, 1 bot | `VoteIsFinal` fails: a recorded pass is not taken for a vote |
| `two_bots_in_a_row` | `SeatedSpec`, 2 users, 2 bots | `BotTurnServed` fails: the commit clears the flag it raised |
| `current_lobby` | 2 users, 2 lobbies | `MappingIsCurrent` fails: the entry of a user is taken over by a lobby that is not on the screen |
| `left_in_lobby` | as `screens` | `OptionToChallenge` fails: the game starts between the join and the opening of the lobby, which then never hears of it |
| `transaction` | two joins race the start of a game that has words for one player, a submission races the start, 1 chat message, 3 tries each, connections lost at any time | `TypeOK`, `AnswersTrue`, `RetriesPaidFor`, `CallsEnd`, and `ActsAtomically`: the loop implements `AtomicLobby` |
| `chat` | 2 phones, 3 messages, numerals to the base 10, 1 lost connection | `TypeOK`, `CollisionsAreConcurrent`, `SettledChatAgrees`, `MessageArrives` |

Why the bounds suffice. A vote looks only at who has voted among the players:
with two users and a bot there is one before, one deciding and one who submits, and bot votes
come in beside two users' when the bot itself submits. Turns
interact with the turn before and after them, and one round of three seats has
a first, a middle and a last turn. In its games of two rounds (`games`) the
seat's modulo goes round a table of two twice. In `deals` two banks of two and the start word use up all
five words, three banks of two are refused. Banks of one word distinguish own, other's,
available and start words; banks of two over six words make the list
shorter than a bank. Two lobbies and two codes with two users are the least in
which a call can land in another lobby than the screen's, and three calls let a
third party interfere. `MaxTally` ends the repetition of votes (each repetition
adds one to `votesTallied` and changes nothing else new), `MaxRerolls` the
swaps. A user joins a lobby once: another join before the start writes the same
values. Symmetry over the words is used in the safety runs only; no operator
looks at a word but to compare it. A phone that misses a state is as good as
one that misses several, so one user in `Impatient` and three turns show every
way in which a late vote can meet another turn.

In `transaction` a call can be made stale by a call of its own kind, by one that
changes what it needs, and by a write that is no transaction; the start throws with
no player or two in the lobby and works with one, and which it is may change from one
run of its callback to the next; three tries let the first run on null, a stale
second and a third succeed, or be used up. A vote behaves as a submission there
(one status asked for, another left) and is not among the four calls. In `chat` three messages are two that collide and a third
written by a phone that has heard of both, one or none; one lost connection is
enough for a write to be repeated before and after others'. Three phones with
three messages, and two lost connections, were explored as well.

Two disagreements of the code with its words that the models contain and no run
can refute, as no trace shows that something is impossible:

- A code that is already taken makes createLobby fail with a ReferenceError
  (`lobby-utils.js:24` reads a variable `now` that is not defined), where the next code
  is to be tried, or `resource-exhausted` reported after a thousand
  (`functions/README.md:59`). Were `now` defined, the comparison would take over the
  codes *younger* than an hour. `MapCode` in `LobbyDirectory` fails as the code does; what
  is checked is that such a failure stays without a lobby screen (`HostHasCode`).
- `shuffleArray` is to shuffle "correctly" (`utils.js:1`), for "a random starting word"
  and "a random player order" (`functions/README.md:91-92`). It draws the partner
  *below* the index (`utils.js:6`), so that of n! orders only the (n-1)! single cycles
  come out (theorem `ShufflesAreCycles`) and nothing stays in its place
  (`NothingStays`): the first word of the list is never the start word, and the player
  whose key comes first never begins. Of two players it is always the one whose
  key comes second.

`ScoresExplained` recomputes every score from the record of decided turns and
the swaps, by a recursion over the turns.

### Fairness

`HandlerFairness` asks that a join's writes and a triggered handler are carried
on: Cloud Functions runs a handler it has started, and the database serves its
transactions. `BotPlays` and `BotsVote` need that, a bot server that answers and
one bot (two in a row are the run `two_bots_in_a_row`). `GameEnds` adds players
who play: whenever it stays their turn they submit, whenever their vote stays
missing they vote (`KeepsPlaying`); the code does not make anybody play, so the
assumption is written into the property. Nothing is assumed fair about joining,
starting, swapping words or voting again. `VoteEnds` asks of `SFairness` that
events are delivered, vote calls arrive and a user whose phone asks taps; its
premise, `Attentive`, leaves out phones that lost something or sit in the lobby,
since the code does nothing to bring them back.

`CallsEnd` asks of `TFairness` that the database answers a put and the SDK goes on
with the answer; the loss of a connection, chat messages and new calls are not
fair, and the limit on tries is not what ends the calls: `RetriesPaidFor` says
that each try was paid for by a change of somebody else. `MessageArrives` asks of
`Fairness` in `Chat` that writes, events and listeners go on; nobody has to open a
screen or to write.

## The proofs

The theorems hold for every finite set of users, every number of bots, every
word list and every setting, under the assumptions named in `PasswordGame`
(ids of bots and users differ, the words of the list are finitely many, rounds
and bank sizes are positive), and for `Spec`, with any mapped caller, where not said otherwise.

`PasswordGameProofs` proves `TypeCorrect`, `RosterFrozen` and `TurnsAlternate`
from one inductive invariant, `IInv == TypeOK /\ GameState`. The properties are
not inductive alone: the next turn is the next seat's only because the history
so far is as long as the number of turns begun and its seats are right
(`GoodTurns`), a bot's commit needs a current turn although it checks nothing
(`GameState`: before the start there are no jobs), and the roster stays equal to
the order because joins look at the status in the transaction. The lemma
`StartNextOK` states startNextTurnOrEndGame for a good history or none;
`WordSubmissionOK` and `VoteOK` lift it to the two rules, `SubmissionsIInv` and
`VotesIInv` to every action that uses them, so that a user's call and a bot's late
commit share one proof. `NextIInv` puts the actions together.

`SharesAreFair` counts turns. A seat begins the turns number 1, 1 + n, 1 + 2n and so
on of a table of n, so among the first L turns it has L divided by n, rounded down or
up (`RoundRobin`: the rounds and the turns of a seat are in one-to-one
correspondence; `LengthsCount` counts the rounds). The order of play names each player
once (`SeatOfPlayer`), so no two players' counts differ by more than one
(`SharesClose`), and a finished game has as many turns as players times rounds, so
all counts are the number of rounds (`WholeRounds`).

Its second part is about the words: `WInv` joins `WordsPartitioned` and
`EveryPlayerHoldsWords` to `IInv`. A deal establishes them (`DealtOut`), a swap
keeps them (`Swapped`: the fresh words are taken out of the available ones, the
ditched ones return, and a bank of a positive size drawn from a list that is not
empty is not empty), every other step leaves words and players alone
(`OtherSteps`). `VerdictSettled` is an action property: during a vote the bank of
the submitter is out of reach.

`AppProofs` is about games of seated players (`SeatedSpec`, whose steps are steps of `Spec`, so
`IInv` holds). Its invariant adds to `IInv` that a game has two players (`Seating`),
that the decided turns are all but the current one and had everybody's vote
(`History`), that votes are those of others and never all of them while the vote
lasts (`Ballots`), and, what carries the rest, what the bots' handlers can still
meet (`Handlers`): a turn handler exists only while its bot has the turn, a vote
handler only while its bots' votes are missing, so the vote cannot end before
it commits, and there is one of each at most. A commit without validation
(`index.js:304`, `:351`) is then always for the turn it was asked for. From this
follow `DecidedInOrder`, `VoteStaysOpen`, `NoVotesBetweenTurns`,
`DecidedStays`, `ChallengeStands`, and by one lemma per kind of step the refinement
of `TurnGame` (`GameKeepsTheRules`). None of these is claimed for the votes of
strangers. The second bot in a row, whose trigger is lost,
does no harm to these: the game stops.

The scores are recomputed by a recursion over the turns, `Explained`. A step that
leaves the decided turns alone leaves the sum alone, and one that decides the last
turn adds what `ScoreTurn` adds (`ScoresAreExplained`): that a decided turn is not
written again is half of the proof, and that nothing is scored before the vote is
over the other half.

Two theorems are about the triggers and need what the run `bot_served` has too: every
word that can be submitted has an embedding and the bot server does not fail, since a
handler that fails leaves nobody to serve the bot. A vote that waits for bots then
has its handler (`VotesOfBotsServed`, any number of bots): no vote leaves the flag
awaitingBotVotes up behind it, so that raising it fires the trigger, and the handler
finds words it has embeddings for (`Worded`, `NoBotFails`). For turns
(`TurnsOfBotsServed`) there may be one bot only, and this is not for convenience: the
commit of a bot's turn lowers the flag that the next bot's turn raised, which
`two_bots_in_a_row` shows. With one bot the next seat is a user's, since a game has
two players.

`LobbyDirectoryProofs` proves the directory's invariants for any number of users,
lobbies, codes and calls. `DInv` says what the writes still to be done tell of the
call's lobby (`GoodCall`), that a key has one creator, and that a code leads to a
lobby that is there or whose push is on its way (`CodesLead`): a friend with the
code finds the lobby or a not-found, never another lobby. A push comes before every
seat in its lobby, since an absent lobby seats nobody (`SeatsStay`), and a host
gets to its lobby by a call whose code is written (`HostsHaveCodes`).

`LobbyTransactionProofs` proves, for any number of calls, messages and tries, that
the loop implements `AtomicLobby` (`TransactionIsAtomic`) and that answers are true.
`TInv` ties a put on its way to what it was computed from: its result is the
callback's of its guess, and a call is in the log exactly as often as it has
been committed. That a step of `Serve` is `Decide` needs no more, since the
database compares whole lobbies. A throw is an abort like a refusal, with another
word for the caller. `RetriesArePaidFor` has an invariant of its own:
the lobby a request knows of has as many changes as the request has tries, and
the lobby only grows.

`GameScreenProofs` is about any number of phones. A vote call
carries no turn, so that a patient user's call is for the present vote rests on
what its phone can still be told: phones are told the game's states in order of
their `Rank`, and of a vote somebody takes part in, either the backend waits for
that user now or the phone has voted and sees it still (`Told`). A turn can then
not be decided while a patient user's call is on its way. For `AskedWhenMissing`,
a phone that lost nothing is told every change up to the present (`Unbroken`), so
between two votes it hears of a submission, which resets hasVoted (`Cleared`), and a
vote it has sent is counted or under way (`Sent`).

`DealingProofs` proves that a deal is complete for a list of any length, any number
of players and any bank size. The shuffle keeps the array an order of all the words (the
choice of the partner does not matter); a bank's word comes from a place of its
own (`Place`), and no place is passed over (`Copied`).

`DealsImplementDeal` maps these steps to `AtomicDeal`. Seen from there the only steps
are the check of the size, when it refuses (`CheckSize`), and the end of the chunking
(`LastStepHandsOut`), where the completed deal is a choice of `HandOut`; shuffling and
chunking stutter (`StepOfTheDeal`). `EveryDealMayStart` in `PasswordGameProofs` is
the other half of the seam: in whatever way words and players are numbered, what
`HandOut` chooses is a start word, banks and available words that `StartGame` may
choose, and both refuse for the same sizes. The converse is not claimed: the
shuffle produces single cycles only, `StartGame` allows more deals than that.

`ShufflesAreCycles` says how far the shuffle falls short of the random order it is
to produce, again for any length: which orders come out. `Cycles` are
the orders that leave no part of the places to itself. Behind the loop's draws from
the last place down to the place above k, every cycle of the array passes through
exactly one of the first k places (`Rooted`): at first each place is a cycle of its own
(`RootedAtFirst`), a draw links the cycle of a place into one of a place below
(`DrawLinks`), every order of this kind comes from a draw (`DrawUndone`), and with
one place left there is one cycle (`RootedAtLast`). `AllOutcomes` counts down from the
last index. `NothingStays` is what follows for each place.

`ChatProofs` is about any set of phones and any number of lost connections, and about
chats of at most ten messages (`OneDigit`): their keys sort like their numbers
(`AscendingKeys`), and nothing is claimed, or true, beyond. Keys are counts, so everything rests on there being no gaps (`ChatInv`): the database
holds the keys up to some number (`Stored`), the messages a phone lists, and those
its listener has still to list, are the keys from 0 on (`InARow`), and what the
phone owes (`Outstanding`, `Backed`) or is still told (`Coming`) continues them in
order. An acknowledgement under way stands for a write the database has taken, so
the first outstanding write is in the database when one arrives; after a lost
connection a phone is told all keys in order (`SnapshotComing`), and repeating a
write changes no set of keys. Then a new message has a key above all its sender has
heard of (`OnlyConcurrentCollide`), and when nothing is under way every screen lists
exactly the keys of the database (`SettledAgrees`).

`NaturalRecursion` proves the induction that `ScoresAreExplained`,
`ShufflesAreCycles` and `AscendingKeys` use, for a set of numbers instead of a
predicate, from the well-foundedness of the natural numbers, and that a first value and a
rule for the next one define a function.

The invariants of all these modules were first checked with TLC on the instances of
the runs. The proofs assume the constants' assumptions named in the modules and
nothing else.

Every invariant and every action property of a passing run, and all three refinements
(`TurnGame`, `AtomicLobby`, `AtomicDeal`), are theorems. Only model-checked is liveness under fairness, which is out of the
prover's reach: `BotPlays`, `BotsVote`, `GameEnds`, `VoteEnds`, `CallsEnd` and
`MessageArrives`. `BotTurnServed` and `BotVotesServed` are proved under the
assumptions above; that they are needed is what TLC shows.

## Not modelled

- Two deliveries of one trigger: handlers run once per sentinel.
- Remapping of a player in the middle of a game is an absent player here; the
  mapping itself is in `LobbyDirectory`.
- Letter case of words, extra fields of requests, timestamps, display data.
- The progress bar, the word bank's buttons and the standings of the app's game
  screen; players who look alike (the app finds its own id by name, emoji and
  colour).
- The order of the chat on a screen (by time).
- Distances of embeddings: the bot server answers anything its rules allow.
- WordLinks, vocabulary scripts, notebook.
- The vendored pods. All C, C++ and Objective-C of the repository is in
  `src/password_prototype/Pods` (Firebase SDKs, LevelDB, nanopb and others, none of
  them written here); the program itself is JavaScript, Swift and Python. Of the
  pods only what the app relies on is modelled, in `Chat` and `GameScreen` and at the
  lines of the SDK: events in order of keys, local events of own writes, outstanding
  writes repeated after a lost connection. The transactions are those of
  firebase-admin, which is not in the repository, and external.

## Plan

1. Done: `PasswordGame`, `PasswordApp`, `TurnGame`, `GameScreen`, `LobbyDirectory`,
   `Dealing`, `LobbyTransaction`, `Chat`; proofs of all their safety properties.
   Done too: the seam between `Dealing` and `StartGame` as theorems.
2. The steps behind the liveness properties as theorems (a handler under way can
   always commit, every try of a call is answered).
3. Redelivered triggers as a configuration of `PasswordGame`; request validation
   with letter case.
4. The progress counter and the word bank's buttons beside `GameScreen`, and players
   who look alike.
