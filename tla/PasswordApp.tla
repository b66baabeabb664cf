---------------------------- MODULE PasswordApp -----------------------------
(***************************************************************************)
(* PasswordGame among the players at the table, and what must be true of   *)
(* it.                                                                     *)
(*                                                                         *)
(* The backend does not ask whether a caller plays in the lobby its entry  *)
(* of playerLobbyMap leads to.  A submission or a swap of such a stranger  *)
(* comes to nothing; its vote counts (voteOnWord).  PasswordGame!Spec has  *)
(* every such call.  SeatedSpec is an ASSUMPTION about the players, not a  *)
(* guard of the code: whoever votes sits in the lobby, and "start" is      *)
(* pressed when the lobby has two players.  LobbyVC enables its button     *)
(* once the phone has listed two players of the lobby it shows; the call   *)
(* goes to this lobby unless the phone's entry leads elsewhere, which is   *)
(* the subject of LobbyDirectory (MappingIsCurrent).  Nothing keeps a      *)
(* player from tapping a vote twice.                                       *)
(***************************************************************************)
EXTENDS PasswordGame

SeatedHostCalls ==
  \E u \in Users :
    \/ AddBot(u)
    \/ /\ Cardinality(players) > 1
       /\ \E r \in RoundChoices, b \in BankChoices : StartGame(u, r, b)

SeatedGameCalls ==
  \E u \in Users :
    \/ \E w \in Words : SubmitWord(u, w)
    \/ RequestNewWords(u)
    \/ /\ u \in players
       /\ \E v \in {"pass", "challenge"} : VoteOnWord(u, v)

SeatedNext == Joins \/ SeatedHostCalls \/ SeatedGameCalls \/ BotSteps \/ BotErrors

SeatedSpec == Init /\ [][SeatedNext]_vars

----------------------------------------------------------------------------
(********************************* Fairness ********************************)

\* Cloud Functions runs a started join and a triggered handler to their end.
HandlerFairness ==
  /\ WF_vars(BotSteps)
  /\ \A u \in Users : WF_vars(JoinUpdate(u)) /\ WF_vars(JoinMapping(u))

\* Players who do not walk away: each of them submits on its turn and casts a
\* first vote on the turns of the others.
FirstVote(u)  == votes[u] = "none" /\ \E v \in {"pass", "challenge"} : VoteOnWord(u, v)
KeepsPlaying(u) == /\ WF_vars(\E w \in Words : SubmitWord(u, w))
                   /\ WF_vars(u \in players /\ FirstVote(u))

ServedSpec == SeatedSpec /\ HandlerFairness
PlayedSpec == ServedSpec /\ \A u \in Users : KeepsPlaying(u)

----------------------------------------------------------------------------
(**************************** Safety properties ****************************)

Decided(t) == t.other # NoOne \/ t.verdict # "open"

\* Only the last turn is undecided, and the game is over exactly when that one
\* is decided too: no handler decides a turn twice or skips one.
DecidedInOrder ==
  Started => \A i \in DOMAIN turns : Decided(turns[i]) <=> (i < Len(turns) \/ status = "DONE")

\* "the server waits until all players have voted" (schema/README.md): a turn
\* decided by vote has a vote of every other player.  handleVote only counts
\* votes, and voteOnWord takes one from whoever is mapped to the lobby.
EveryPlayerVoted ==
  \A i \in DOMAIN turns :
    turns[i].verdict # "open" => players \ {turns[i].player} \subseteq Voters(turns[i].votes)

\* handleVote compares with ===: while a vote runs, the number of votes is
\* still below the number that ends it, or it would never end.
VoteStaysOpen == status = "VOTING" => Cardinality(Voters(votes)) < Len(playerOrder) - 1

\* Two players never hold votes over from a turn to the next.
NoVotesBetweenTurns == status # "VOTING" => votes = NoVotes

\* Every score is what the decided turns and the swaps of words explain: no
\* turn is scored twice or not at all, whoever resolved it.
Explained(ts) ==
  LET after[i \in 0..Len(ts)] ==
        IF i = 0 THEN [p \in Ids |-> 0]
        ELSE IF Decided(ts[i]) THEN ScoreTurn(after[i - 1], ts[i]) ELSE after[i - 1]
  IN  after[Len(ts)]

ScoresExplained == score = [p \in Ids |-> Explained(turns)[p] - rerolls[p]]

\* A game that waits for a bot has a handler under way for it ("They watch for
\* when it's a bot's turn or a bot needs to vote on a word", index.js).
BotTurnServed ==
  status = "SUBMISSION" /\ Current.player \in BotIds => \E j \in jobs : j.kind = "turn"
BotVotesServed ==
  status = "VOTING" /\ awaitingBotVotes # {} => \E j \in jobs : j.kind = "vote"

----------------------------------------------------------------------------
(**************************** Action properties ****************************)

\* A challenge, once cast, stands until the vote is over.
ChallengeStands ==
  [][SameVote => \A p \in Ids : votes[p] = "challenge" => votes'[p] = "challenge"]_vars

\* No second vote: "failed-precondition: if you already voted" (README.md).
VoteIsFinal ==
  [][SameVote => \A p \in Ids : votes[p] # "none" => votes'[p] = votes[p]]_vars

\* What a decided turn says is never rewritten, not by a bot's late answer.
DecidedStays ==
  [][\A i \in DOMAIN turns : Decided(turns[i]) => turns'[i] = turns[i]]_vars

----------------------------------------------------------------------------
(****************************** Liveness ***********************************)

\* With one bot and a bot server that answers, a bot's turn gets played and
\* the votes asked of bots are cast.
BotPlays == (status = "SUBMISSION" /\ Current.player \in BotIds)
              ~> ~ (status = "SUBMISSION" /\ Current.player \in BotIds)
BotsVote == awaitingBotVotes # {} ~> awaitingBotVotes = {}

\* A game whose players keep playing comes to its end.
GameEnds == (\A u \in Users : KeepsPlaying(u)) => (Started ~> status = "DONE")

----------------------------------------------------------------------------
(***************************** Refinement **********************************)

Rules == INSTANCE TurnGame WITH
  Seats   <- Ids,
  Rounds  <- RoundChoices,
  phase   <- CASE status = "LOBBY" -> "gathering" [] status = "SUBMISSION" -> "submitting"
               [] status = "VOTING" -> "voting"   [] status = "DONE" -> "over",
  seating <- playerOrder,
  total   <- settings.numRounds * Len(playerOrder),
  turn    <- Len(turns),
  pending <- IF status = "VOTING" THEN players \ ({Current.player} \cup Voters(votes)) ELSE {}

\* The games of seated players are games of TurnGame.
KeepsTheRules == Rules!Spec
=============================================================================
