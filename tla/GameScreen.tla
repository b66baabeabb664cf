----------------------------- MODULE GameScreen -----------------------------
(***************************************************************************)
(* The app's screens in front of the game of TurnGame: what a phone shows  *)
(* and which votes it sends, while the database's events come in late.     *)
(*                                                                         *)
(* A phone holds the last state of /public it was told, and a queue of the *)
(* states still to come.  Its listeners act on changes (childChanged), so  *)
(* a state it never sees is a change it never hears of: that happens when  *)
(* it is offline, and between joinLobby and the opening of the lobby.      *)
(*                                                                         *)
(* TurnGame stands for the backend.  Commits that change neither the phase *)
(* nor the turn (swaps of words, chat, repeated votes) make the phone      *)
(* redraw and no more: see Redraw.                                         *)
(***************************************************************************)
EXTENDS TurnGame

CONSTANTS Host, Bots,   \* the seat that starts the game; seats without a phone
          Flaky,        \* bound: phones that may lose events and calls
          Impatient     \* users who may tap a button twice before it goes

Users == Seats \ Bots

VARIABLES
  joined,    \* public/players: whose join has been committed
  screen,    \* "splash", "lobby", "game" or "standings"
  seen,      \* the phase and turn the phone was told last
  feed,      \* the ones it has still to be told
  hasVoted,  \* LOCAL.hasVoted
  buttons,   \* accept and challenge: "hidden", "shown", or "tapped" since drawn
  calls,     \* voteOnWord calls under way: the caller and, as history, the
             \* turn on the screen and whether the button was tapped before
  missed     \* history: phones that lost an event or a call

phones == <<screen, seen, feed, hasVoted, buttons>>
svars  == <<vars, joined, phones, calls, missed>>

Now  == [phase |-> phase, turn |-> turn]

SInit == /\ Init
         /\ joined = {Host}
         /\ screen = [u \in Users |-> IF u = Host THEN "lobby" ELSE "splash"]
         /\ seen = [u \in Users |-> Now] /\ feed = [u \in Users |-> <<>>]
         /\ hasVoted = [u \in Users |-> FALSE]
         /\ buttons = [u \in Users |-> "hidden"]
         /\ calls = {} /\ missed = {}

----------------------------------------------------------------------------
(******************************* The backend *******************************)

\* A commit is on its way to every phone that listens.
Publish ==
  /\ feed' = [u \in Users |->
       IF screen[u] = "splash" THEN feed[u]
       ELSE Append(feed[u], [phase |-> phase', turn |-> turn'])]
  /\ UNCHANGED <<joined, screen, seen, hasVoted, buttons, missed>>

\* joinLobby or addBot commits; the joiner's screen is still the old one.
Join(p) ==
  /\ phase = "gathering" /\ p \notin joined
  /\ joined' = joined \cup {p}
  /\ UNCHANGED <<vars, phones, calls, missed>>

StartGame(order, r) ==
  /\ Cardinality(joined) > 1 /\ {order[i] : i \in DOMAIN order} = joined
  /\ Start(order, r) /\ Publish /\ UNCHANGED calls

\* A word is submitted: the screen lets anybody send one at any time, the
\* backend takes it from the player whose turn it is.
WordArrives ==
  /\ phase = "submitting"
  /\ Active \in Users => screen[Active] = "game"
  /\ Hit \/ PutToVote
  /\ Publish /\ UNCHANGED calls

BotVote(b) == CastVotes({b}) /\ Publish /\ UNCHANGED calls

\* Mutant: the vote is noted, and the last one does not close the vote.
NeverCloses(c) ==
  /\ c \in calls /\ calls' = calls \ {c}
  /\ IF phase = "voting" /\ c.by \in pending /\ pending # {c.by}
       THEN CastVotes({c.by}) /\ Publish
       ELSE UNCHANGED <<vars, joined, phones, missed>>

\* A vote arrives: it counts for the word being voted on, or is refused.
VoteArrives(c) ==
  /\ c \in calls /\ calls' = calls \ {c}
  /\ IF phase = "voting" /\ c.by \in pending
       THEN CastVotes({c.by}) /\ Publish
       ELSE UNCHANGED <<vars, joined, phones, missed>>

----------------------------------------------------------------------------
(******************************** A phone **********************************)

\* Mutant: hasVoted is not looked at.
AlwaysAsks(u, s, voted) ==
  s.phase = "voting" /\ seating[((s.turn - 1) % Len(seating)) + 1] # u

\* The last cell asks for a vote when it holds a word, of somebody else, and
\* no vote was sent: a turn without a word has disabled buttons.
Asks(u, s, voted) ==
  /\ s.phase = "voting" /\ ~voted
  /\ seating[((s.turn - 1) % Len(seating)) + 1] # u

Drawn(u, s, voted) == IF Asks(u, s, voted) THEN "shown" ELSE "hidden"

\* Mutant: only the first turn's SUBMISSION resets the flag.
ForgetsToReset(u, s) == hasVoted[u] /\ ~ (s.phase = "submitting" /\ s.turn = 1)

\* The status listener: a change to SUBMISSION makes room for a new vote.
VotedAfter(u, s) ==
  hasVoted[u] /\ ~ (s.phase = "submitting" /\ seen[u].phase # "submitting")

\* joinLobby has answered: the lobby opens, and listens from now on.
OpenLobby(u) ==
  /\ screen[u] = "splash" /\ u \in joined
  /\ screen' = [screen EXCEPT ![u] = "lobby"] /\ seen' = [seen EXCEPT ![u] = Now]
  /\ UNCHANGED <<vars, joined, feed, hasVoted, buttons, calls, missed>>

\* The lobby hears of a change.  Only one to SUBMISSION opens the game screen.
LobbyHears(u) ==
  /\ screen[u] = "lobby" /\ feed[u] # <<>>
  /\ LET s == Head(feed[u]) IN
       /\ screen' = IF s.phase = "submitting" /\ seen[u].phase # "submitting"
                      THEN [screen EXCEPT ![u] = "game"] ELSE screen
       /\ seen' = [seen EXCEPT ![u] = s]
  /\ feed' = [feed EXCEPT ![u] = Tail(@)]
  /\ UNCHANGED <<vars, joined, hasVoted, buttons, calls, missed>>

\* The game screen hears of a change: all its listeners, then the table is
\* drawn anew.
GameHears(u) ==
  /\ screen[u] = "game" /\ feed[u] # <<>>
  /\ LET s == Head(feed[u]) IN
       /\ hasVoted' = [hasVoted EXCEPT ![u] = VotedAfter(u, s)]
       /\ screen' = IF s.phase = "over" THEN [screen EXCEPT ![u] = "standings"] ELSE screen
       /\ seen' = [seen EXCEPT ![u] = s]
       /\ buttons' = [buttons EXCEPT ![u] = Drawn(u, s, VotedAfter(u, s))]
  /\ feed' = [feed EXCEPT ![u] = Tail(@)]
  /\ UNCHANGED <<vars, joined, calls, missed>>

\* The table is drawn anew for another reason: keyboard, chat, a swap.
Redraw(u) ==
  /\ screen[u] = "game"
  /\ buttons' = [buttons EXCEPT ![u] = Drawn(u, seen[u], hasVoted[u])]
  /\ UNCHANGED <<vars, joined, screen, seen, feed, hasVoted, calls, missed>>

\* Accept or challenge is tapped.  A tap sets hasVoted and leaves the buttons
\* as they are, so a second one sends another call.
Tap(u) ==
  /\ screen[u] = "game"
  /\ buttons[u] \in {"shown"} \cup (IF u \in Impatient THEN {"tapped"} ELSE {})
  /\ calls' = calls \cup {[by |-> u, turn |-> seen[u].turn, again |-> buttons[u] = "tapped"]}
  /\ hasVoted' = [hasVoted EXCEPT ![u] = TRUE]
  /\ buttons' = [buttons EXCEPT ![u] = "tapped"]
  /\ UNCHANGED <<vars, joined, screen, seen, feed, missed>>

----------------------------------------------------------------------------
(***************************** The connection ******************************)

\* After a time offline a phone is told the present state and none between.
Reconnect(u) ==
  /\ u \in Flaky /\ Len(feed[u]) > 1
  /\ feed' = [feed EXCEPT ![u] = <<@[Len(@)]>>]
  /\ missed' = missed \cup {u}
  /\ UNCHANGED <<vars, joined, screen, seen, hasVoted, buttons, calls>>

\* A call fails on its way.  The app logs it and keeps hasVoted.
CallFails(c) ==
  /\ c.by \in Flaky /\ c \in calls /\ calls' = calls \ {c}
  /\ missed' = missed \cup {c.by}
  /\ UNCHANGED <<vars, joined, phones>>

SNext ==
  \/ \E p \in Seats : Join(p)
  \/ \E r \in Rounds : \E order \in [1..Cardinality(joined) -> joined] : StartGame(order, r)
  \/ WordArrives
  \/ \E b \in Bots : BotVote(b)
  \/ \E c \in calls : VoteArrives(c) \/ CallFails(c)
  \/ \E u \in Users : \/ OpenLobby(u) \/ LobbyHears(u) \/ GameHears(u)
                      \/ Redraw(u) \/ Tap(u) \/ Reconnect(u)

\* Events and calls arrive, bots vote, and a player who is asked taps.
SFairness ==
  /\ \A u \in Users : WF_svars(GameHears(u)) /\ WF_svars(Tap(u) /\ buttons[u] = "shown")
  /\ \A u \in Users : WF_svars(\E c \in calls : c.by = u /\ VoteArrives(c))
  /\ \A b \in Bots : WF_svars(BotVote(b))

ScreenSpec == SInit /\ [][SNext]_svars /\ SFairness

----------------------------------------------------------------------------
(******************************* Properties ********************************)

\* The backend waits for u, and neither an event nor a call of u is under way.
Missing(u) == /\ phase = "voting" /\ u \in pending /\ feed[u] = <<>>
              /\ \A c \in calls : c.by # u

\* "The client displays the submitted word and gives the player the option to
\* challenge it" (schema/README.md): a phone on the game screen that lost
\* nothing asks for the vote the backend waits for.
AskedWhenMissing ==
  \A u \in Users \ missed : screen[u] = "game" /\ Missing(u) => buttons[u] = "shown"

\* The same of every joined player whose app has opened the lobby.
OptionToChallenge ==
  \A u \in Users \ missed : screen[u] # "splash" /\ Missing(u) => buttons[u] = "shown"

\* voteOnWord need not be told the turn: the vote of a player who does not tap
\* twice is for the word the backend is asking about, however late it is.
VotesAreTimely ==
  \A c \in calls : c.by \notin Impatient => phase = "voting" /\ c.by \in pending /\ c.turn = turn

\* A vote among phones that hear everything comes to its end.
Attentive == \A p \in joined \cap Users : screen[p] = "game" /\ p \notin missed
VoteEnds  == phase = "voting" /\ Attentive ~> phase # "voting" \/ ~Attentive
=============================================================================
