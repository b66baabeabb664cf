----------------------------- MODULE LobbyCalls -----------------------------
(***************************************************************************)
(* What the functions that call updateLobby do to a lobby, reduced to what *)
(* tells them apart when they race: the status each one asks for and the   *)
(* one it leaves, an entry of its own that it adds (a player, a turn, a    *)
(* vote), and the games that cannot be dealt.  PasswordGame says what they *)
(* do in full.                                                             *)
(***************************************************************************)
EXTENDS Integers, Sequences

CONSTANTS Callers,   \* calls of the functions, each made once
          Kind,      \* which function each of them is
          Messages,  \* chat messages, which phones write without a transaction
          Dealable,  \* the sets of players that there are words enough for
          NoLobby    \* the null a missing path reads as

Kinds  == {"join", "start", "submit", "vote"}
Status == {"LOBBY", "SUBMISSION", "VOTING"}

\* Mutant: a status that no function asks for.
LeavesMistyped == [join |-> "LOBBY", start |-> "SUBMISSION", submit |-> "VOTE", vote |-> "SUBMISSION"]

\* validateLobbyFn and updateLobbyFn: the status a call finds, and leaves.
Needs  == [join |-> "LOBBY", start |-> "LOBBY", submit |-> "SUBMISSION", vote |-> "VOTING"]
Leaves == [join |-> "LOBBY", start |-> "SUBMISSION", submit |-> "VOTING", vote |-> "SUBMISSION"]

Lobby == [status: Status, log: Seq(Callers), chat: SUBSET Messages]

ASSUME CallsAssumption == /\ Kind \in [Callers -> Kinds] /\ NoLobby \notin Lobby
                          /\ {} \notin Dealable

NewLobby      == [status |-> "LOBBY", log |-> <<>>, chat |-> {}]
Refuses(l, c) == l.status # Needs[Kind[c]]

\* The updateLobbyFn of startGame throws in a lobby without players, and when
\* the word list is too short for them.
Joined(l)    == {c \in Callers : Kind[c] = "join" /\ \E i \in DOMAIN l.log : l.log[i] = c}
Throws(l, c) == Kind[c] = "start" /\ Joined(l) \notin Dealable

Applied(l, c) == [l EXCEPT !.status = Leaves[Kind[c]], !.log = Append(@, c)]
=============================================================================
