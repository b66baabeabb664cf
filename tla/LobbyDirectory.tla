--------------------------- MODULE LobbyDirectory ---------------------------
(***************************************************************************)
(* How users find lobbies: the three maps of the database that createLobby *)
(* and joinLobby write (lobbies, lobbyCodeMap, playerLobbyMap), and the    *)
(* screen of the app that waits for those calls.                           *)
(*                                                                         *)
(* Neither call is atomic.  createLobby pushes the lobby, reserves a code  *)
(* at the same time, and adds the host once the push is done; adding a     *)
(* player is a transaction on the lobby and an independent write of the    *)
(* user's mapping.  The call reports the first error while the writes it   *)
(* has started go on.  What the game does with a started lobby is          *)
(* PasswordGame; here a lobby is open or closed.                           *)
(***************************************************************************)
EXTENDS Integers, FiniteSets

CONSTANTS Users, Lobbies, Codes,
          MaxCalls,   \* bound: calls under way at once, those answered included
          None

ASSUME DirectoryAssumption ==
  None \notin Users \cup Lobbies \cup Codes /\ MaxCalls \in Nat \ {0}

VARIABLES
  lobbies,       \* /lobbies: status, host and players of each key
  lobbyCodeMap,  \* /lobbyCodeMap: code -> lobby
  playerLobbyMap,\* /playerLobbyMap: user -> lobby
  calls,         \* createLobby and joinLobby calls under way
  screen         \* LOCAL.lobby of each user's app: the lobby it shows

vars == <<lobbies, lobbyCodeMap, playerLobbyMap, calls, screen>>

Writes == {"push", "code", "update", "mapping"}

\* A call: the writes not yet done, whether one of them failed, whether the
\* caller has its answer.
Call == [kind: {"create", "join"}, user: Users, lobby: Lobbies, todo: SUBSET Writes,
         failed: BOOLEAN, answered: BOOLEAN]

Absent == [status |-> "absent", host |-> None, players |-> {}]

Init ==
  /\ lobbies = [l \in Lobbies |-> Absent]
  /\ lobbyCodeMap = [c \in Codes |-> None]
  /\ playerLobbyMap = [u \in Users |-> None]
  /\ calls = {} /\ screen = [u \in Users |-> None]

Running(u)  == {k \in calls : k.user = u /\ ~ k.answered}
MayCall(u)  == screen[u] = None /\ Cardinality(calls) < MaxCalls
FreshKeys   == {l \in Lobbies : lobbies[l] = Absent /\ \A k \in calls : k.lobby # l}
\* Mutant: user and lobby mixed up.
MixedUpCall(kind, u, l, todo) ==
  [kind |-> kind, user |-> l, lobby |-> u, todo |-> todo, failed |-> FALSE, answered |-> FALSE]

NewCall(kind, u, l, todo) ==
  [kind |-> kind, user |-> u, lobby |-> l, todo |-> todo, failed |-> FALSE, answered |-> FALSE]
Replace(k, k2) == calls' = (calls \ {k}) \cup {k2}
\* Mutant: reserving a code is tried again after it succeeded.
CodeRetried(k, write) == Replace(k, [k EXCEPT !.todo = @ \ ({write} \ {"code"})])

Done(k, write) == Replace(k, [k EXCEPT !.todo = @ \ {write}])
Failed(k, write) == Replace(k, [k EXCEPT !.todo = @ \ {write}, !.failed = TRUE])

----------------------------------------------------------------------------
\* newGameButtonPressed -> createLobby: push() hands out a key at once.  The
\* button is not disabled meanwhile: it may be tapped again.
CreateLobby(u, l) ==
  /\ MayCall(u) /\ l \in FreshKeys
  /\ calls' = calls \cup {NewCall("create", u, l, Writes)}
  /\ UNCHANGED <<lobbies, lobbyCodeMap, playerLobbyMap, screen>>

\* enterLobbyButtonPressed -> joinLobby: findLobbyIdFromCode finds a mapping.
\* The button is disabled until the answer.
JoinLobby(u, c) ==
  /\ MayCall(u) /\ lobbyCodeMap[c] # None
  /\ \A k \in Running(u) : k.kind # "join"
  /\ calls' = calls \cup {NewCall("join", u, lobbyCodeMap[c], {"update", "mapping"})}
  /\ UNCHANGED <<lobbies, lobbyCodeMap, playerLobbyMap, screen>>

PushLobby(k) ==
  /\ "push" \in k.todo
  /\ lobbies' = [lobbies EXCEPT ![k.lobby] =
                   [status |-> "LOBBY", host |-> k.user, players |-> {}]]
  /\ Done(k, "push")
  /\ UNCHANGED <<lobbyCodeMap, playerLobbyMap, screen>>

Unused(c) == lobbyCodeMap[c] = None

\* createLobbyCodeMapping tries a random code.  A code in use makes it read
\* the undefined variable `now`: the call fails with that error.  Trying the
\* next code, reusing an old one and "resource-exhausted" are never reached.
MapCode(k, c) ==
  /\ "code" \in k.todo
  /\ IF Unused(c)
       THEN /\ lobbyCodeMap' = [lobbyCodeMap EXCEPT ![c] = k.lobby]
            /\ Done(k, "code")
       ELSE /\ UNCHANGED lobbyCodeMap
            /\ Failed(k, "code")
  /\ UNCHANGED <<lobbies, playerLobbyMap, screen>>

\* Mutants: the status is not validated; whatever has not started is open.
AlwaysOpen(l) == TRUE
NotStarted(l) == lobbies[l].status # "SUBMISSION"

Open(l) == lobbies[l].status = "LOBBY"

\* The two halves of addPlayerToLobby, started when the lobby is there.
Adding(k) == "push" \notin k.todo

UpdateLobby(k) ==
  /\ Adding(k) /\ "update" \in k.todo
  /\ IF Open(k.lobby)
       THEN /\ lobbies' = [lobbies EXCEPT ![k.lobby].players = @ \cup {k.user}]
            /\ Done(k, "update")
       ELSE /\ UNCHANGED lobbies
            /\ Failed(k, "update")
  /\ UNCHANGED <<lobbyCodeMap, playerLobbyMap, screen>>

MapPlayer(k) ==
  /\ Adding(k) /\ "mapping" \in k.todo
  /\ playerLobbyMap' = [playerLobbyMap EXCEPT ![k.user] = k.lobby]
  /\ Done(k, "mapping")
  /\ UNCHANGED <<lobbies, lobbyCodeMap, screen>>

\* Mutant: the answer does not await the writes.
SucceedAtOnce(k) ==
  /\ ~ k.answered /\ ~ k.failed
  /\ screen' = [screen EXCEPT ![k.user] = k.lobby]
  /\ calls' = calls \ {k}
  /\ UNCHANGED <<lobbies, lobbyCodeMap, playerLobbyMap>>

\* Mutant: the code is not awaited.
SucceedUncoded(k) ==
  /\ ~ k.answered /\ ~ k.failed /\ k.todo \subseteq {"code"}
  /\ screen' = [screen EXCEPT ![k.user] = k.lobby]
  /\ calls' = calls \ {k}
  /\ UNCHANGED <<lobbies, lobbyCodeMap, playerLobbyMap>>

\* The call succeeds when every write is done; the app shows the lobby.
Succeed(k) ==
  /\ ~ k.answered /\ ~ k.failed /\ k.todo = {}
  /\ screen' = [screen EXCEPT ![k.user] = k.lobby]
  /\ calls' = calls \ {k}
  /\ UNCHANGED <<lobbies, lobbyCodeMap, playerLobbyMap>>

\* The first rejection is the answer, writes under way go on after it.  An
\* error of adding the host is only seen once the code is there.
Fail(k) ==
  /\ ~ k.answered /\ k.failed /\ "code" \notin k.todo
  /\ Replace(k, [k EXCEPT !.answered = TRUE])
  /\ UNCHANGED <<lobbies, lobbyCodeMap, playerLobbyMap, screen>>

\* After the answer the instance may be frozen: the rest never happens.
Abandon(k) ==
  /\ k.answered
  /\ calls' = calls \ {k}
  /\ UNCHANGED <<lobbies, lobbyCodeMap, playerLobbyMap, screen>>

\* unwindToSplashPressed: the app forgets the lobby, the server does not.
LeaveScreen(u) ==
  /\ screen[u] # None
  /\ screen' = [screen EXCEPT ![u] = None]
  /\ UNCHANGED <<lobbies, lobbyCodeMap, playerLobbyMap, calls>>

\* startGamePressed -> startGame: the lobby that closes is the mapped one,
\* whatever the screen shows.
StartGame(u) ==
  LET l == playerLobbyMap[u]
  IN  /\ screen[u] # None /\ l # None
      /\ lobbies[l].host = u /\ lobbies[l].status = "LOBBY" /\ lobbies[l].players # {}
      /\ lobbies' = [lobbies EXCEPT ![l].status = "SUBMISSION"]
      /\ UNCHANGED <<lobbyCodeMap, playerLobbyMap, calls, screen>>

AppSteps == \E u \in Users : \/ \E l \in Lobbies : CreateLobby(u, l)
                             \/ \E c \in Codes : JoinLobby(u, c)
                             \/ LeaveScreen(u) \/ StartGame(u)
CallStep(k) == \/ PushLobby(k) \/ UpdateLobby(k) \/ MapPlayer(k)
               \/ \E c \in Codes : MapCode(k, c)
               \/ Succeed(k) \/ Fail(k)
Next == \/ AppSteps
        \/ \E k \in calls : CallStep(k) \/ Abandon(k)

Spec == Init /\ [][Next]_vars

----------------------------------------------------------------------------
TypeOK ==
  /\ lobbies \in [Lobbies -> [status: {"absent", "LOBBY", "SUBMISSION"},
                              host: Users \cup {None}, players: SUBSET Users]]
  /\ lobbyCodeMap \in [Codes -> Lobbies \cup {None}]
  /\ playerLobbyMap \in [Users -> Lobbies \cup {None}]
  /\ calls \subseteq Call /\ screen \in [Users -> Lobbies \cup {None}]

\* Whoever sees a lobby on the screen plays in it, however its calls and those
\* of others were interleaved (LobbyVC reads that lobby only).
ScreenIsSeated == \A u \in Users : screen[u] # None => u \in lobbies[screen[u]].players

\* Two codes never lead to one lobby.
OneCodePerLobby ==
  \A c, d \in Codes : lobbyCodeMap[c] # None /\ lobbyCodeMap[c] = lobbyCodeMap[d] => c = d

\* A seat taken is not taken away: joinLobby finds a lobby by its code while
\* createLobby still pushes it, and the push would replace who is seated there.
SeatsAreKept ==
  [][\A l \in Lobbies : lobbies[l].players \subseteq lobbies'[l].players]_vars

\* A host who comes to see its lobby has a code to give to its friends: a call
\* whose code failed, or is not there yet, never leads to the lobby screen.
HostHasCode ==
  [][\A u \in Users :
       screen'[u] \notin {screen[u], None} /\ lobbies[screen'[u]].host = u
         => \E c \in Codes : lobbyCodeMap[c] = screen'[u]]_vars

\* Nobody is seated in, or removed from, a closed lobby.
ClosedMeansClosed ==
  [][\A l \in Lobbies : lobbies[l].status = "SUBMISSION" => lobbies'[l] = lobbies[l]]_vars

\* "When a player joins a lobby we store the current lobbyId ... to find a
\* player's current lobby" (lobby-utils.js): the lobby on a user's screen, once
\* none of its calls is running, is the one its next calls will reach.
MappingIsCurrent ==
  \A u \in Users : screen[u] # None /\ Running(u) = {} => playerLobbyMap[u] = screen[u]
=============================================================================
