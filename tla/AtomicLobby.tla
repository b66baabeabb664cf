---------------------------- MODULE AtomicLobby -----------------------------
(***************************************************************************)
(* What updateLobby promises: a call takes effect at one moment, or is     *)
(* refused, or throws, because of the lobby it finds at one moment, and is *)
(* told so.  A caller that is cut off is told of a failure, and its call   *)
(* may still take effect, once.                                            *)
(***************************************************************************)
EXTENDS LobbyCalls

VARIABLES lobby,    \* /lobbies/$id
          decided,  \* what became of each call: "no" while nothing did
          told      \* what each caller was told: "none" while it waits

avars == <<lobby, decided, told>>

AInit == /\ lobby = NoLobby
         /\ decided = [c \in Callers |-> "no"] /\ told = [c \in Callers |-> "none"]

\* createLobby pushes the lobby.
Push == lobby = NoLobby /\ lobby' = NewLobby /\ UNCHANGED <<decided, told>>

\* A phone adds a chat message.
Chat(m) == /\ lobby # NoLobby /\ m \notin lobby.chat
           /\ lobby' = [lobby EXCEPT !.chat = @ \cup {m}]
           /\ UNCHANGED <<decided, told>>

Verdict(c) == IF lobby = NoLobby THEN "not-found"
              ELSE IF Refuses(lobby, c) THEN "refused"
              ELSE IF Throws(lobby, c) THEN "failed" ELSE "ok"

Decide(c) ==
  /\ decided[c] = "no"
  /\ decided' = [decided EXCEPT ![c] = Verdict(c)]
  /\ lobby' = IF Verdict(c) = "ok" THEN Applied(lobby, c) ELSE lobby
  /\ UNCHANGED told

Answer(c) ==
  /\ told[c] = "none"
  /\ \E v \in {decided[c], "failed"} \ {"no"} : told' = [told EXCEPT ![c] = v]
  /\ UNCHANGED <<lobby, decided>>

ANext == \/ Push
         \/ \E m \in Messages : Chat(m)
         \/ \E c \in Callers : Decide(c) \/ Answer(c)

ASpec == AInit /\ [][ANext]_avars
=============================================================================
