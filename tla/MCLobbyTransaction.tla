------------------------- MODULE MCLobbyTransaction -------------------------
(* An instance of LobbyTransaction for TLC: two joins race the start, which *)
(* throws with no player and with two, and a submission waits for it.  A    *)
(* chat message comes in between.                                           *)
EXTENDS LobbyTransaction

CONSTANTS join1, join2, start, submit, m1

Calls == {join1, join2, start, submit}
KindOf == [c \in Calls |-> CASE c \in {join1, join2} -> "join" [] c = start -> "start"
                            [] c = submit -> "submit"]
OneMessage == {m1}
OnePlayer  == {{join1}, {join2}}
=============================================================================
