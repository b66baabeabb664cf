-------------------------- MODULE MCLobbyDirectory --------------------------
(* Two or three users, two lobbies, two codes. *)
EXTENDS LobbyDirectory, TLC

CONSTANTS u1, u2, l1, l2, c1, c2

Symmetry == Permutations({c1, c2}) \cup Permutations({l1, l2}) \cup Permutations({u1, u2})
=============================================================================
