------------------------------ MODULE TurnGame ------------------------------
(***************************************************************************)
(* What the backend promises a group of players (backend/schema/README.md):*)
(* seats take turns in a fixed order, a turn ends at once or by a vote in  *)
(* which every other seat takes part exactly once, and the game ends after *)
(* the last round.  No words, scores, bots or transactions.                *)
(***************************************************************************)
EXTENDS Integers, Sequences, FiniteSets

CONSTANTS Seats,    \* everybody who may sit down
          Rounds    \* numbers of rounds a game may have, none of them 0

VARIABLES phase,    \* "gathering", "submitting", "voting" or "over"
          seating,  \* who sits where
          total,    \* turns the game has
          turn,     \* turns begun
          pending   \* seats whose vote is still missing

vars == <<phase, seating, total, turn, pending>>

Init == phase = "gathering" /\ seating = <<>> /\ total = 0 /\ turn = 0 /\ pending = {}

Seated == {seating[i] : i \in DOMAIN seating}
Active == seating[((turn - 1) % Len(seating)) + 1]

\* The turn is decided: the next one begins, or the game is over.
Decide == /\ pending' = {}
          /\ IF turn = total THEN phase' = "over" /\ turn' = turn
                             ELSE phase' = "submitting" /\ turn' = turn + 1
          /\ UNCHANGED <<seating, total>>

Start(order, r) ==
  /\ phase = "gathering"
  /\ \A i, j \in DOMAIN order : order[i] = order[j] => i = j
  /\ phase' = "submitting" /\ seating' = order /\ total' = r * Len(order) /\ turn' = 1
  /\ UNCHANGED pending

Hit == phase = "submitting" /\ Decide

PutToVote ==
  /\ phase = "submitting"
  /\ phase' = "voting" /\ pending' = Seated \ {Active}
  /\ UNCHANGED <<seating, total, turn>>

\* Some of the missing votes come in; the last ones decide the turn.
CastVotes(S) ==
  /\ phase = "voting" /\ S # {} /\ S \subseteq pending
  /\ IF S = pending THEN Decide
                    ELSE pending' = pending \ S /\ UNCHANGED <<phase, seating, total, turn>>

Next == \/ \E n \in 2..Cardinality(Seats), r \in Rounds :
             \E order \in [1..n -> Seats] : Start(order, r)
        \/ Hit \/ PutToVote
        \/ \E S \in SUBSET Seats : CastVotes(S)

Spec == Init /\ [][Next]_vars
=============================================================================
