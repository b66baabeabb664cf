----------------------------- MODULE DealRules ------------------------------
(***************************************************************************)
(* What a deal of words is: one word to begin with, a bank of b other words*)
(* for each player, no word twice, and the rest of the list.               *)
(***************************************************************************)
EXTENDS Integers, FiniteSets

WordsNeeded(players, b) == Cardinality(players) * b + 1

Banks(list, players, b, start) ==
  {f \in [players -> SUBSET (list \ {start})] :
     /\ \A p \in players : Cardinality(f[p]) = b
     /\ \A p, q \in players : p # q => f[p] \cap f[q] = {}}

Rest(list, banks, start) == list \ ({start} \cup UNION {banks[p] : p \in DOMAIN banks})
=============================================================================
