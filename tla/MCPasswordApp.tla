--------------------------- MODULE MCPasswordApp ----------------------------
(* Instances of PasswordApp for TLC: who plays, and which words there are.  *)
EXTENDS PasswordApp, TLC

CONSTANTS u1, u2, u3, b1, b2,         \* players
          w1, w2, w3, w4, w5, w6, x   \* words; x is not in the list

TwoUsers   == {u1, u2}
ThreeUsers == {u1, u2, u3}
NoBots     == <<>>
OneBot     == <<b1>>
TwoBots    == <<b1, b2>>

FourWords == {w1, w2, w3, w4}
FiveWords == {w1, w2, w3, w4, w5}
SixWords  == {w1, w2, w3, w4, w5, w6}
OtherWord == {x}
NoOtherWord == {}

\* The embeddings of the bot server: only the list, or every word.
ListEmbedded == WordList
AllEmbedded  == WordList \cup FreeWords

\* Games of four turns at most: two or three seats once, or two seats twice.
\* Swaps only while two seats have one turn each (with banks of two, a
\* six-word list is then short of words), and banks of two words only in games
\* of one round.
ShortGames ==
  Started => /\ settings.numRounds * Cardinality(players) <= 4
             /\ settings.numRounds * Cardinality(players) > 2 => \A p \in players : rerolls[p] = 0
             /\ settings.wordBankSize > 1 => settings.numRounds = 1

\* The words of the list are interchangeable (safety runs only).
WordSymmetry == Permutations(WordList)
=============================================================================
