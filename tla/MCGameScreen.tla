---------------------------- MODULE MCGameScreen ----------------------------
(* An instance of GameScreen for TLC: two phones and a bot.                 *)
EXTENDS GameScreen

CONSTANTS u1, u2, b1

TwoPhonesAndBot == {u1, u2, b1}
OneBot == {b1}
=============================================================================
