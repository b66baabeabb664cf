------------------------------- MODULE MCChat -------------------------------
(* An instance of Chat for TLC: two phones.                                 *)
EXTENDS Chat

CONSTANTS p1, p2

TwoPhones == {p1, p2}
=============================================================================
