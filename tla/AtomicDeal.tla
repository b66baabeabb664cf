----------------------------- MODULE AtomicDeal -----------------------------
(***************************************************************************)
(* What getGameWords promises its caller, as one step: the list is too     *)
(* short and nothing is handed out, or everything is.                      *)
(***************************************************************************)
EXTENDS DealRules

CONSTANTS List,        \* the words
          PlayerSets,  \* who may play
          BankSizes,
          NoWord

VARIABLES outcome,  \* "open", "refused" or "dealt"
          players, size,
          start, banks, rest

vars == <<outcome, players, size, start, banks, rest>>

Init == /\ outcome = "open" /\ players \in PlayerSets /\ size \in BankSizes
        /\ start = NoWord /\ banks = <<>> /\ rest = {}

Fits == WordsNeeded(players, size) <= Cardinality(List)

Refuse == /\ outcome = "open" /\ ~ Fits
          /\ outcome' = "refused"
          /\ UNCHANGED <<players, size, start, banks, rest>>

HandOut == /\ outcome = "open" /\ Fits
           /\ outcome' = "dealt"
           /\ start' \in List
           /\ banks' \in Banks(List, players, size, start')
           /\ rest' = Rest(List, banks', start')
           /\ UNCHANGED <<players, size>>

Next == Refuse \/ HandOut

Spec == Init /\ [][Next]_vars
=============================================================================
