------------------------------ MODULE Dealing -------------------------------
(***************************************************************************)
(* shuffleArray, chunkArray and getGameWords (utils.js, word-utils.js) step*)
(* by step: which orders a shuffle can produce, and what a deal hands out. *)
(* The words are numbered by their place in the list, 1..N.                *)
(***************************************************************************)
EXTENDS Integers, Sequences, FiniteSets

CONSTANTS N,              \* length of the word list
          PlayerChoices,  \* numbers of players
          BankChoices     \* values of settings.wordBankSize

ASSUME DealingAssumption ==
  /\ N \in Nat \ {0}
  /\ PlayerChoices \subseteq Nat \ {0} /\ BankChoices \subseteq Nat \ {0}

VARIABLES pc,      \* "check", "shuffle", "chunk", "done" or "failed"
          n, b,    \* players, words per bank
          array,   \* the list being shuffled
          i,       \* loop index
          chunks   \* playerWordLists so far

vars == <<pc, n, b, array, i, chunks>>

Identity == [k \in 1..N |-> k]
Swap(a, k, j) == [a EXCEPT ![k] = a[j], ![j] = a[k]]

Init == /\ pc = "check" /\ n \in PlayerChoices /\ b \in BankChoices
        /\ array = Identity /\ i = N /\ chunks = <<>>

numTotalWords == n * b + 1

\* Mutant: a list that is just long enough is taken for too short.
StingyCheck == /\ pc = "check"
               /\ pc' = IF numTotalWords >= N THEN "failed" ELSE "shuffle"
               /\ UNCHANGED <<n, b, array, i, chunks>>

\* "not enough words in word list": the error leaves the lobby as it was.
CheckSize == /\ pc = "check"
             /\ pc' = IF numTotalWords > N THEN "failed" ELSE "shuffle"
             /\ UNCHANGED <<n, b, array, i, chunks>>

\* The partner is drawn below i, never i itself, where the shuffle of Fisher
\* and Yates, which the comment of utils.js points to, draws from all up to i.
ShuffleStep == /\ pc = "shuffle" /\ i > 1
               /\ \E j \in 1..(i - 1) : array' = Swap(array, i, j)
               /\ i' = i - 1
               /\ UNCHANGED <<pc, n, b, chunks>>

\* slice(1): the first word is the start word, the banks begin with the second.
ShuffleEnds == /\ pc = "shuffle" /\ i <= 1
               /\ pc' = "chunk" /\ i' = 2
               /\ UNCHANGED <<n, b, array, chunks>>

\* Mutant: a chunk closes one word too late.
LongChunkStep == /\ pc = "chunk" /\ i <= numTotalWords
                 /\ LET last == Len(chunks)
                    IN  chunks' = IF last = 0 \/ Len(chunks[last]) > b
                                    THEN Append(chunks, <<array[i]>>)
                                    ELSE [chunks EXCEPT ![last] = Append(@, array[i])]
                 /\ i' = i + 1
                 /\ UNCHANGED <<pc, n, b, array>>

ChunkStep == /\ pc = "chunk" /\ i <= numTotalWords
             /\ LET last == Len(chunks)
                IN  chunks' = IF last = 0 \/ Len(chunks[last]) = b
                                THEN Append(chunks, <<array[i]>>)
                                ELSE [chunks EXCEPT ![last] = Append(@, array[i])]
             /\ i' = i + 1
             /\ UNCHANGED <<pc, n, b, array>>

ChunkEnds == /\ pc = "chunk" /\ i > numTotalWords
             /\ pc' = "done"
             /\ UNCHANGED <<n, b, array, i, chunks>>

Next == CheckSize \/ ShuffleStep \/ ShuffleEnds \/ ChunkStep \/ ChunkEnds

Spec == Init /\ [][Next]_vars

----------------------------------------------------------------------------
Bank(p)   == {chunks[p][k] : k \in DOMAIN chunks[p]}
Available == {array[k] : k \in (numTotalWords + 1)..N}

\* A finished deal gives every player a full bank and puts every word of the
\* list in one place only; it is a deal that PasswordGame allows.
DealIsComplete ==
  pc = "done" =>
    /\ Len(chunks) = n /\ \A p \in 1..n : Cardinality(Bank(p)) = b
    /\ \A p, q \in 1..n : p # q => Bank(p) \cap Bank(q) = {}
    /\ {array[1]} \cup Available \cup UNION {Bank(p) : p \in 1..n} = 1..N
    /\ array[1] \notin Available /\ \A p \in 1..n : Bank(p) \cap (Available \cup {array[1]}) = {}

\* The reference: permutations, and those of one cycle: whoever follows one
\* from any place comes to all of them, so no fewer places are closed under it.
Permutation == {f \in [1..N -> 1..N] : \A k \in 1..N : \E m \in 1..N : f[m] = k}
ClosedUnder(f, S) == \A x \in S : f[x] \in S
Cycles == {f \in Permutation : \A S \in SUBSET (1..N) : S # {} /\ ClosedUnder(f, S) => S = 1..N}

\* What the loop can produce, as a set, index by index.
Outcomes[k \in 1..N] ==
  IF k = N THEN {Identity}
           ELSE UNION {{Swap(a, k + 1, j) : j \in 1..k} : a \in Outcomes[k + 1]}

\* What a shuffle comes to instead of "a random player order" and "a random
\* starting word" (functions/README.md), namely any permutation: every element
\* is moved, along one single cycle, and any such cycle can come out.
ShuffleIsACycle ==
  /\ pc \in {"chunk", "done"} => array \in Cycles
  /\ pc = "done" => Outcomes[1] = Cycles

----------------------------------------------------------------------------
\* A deal as its caller sees it: getGameWords returns all of it or throws.
Deal == INSTANCE AtomicDeal WITH
  List <- 1..N, PlayerSets <- {1..m : m \in PlayerChoices}, BankSizes <- BankChoices, NoWord <- 0,
  outcome <- CASE pc = "failed" -> "refused" [] pc = "done" -> "dealt" [] OTHER -> "open",
  players <- 1..n, size <- b,
  start <- IF pc = "done" THEN array[1] ELSE 0,
  banks <- IF pc = "done" THEN [p \in 1..n |-> Bank(p)] ELSE <<>>,
  rest  <- IF pc = "done" THEN Available ELSE {}

\* The loops of shuffleArray and chunkArray implement one choice of a start
\* word and banks, refused only if the list is too short: what startGame makes
\* in PasswordGame.
DealsAtOnce == Deal!Spec
=============================================================================
