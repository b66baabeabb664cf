--------------------------- MODULE DealingProofs ----------------------------
(***************************************************************************)
(* Proof that every deal is complete, for a list of any length, any number *)
(* of players and any size of a bank.                                      *)
(*                                                                         *)
(* The shuffle only swaps, so the array stays an order of all the words.   *)
(* The loop that chunks it copies the array's words one after the other,   *)
(* so the p-th bank's k-th word comes from one place of the array, Place.  *)
(*                                                                         *)
(* And proof of which orders the shuffle produces: those of one cycle.     *)
(***************************************************************************)
EXTENDS Dealing, NaturalRecursion, FunctionTheorems, FiniteSetTheorems, TLAPS

\* The words in the banks before the p-th, and the place in the array of the
\* p-th bank's k-th word.
Before(p)   == (p - 1) * b
Place(p, k) == Before(p) + k + 1

Types == /\ pc \in {"check", "shuffle", "chunk", "done", "failed"}
         /\ n \in Nat \ {0} /\ b \in Nat \ {0} /\ i \in Nat

\* The array is an order of all the words.
Order == /\ array \in [1..N -> 1..N]
         /\ \A j, k \in 1..N : array[j] = array[k] => j = k
         /\ \A w \in 1..N : \E k \in 1..N : array[k] = w

Enough == pc \in {"shuffle", "chunk", "done"} => numTotalWords <= N

\* All banks but the last are full; the loop has come as far as they reach.
Filled ==
  /\ chunks \in Seq(Seq(1..N))
  /\ \A p \in 1..Len(chunks) : Len(chunks[p]) \in 1..b /\ (p < Len(chunks) => Len(chunks[p]) = b)
  /\ IF Len(chunks) = 0 THEN i = 2 ELSE i = Place(Len(chunks), Len(chunks[Len(chunks)])) + 1
  /\ i <= numTotalWords + 1

\* The banks hold the array's words, each from its place, and none is left out.
Copied ==
  /\ \A p \in 1..Len(chunks) : \A k \in 1..Len(chunks[p]) : chunks[p][k] = array[Place(p, k)]
  /\ \A x \in 2..i - 1 : \E p \in 1..Len(chunks) : \E k \in 1..Len(chunks[p]) : chunks[p][k] = array[x]

DealInv == /\ Types /\ Order /\ Enough
           /\ pc \in {"check", "shuffle"} => chunks = <<>> /\ i <= N
           /\ pc \in {"chunk", "done"} => Filled /\ Copied
           /\ pc = "done" => i = numTotalWords + 1

----------------------------------------------------------------------------
LEMMA InitDealInv == ASSUME Init  PROVE DealInv
<1> USE DealingAssumption DEF Init
<1>1. Types
  BY DEF Types
<1>2. Order
  BY DEF Order, Identity
<1> QED
  BY <1>1, <1>2 DEF DealInv, Enough

\* A swap keeps the array an order of all the words.
LEMMA SwapKeepsOrder ==
  ASSUME Order, NEW k \in 1..N, NEW j \in 1..N, array' = Swap(array, k, j)
  PROVE  Order'
<1>1. /\ array' \in [1..N -> 1..N]
      /\ \A x \in 1..N : array'[x] = IF x = j THEN array[k] ELSE IF x = k THEN array[j] ELSE array[x]
  BY DEF Order, Swap
<1>2. ASSUME NEW x \in 1..N, NEW y \in 1..N, array'[x] = array'[y]  PROVE x = y
  <2>1. \A v, w \in 1..N : array[v] = array[w] => v = w
    BY DEF Order
  <2>2. CASE x = j
    BY <2>1, <2>2, <1>1, <1>2
  <2>3. CASE x = k /\ x # j
    BY <2>1, <2>3, <1>1, <1>2
  <2>4. CASE x # j /\ x # k
    BY <2>1, <2>4, <1>1, <1>2
  <2> QED
    BY <2>2, <2>3, <2>4
<1>3. ASSUME NEW w \in 1..N  PROVE \E x \in 1..N : array'[x] = w
  <2>1. PICK y \in 1..N : array[y] = w
    BY DEF Order
  <2>2. CASE y = k
    BY <2>1, <2>2, <1>1
  <2>3. CASE y = j /\ y # k
    BY <2>1, <2>3, <1>1
  <2>4. CASE y # j /\ y # k
    BY <2>1, <2>4, <1>1
  <2> QED
    BY <2>2, <2>3, <2>4
<1> QED
  BY <1>1, <1>2, <1>3 DEF Order

LEMMA ShuffleOK == ASSUME DealInv, ShuffleStep  PROVE DealInv'
<1> USE DealingAssumption
<1>1. PICK j \in 1..(i - 1) : array' = Swap(array, i, j)
  BY DEF ShuffleStep
<1>2. /\ pc = "shuffle" /\ i > 1 /\ i \in Nat /\ i <= N /\ i' = i - 1 /\ chunks = <<>>
      /\ UNCHANGED <<pc, n, b, chunks>>
  BY DEF ShuffleStep, DealInv, Types
<1>3. i \in 1..N /\ j \in 1..N
  BY <1>2
<1>4. Order'
  BY <1>1, <1>3, SwapKeepsOrder DEF DealInv
<1>5. Types' /\ Enough' /\ i' <= N
  BY <1>2 DEF DealInv, Types, Enough, numTotalWords
<1> QED
  BY <1>2, <1>4, <1>5 DEF DealInv

LEMMA Products == /\ \A x, y \in Nat : x * y \in Nat
                  /\ \A x \in Int, y \in Int : (x + 1 - 1) * y = (x - 1) * y + y
                  /\ \A y \in Int : (1 - 1) * y = 0
<1>1. \A x, y \in Nat : x * y \in Nat
  OBVIOUS
<1>2. \A x \in Int, y \in Int : (x + 1 - 1) * y = (x - 1) * y + y
  OBVIOUS
<1>3. \A y \in Int : (1 - 1) * y = 0
  OBVIOUS
<1> QED
  BY <1>1, <1>2, <1>3

\* A bank begins where the one before it ends.
LEMMA BanksInARow ==
  ASSUME b \in Nat
  PROVE  /\ Before(1) = 0 /\ \A p \in Nat \ {0} : Before(p) \in Nat /\ Before(p + 1) = Before(p) + b
         /\ \A p, q \in Nat \ {0} : p < q => Before(p) + b <= Before(q)
<1>1. Before(1) = 0
  BY Products DEF Before
<1>2. ASSUME NEW p \in Nat \ {0}  PROVE Before(p) \in Nat /\ Before(p + 1) = Before(p) + b
  <2>1. p - 1 \in Nat
    OBVIOUS
  <2>2. (p - 1) * b \in Nat
    BY <2>1, Products
  <2>3. (p + 1 - 1) * b = (p - 1) * b + b
    BY Products
  <2> QED
    BY <2>2, <2>3 DEF Before
<1>3. ASSUME NEW p \in Nat \ {0}, NEW q \in Nat \ {0}, p < q  PROVE Before(p) + b <= Before(q)
  <2>1. q - p - 1 \in Nat /\ q - 1 \in Int /\ p - 1 \in Int
    BY <1>3
  <2>2. (q - p - 1) * b \in Nat
    BY <2>1, Products
  <2>3. (q - 1) * b = (q - p - 1) * b + (p - 1) * b + b
    OBVIOUS
  <2>4. (p - 1) * b \in Int
    BY <1>2 DEF Before
  <2> QED
    BY <2>2, <2>3, <2>4 DEF Before
<1> QED
  BY <1>1, <1>2, <1>3

\* The next word goes to the bank and the place the loop has come to.
LEMMA ChunkStepOK == ASSUME DealInv, ChunkStep  PROVE DealInv'
<1>. PICK len : len = Len(chunks)
  OBVIOUS
<1>. PICK size : size = Len(chunks[len])
  OBVIOUS
<1>1. /\ pc = "chunk" /\ i <= numTotalWords /\ i' = i + 1
      /\ Types /\ Order /\ Filled /\ Copied /\ numTotalWords <= N
  BY DEF ChunkStep, DealInv, Enough
<1>2. /\ pc' = pc /\ n' = n /\ b' = b /\ array' = array /\ numTotalWords' = numTotalWords
      /\ \A p, k : Place(p, k)' = Place(p, k)
  BY DEF ChunkStep, numTotalWords, Place, Before
<1>3. numTotalWords \in Int
  <2>1. n \in Nat /\ b \in Nat
    BY <1>1 DEF Types
  <2> QED
    BY <2>1, Products DEF numTotalWords
<1>4. /\ i \in Nat /\ b \in Nat /\ b > 0 /\ N \in Nat /\ len \in Nat
      /\ chunks \in Seq(Seq(1..N)) /\ \A p \in 1..len : chunks[p] \in Seq(1..N)
  BY <1>1, DealingAssumption DEF Types, Filled
<1>5. /\ \A p \in 1..len : Len(chunks[p]) \in 1..b /\ (p < len => Len(chunks[p]) = b)
      /\ len = 0 => i = 2
      /\ len # 0 => i = Place(len, size) + 1
  BY <1>1 DEF Filled
<1>6. /\ \A p \in 1..len : \A k \in 1..Len(chunks[p]) : chunks[p][k] = array[Place(p, k)]
      /\ \A x \in 2..i - 1 : \E p \in 1..len : \E k \in 1..Len(chunks[p]) : chunks[p][k] = array[x]
  BY <1>1 DEF Copied
<1>7. /\ Before(1) = 0 /\ \A p \in Nat \ {0} : Before(p) \in Nat /\ Before(p + 1) = Before(p) + b
  BY <1>4, BanksInARow
<1>8. len # 0 => size \in 1..b /\ len \in 1..len
  BY <1>4, <1>5
<1>place. /\ Before(0 + 1) = 0
          /\ len # 0 => Before(len) \in Nat /\ Before(len + 1) = Before(len) + b
          /\ len # 0 => i = Before(len) + size + 2
  <2>1. 0 + 1 = 1
    OBVIOUS
  <2>2. len # 0 => Before(len) \in Nat /\ Before(len + 1) = Before(len) + b
    BY <1>4, <1>7
  <2>3. len # 0 => size \in Int /\ i = Before(len) + size + 1 + 1
    BY <1>4, <1>5, <1>8 DEF Place
  <2>4. len # 0 => i = Before(len) + size + 2
    BY <2>2, <2>3
  <2> QED
    BY <1>7, <2>1, <2>2, <2>4
<1>nums. i \in Nat /\ b \in Nat /\ b > 0 /\ len \in Nat
  BY <1>4
<1>9. i >= 2
  BY <1>nums, <1>5, <1>place, <1>8
<1>10. array[i] \in 1..N
  <2>1. i \in 1..N
    BY <1>1, <1>3, <1>4, <1>9
  <2> QED
    BY <2>1, <1>1 DEF Order
<1>11. Types' /\ Order' /\ Enough'
  <2>1. Types'
    BY <1>1, <1>2, <1>4 DEF Types
  <2>2. Order'
    BY <1>1, <1>2 DEF Order
  <2> QED
    BY <2>1, <2>2, <1>1, <1>2 DEF Enough
<1>12. CASE len = 0 \/ size = b
  <2>1. chunks' = Append(chunks, <<array[i]>>)
    BY <1>12 DEF ChunkStep
  <2>2. <<array[i]>> \in Seq(1..N) /\ Len(<<array[i]>>) = 1 /\ <<array[i]>>[1] = array[i]
    BY <1>10
  <2>3. /\ chunks' \in Seq(Seq(1..N)) /\ Len(chunks') = len + 1 /\ chunks'[len + 1] = <<array[i]>>
        /\ \A p \in 1..len : chunks'[p] = chunks[p]
    BY <2>1, <2>2, <1>4
  <2>4. Len(chunks'[len + 1]) = 1 /\ chunks'[len + 1][1] = array[i]
    BY <2>2, <2>3
  <2>5. i = Place(len + 1, 1)
    <3>1. CASE len = 0
      <4>1. Before(len + 1) = 0
        BY <3>1, <1>place
      <4>2. Place(len + 1, 1) = Before(len + 1) + 1 + 1
        BY DEF Place
      <4>3. i = 2
        BY <3>1, <1>5
      <4> QED
        BY <4>1, <4>2, <4>3
    <3>2. CASE len # 0
      <4>1. Before(len + 1) = Before(len) + b /\ Before(len) \in Nat /\ b \in Nat
        BY <3>2, <1>nums, <1>place
      <4>2. Place(len + 1, 1) = Before(len + 1) + 1 + 1
        BY DEF Place
      <4>3. i = Before(len) + b + 2
        BY <3>2, <1>12, <1>place
      <4> QED
        BY <4>1, <4>2, <4>3
    <3> QED
      BY <3>1, <3>2
  <2>6. \A p \in 1..len + 1 : Len(chunks'[p]) \in 1..b /\ (p < len + 1 => Len(chunks'[p]) = b)
    <3> SUFFICES ASSUME NEW p \in 1..len + 1
                 PROVE  Len(chunks'[p]) \in 1..b /\ (p < len + 1 => Len(chunks'[p]) = b)
      OBVIOUS
    <3>1. CASE p = len + 1
      BY <3>1, <2>4, <1>4
    <3>2. CASE p # len + 1
      <4>0. len \in Nat
        BY <1>4
      <4>3. p \in 1..len
        BY <3>2, <4>0
      <4>1. p \in 1..len /\ chunks'[p] = chunks[p]
        BY <2>3, <4>3
      <4>2. p = len => Len(chunks[p]) = b
        BY <4>1, <1>12, <1>4
      <4> QED
        BY <4>1, <4>2, <1>4, <1>5
    <3> QED
      BY <3>1, <3>2
  <2>7. Filled'
    <3>1. i' = Place(len + 1, 1) + 1 /\ i' <= numTotalWords + 1
      BY <2>5, <1>1, <1>3, <1>4
    <3>2. Len(chunks') # 0
      BY <2>3, <1>4
    <3> QED
      BY <3>1, <3>2, <2>3, <2>4, <2>6, <1>2 DEF Filled
  <2>8. ASSUME NEW p \in 1..len + 1, NEW k \in 1..Len(chunks'[p])
        PROVE  chunks'[p][k] = array[Place(p, k)]
    <3>1. CASE p = len + 1
      BY <3>1, <2>4, <2>5
    <3>2. CASE p # len + 1
      <4>1. len \in Nat
        BY <1>4
      <4>2. p \in 1..len
        BY <3>2, <4>1
      <4>3. chunks'[p] = chunks[p]
        BY <2>3, <4>2
      <4> QED
        BY <4>2, <4>3, <1>6
    <3> QED
      BY <3>1, <3>2
  <2>9. ASSUME NEW x \in 2..i' - 1
        PROVE  \E p \in 1..len + 1 : \E k \in 1..Len(chunks'[p]) : chunks'[p][k] = array[x]
    <3>1. CASE x = i
      <4>1. len + 1 \in 1..len + 1 /\ 1 \in 1..Len(chunks'[len + 1])
        BY <2>4, <1>4
      <4> QED
        BY <4>1, <3>1, <2>4
    <3>2. CASE x # i
      <4>1. x \in 2..i - 1
        BY <3>2, <1>1, <1>4
      <4>2. PICK p \in 1..len : \E k \in 1..Len(chunks[p]) : chunks[p][k] = array[x]
        BY <4>1, <1>6
      <4>3. p \in 1..len + 1 /\ chunks'[p] = chunks[p]
        BY <2>3, <1>4
      <4> QED
        BY <4>2, <4>3
    <3> QED
      BY <3>1, <3>2
  <2>10. Copied'
    BY <2>3, <2>8, <2>9, <1>2 DEF Copied
  <2> QED
    BY <2>7, <2>10, <1>1, <1>2, <1>11 DEF DealInv
<1>13. CASE len # 0 /\ size # b
  <2>1. chunks' = [chunks EXCEPT ![len] = Append(chunks[len], array[i])]
    BY <1>13 DEF ChunkStep
  <2>2. len \in 1..len /\ chunks[len] \in Seq(1..N) /\ size \in 1..b /\ size < b
    BY <1>13, <1>4, <1>8
  <2>3. /\ Append(chunks[len], array[i]) \in Seq(1..N) /\ Len(Append(chunks[len], array[i])) = size + 1
        /\ Append(chunks[len], array[i])[size + 1] = array[i]
        /\ \A k \in 1..size : Append(chunks[len], array[i])[k] = chunks[len][k]
    BY <2>2, <1>10
  <2>4. /\ chunks' \in Seq(Seq(1..N)) /\ Len(chunks') = len /\ chunks'[len] = Append(chunks[len], array[i])
        /\ \A p \in 1..len : p # len => chunks'[p] = chunks[p]
    BY <2>1, <2>2, <2>3, <1>4
  <2>5. /\ Len(chunks'[len]) = size + 1 /\ chunks'[len][size + 1] = array[i]
        /\ \A k \in 1..size : chunks'[len][k] = chunks[len][k]
    BY <2>3, <2>4
  <2>6. i = Place(len, size + 1)
    BY <1>13, <1>nums, <1>place, <2>2 DEF Place
  <2>7. \A p \in 1..len : Len(chunks'[p]) \in 1..b /\ (p < len => Len(chunks'[p]) = b)
    <3> SUFFICES ASSUME NEW p \in 1..len
                 PROVE  Len(chunks'[p]) \in 1..b /\ (p < len => Len(chunks'[p]) = b)
      OBVIOUS
    <3>1. CASE p = len
      BY <3>1, <2>2, <2>5, <1>4
    <3>2. CASE p # len
      BY <3>2, <2>4, <1>5
    <3> QED
      BY <3>1, <3>2
  <2>8. Filled'
    <3>1. i' = Place(len, size + 1) + 1 /\ i' <= numTotalWords + 1
      BY <2>6, <1>1, <1>3, <1>4
    <3> QED
      BY <3>1, <2>4, <2>5, <2>7, <1>2, <1>13 DEF Filled
  <2>9. ASSUME NEW p \in 1..len, NEW k \in 1..Len(chunks'[p])
        PROVE  chunks'[p][k] = array[Place(p, k)]
    <3>1. CASE p # len
      BY <3>1, <2>4, <1>6
    <3>2. CASE p = len /\ k = size + 1
      BY <3>2, <2>5, <2>6
    <3>3. CASE p = len /\ k # size + 1
      <4>1. k \in 1..size /\ size = Len(chunks[len])
        BY <3>3, <2>2, <2>5
      <4> QED
        BY <4>1, <3>3, <2>2, <2>5, <1>6
    <3> QED
      BY <3>1, <3>2, <3>3
  <2>10. ASSUME NEW x \in 2..i' - 1
        PROVE  \E p \in 1..len : \E k \in 1..Len(chunks'[p]) : chunks'[p][k] = array[x]
    <3>1. CASE x = i
      <4>1. size + 1 \in 1..Len(chunks'[len])
        BY <2>2, <2>5
      <4> QED
        BY <4>1, <3>1, <2>2, <2>5
    <3>2. CASE x # i
      <4>1. x \in 2..i - 1
        BY <3>2, <1>1, <1>4
      <4>2. PICK p \in 1..len : \E k \in 1..Len(chunks[p]) : chunks[p][k] = array[x]
        BY <4>1, <1>6
      <4>3. PICK k \in 1..Len(chunks[p]) : chunks[p][k] = array[x]
        BY <4>2
      <4>4. CASE p = len
        <5>1. k \in 1..size /\ k \in 1..Len(chunks'[p])
          BY <4>3, <4>4, <2>2, <2>5
        <5> QED
          BY <5>1, <4>3, <4>4, <2>5
      <4>5. CASE p # len
        BY <4>2, <4>5, <2>4
      <4> QED
        BY <4>4, <4>5
    <3> QED
      BY <3>1, <3>2
  <2>11. Copied'
    BY <2>4, <2>9, <2>10, <1>2 DEF Copied
  <2> QED
    BY <2>8, <2>11, <1>1, <1>2, <1>11 DEF DealInv
<1> QED
  BY <1>12, <1>13

LEMMA NextDealInv == ASSUME DealInv, [Next]_vars  PROVE DealInv'
<1>1. CASE UNCHANGED vars
  <2>1. /\ UNCHANGED <<pc, n, b, array, i, chunks>> /\ numTotalWords' = numTotalWords
        /\ \A p, k : Place(p, k)' = Place(p, k)
    BY <1>1 DEF vars, numTotalWords, Place, Before
  <2>2. Types' /\ Order' /\ Enough'
    BY <2>1 DEF DealInv, Types, Order, Enough
  <2>3. Filled => Filled'
    BY <2>1 DEF Filled
  <2>4. Copied => Copied'
    BY <2>1 DEF Copied
  <2> QED
    BY <2>1, <2>2, <2>3, <2>4 DEF DealInv
<1>2. CASE CheckSize
  <2>1. /\ UNCHANGED <<n, b, array, i, chunks>> /\ pc = "check" /\ pc' \in {"failed", "shuffle"}
        /\ pc' = "shuffle" => ~ (numTotalWords > N)
    BY <1>2 DEF CheckSize
  <2>2. numTotalWords' = numTotalWords /\ numTotalWords \in Int /\ N \in Int
    <3>1. n \in Nat /\ b \in Nat
      BY DEF DealInv, Types
    <3> QED
      BY <2>1, <3>1, Products, DealingAssumption DEF numTotalWords
  <2>3. Types' /\ Order'
    BY <2>1 DEF DealInv, Types, Order
  <2>4. Enough'
    BY <2>1, <2>2 DEF Enough
  <2> QED
    BY <2>1, <2>3, <2>4 DEF DealInv
<1>3. CASE ShuffleStep
  BY <1>3, ShuffleOK
<1>4. CASE ShuffleEnds
  <2>1. /\ UNCHANGED <<n, b, array, chunks>> /\ pc = "shuffle" /\ pc' = "chunk" /\ i' = 2
        /\ numTotalWords' = numTotalWords
    BY <1>4 DEF ShuffleEnds, numTotalWords
  <2>2. chunks = <<>> /\ numTotalWords <= N
    BY <2>1 DEF DealInv, Enough
  <2>3. numTotalWords \in Int /\ numTotalWords >= 1
    <3>1. n \in Nat /\ b \in Nat
      BY DEF DealInv, Types
    <3>2. n * b \in Nat
      BY <3>1, Products
    <3> QED
      BY <3>2 DEF numTotalWords
  <2>4. Types' /\ Order' /\ Enough'
    BY <2>1, <2>2 DEF DealInv, Types, Order, Enough
  <2>5. Filled' /\ Copied'
    BY <2>1, <2>2, <2>3 DEF Filled, Copied
  <2> QED
    BY <2>1, <2>4, <2>5 DEF DealInv
<1>5. CASE ChunkStep
  BY <1>5, ChunkStepOK
<1>6. CASE ChunkEnds
  <2>1. /\ UNCHANGED <<n, b, array, i, chunks>> /\ pc = "chunk" /\ pc' = "done" /\ i > numTotalWords
        /\ numTotalWords' = numTotalWords /\ \A p, k : Place(p, k)' = Place(p, k)
    BY <1>6 DEF ChunkEnds, numTotalWords, Place, Before
  <2>2. Types' /\ Order' /\ Enough'
    BY <2>1 DEF DealInv, Types, Order, Enough
  <2>3. Filled /\ Copied
    BY <2>1 DEF DealInv
  <2>4. Filled'
    BY <2>1, <2>3 DEF Filled
  <2>5. Copied'
    BY <2>1, <2>3 DEF Copied
  <2>6. i' = numTotalWords' + 1
    <3>1. n \in Nat /\ b \in Nat /\ i \in Nat
      BY DEF DealInv, Types
    <3>2. numTotalWords \in Int
      BY <3>1, Products DEF numTotalWords
    <3>3. i <= numTotalWords + 1
      BY <2>3 DEF Filled
    <3> QED
      BY <2>1, <3>1, <3>2, <3>3
  <2> QED
    BY <2>1, <2>2, <2>4, <2>5, <2>6 DEF DealInv
<1> QED
  BY <1>1, <1>2, <1>3, <1>4, <1>5, <1>6 DEF Next

\* When all words of a deal are copied, the n-th bank is the last, and full.
LEMMA AllBanksFull ==
  ASSUME DealInv, pc = "done"
  PROVE  Len(chunks) = n /\ \A p \in 1..n : Len(chunks[p]) = b
<1>. PICK len : len = Len(chunks)
  OBVIOUS
<1>. PICK size : size = Len(chunks[len])
  OBVIOUS
<1>1. Types /\ Filled /\ i = numTotalWords + 1
  BY DEF DealInv
<1>2. n \in Nat /\ n > 0 /\ b \in Nat /\ b > 0 /\ len \in Nat
  BY <1>1 DEF Types, Filled
<1>3. /\ \A p \in Nat \ {0} : Before(p) \in Nat /\ Before(p + 1) = Before(p) + b
      /\ \A p, q \in Nat \ {0} : p < q => Before(p) + b <= Before(q)
  BY <1>2, BanksInARow
<1>4. Before(n + 1) = n * b
  BY <1>2 DEF Before
<1>5. Before(n) \in Nat /\ Before(n + 1) = Before(n) + b
  <2>1. n \in Nat \ {0}
    BY <1>2
  <2> QED
    BY <2>1, <1>3
<1>6. i = Before(n + 1) + 2
  BY <1>1, <1>4, <1>5, <1>2 DEF numTotalWords
<1>7. len # 0
  <2>1. len = 0 => i = 2
    BY <1>1 DEF Filled
  <2> QED
    BY <2>1, <1>2, <1>5, <1>6
<1>8. /\ i = Before(len) + size + 1 + 1 /\ size \in 1..b /\ Before(len) \in Nat
      /\ \A p \in 1..len : p < len => Len(chunks[p]) = b
  <2>1. len \in 1..len /\ len \in Nat \ {0}
    BY <1>2, <1>7
  <2> QED
    BY <2>1, <1>1, <1>3, <1>7 DEF Filled, Place
<1>9. Before(len) + size = Before(n) + b
  <2>1. Before(len) + size + 2 = Before(n) + b + 2
    BY <1>5, <1>6, <1>8
  <2>2. Before(len) \in Nat /\ size \in Nat /\ Before(n) \in Nat /\ b \in Nat
    BY <1>2, <1>5, <1>8
  <2> QED
    BY <2>1, <2>2
<1>10. ~ len < n
  <2>1. len < n => Before(len) + b <= Before(n)
    BY <1>2, <1>3, <1>7
  <2> QED
    BY <2>1, <1>2, <1>5, <1>8, <1>9
<1>11. ~ n < len
  <2>1. n < len => Before(n) + b <= Before(len)
    BY <1>2, <1>3, <1>7
  <2> QED
    BY <2>1, <1>2, <1>5, <1>8, <1>9
<1>12. len = n
  BY <1>2, <1>10, <1>11
<1>13. size = b
  BY <1>2, <1>5, <1>8, <1>9, <1>12
<1> QED
  BY <1>2, <1>8, <1>12, <1>13

\* The words of a finished deal come from places of their own.
LEMMA PlacesDiffer ==
  ASSUME DealInv, pc = "done"
  PROVE  /\ \A p \in 1..n, k \in 1..b : Place(p, k) \in 2..numTotalWords /\ chunks[p][k] = array[Place(p, k)]
         /\ \A p, q \in 1..n, k, l \in 1..b : Place(p, k) = Place(q, l) => p = q /\ k = l
         /\ numTotalWords \in 2..N
<1>1. /\ n \in Nat \ {0} /\ b \in Nat /\ b > 0 /\ Copied /\ numTotalWords <= N
  BY DEF DealInv, Types, Enough
<1>2. /\ \A p \in Nat \ {0} : Before(p) \in Nat /\ Before(p + 1) = Before(p) + b
      /\ \A p, q \in Nat \ {0} : p < q => Before(p) + b <= Before(q)
  BY <1>1, BanksInARow
<1>3. numTotalWords = Before(n) + b + 1 /\ Before(n) \in Nat
  <2>1. Before(n + 1) = n * b
    BY <1>1 DEF Before
  <2> QED
    BY <2>1, <1>1, <1>2 DEF numTotalWords
<1>4. ASSUME NEW p \in 1..n, NEW k \in 1..b
      PROVE  Place(p, k) \in 2..numTotalWords /\ chunks[p][k] = array[Place(p, k)]
  <2>1. p \in Nat \ {0} /\ Before(p) \in Nat
    BY <1>1, <1>2
  <2>2. Before(p) <= Before(n)
    <3>1. p < n => Before(p) + b <= Before(n)
      BY <2>1, <1>1, <1>2
    <3> QED
      BY <3>1, <2>1, <1>1, <1>3
  <2>3. Place(p, k) \in 2..numTotalWords
    BY <2>1, <2>2, <1>1, <1>3 DEF Place
  <2>4. p \in 1..Len(chunks) /\ k \in 1..Len(chunks[p])
    BY AllBanksFull
  <2> QED
    BY <2>3, <2>4, <1>1 DEF Copied
<1>5. ASSUME NEW p \in 1..n, NEW q \in 1..n, NEW k \in 1..b, NEW l \in 1..b, Place(p, k) = Place(q, l)
      PROVE  p = q /\ k = l
  <2>1. p \in Nat \ {0} /\ q \in Nat \ {0} /\ Before(p) \in Nat /\ Before(q) \in Nat
    BY <1>1, <1>2
  <2>2. Before(p) + k + 1 = Before(q) + l + 1
    BY <1>5 DEF Place
  <2>3. ~ p < q
    <3>1. p < q => Before(p) + b <= Before(q)
      BY <2>1, <1>2
    <3> QED
      BY <3>1, <2>1, <2>2, <1>1
  <2>4. ~ q < p
    <3>1. q < p => Before(q) + b <= Before(p)
      BY <2>1, <1>2
    <3> QED
      BY <3>1, <2>1, <2>2, <1>1
  <2>5. p = q
    BY <2>1, <2>3, <2>4
  <2> QED
    BY <2>1, <2>2, <2>5, <1>1
<1>6. numTotalWords \in 2..N
  BY <1>1, <1>3, DealingAssumption
<1> QED
  BY <1>4, <1>5, <1>6

\* The invariant of the deal.
THEOREM DealInvariant == Spec => []DealInv
  BY InitDealInv, NextDealInv, PTL DEF Spec

\* Whatever the shuffle draws: every player's bank is full, and every word of
\* the list is in one bank, still available, or the start word, and in no two
\* of these (startGame in index.js, chunkArray in utils.js).
THEOREM DealsAreComplete == Spec => []DealIsComplete
<1>1. ASSUME DealInv, pc = "done"
      PROVE  /\ Len(chunks) = n /\ \A p \in 1..n : Cardinality(Bank(p)) = b
             /\ \A p, q \in 1..n : p # q => Bank(p) \cap Bank(q) = {}
             /\ {array[1]} \cup Available \cup UNION {Bank(p) : p \in 1..n} = 1..N
             /\ array[1] \notin Available /\ \A p \in 1..n : Bank(p) \cap (Available \cup {array[1]}) = {}
  <2>1. Len(chunks) = n /\ \A p \in 1..n : Len(chunks[p]) = b
    BY <1>1, AllBanksFull
  <2>2. /\ \A p \in 1..n, k \in 1..b : Place(p, k) \in 2..numTotalWords /\ chunks[p][k] = array[Place(p, k)]
        /\ \A p, q \in 1..n, k, l \in 1..b : Place(p, k) = Place(q, l) => p = q /\ k = l
        /\ numTotalWords \in 2..N
    BY <1>1, PlacesDiffer
  <2>3. N \in Nat /\ n \in Nat /\ b \in Nat
    BY <1>1, DealingAssumption DEF DealInv, Types
  <2>typed. array \in [1..N -> 1..N] /\ chunks \in Seq(Seq(1..N))
    BY <1>1 DEF DealInv, Order, Filled
  <2>inj. \A j, k \in 1..N : array[j] = array[k] => j = k
    BY <1>1 DEF DealInv, Order
  <2>onto. \A w \in 1..N : \E k \in 1..N : array[k] = w
    BY <1>1 DEF DealInv, Order
  <2>copied. \A x \in 2..numTotalWords :
               \E p \in 1..n : \E k \in 1..Len(chunks[p]) : chunks[p][k] = array[x]
    <3>1. Copied /\ i = numTotalWords + 1
      BY <1>1 DEF DealInv
    <3>2. numTotalWords = i - 1
      BY <2>2, <2>3, <3>1
    <3> QED
      BY <2>1, <3>1, <3>2 DEF Copied
  <2>places. \A p \in 1..n, k \in 1..b : Place(p, k) \in 1..N
    BY <2>2, <2>3
  <2>4. \A p \in 1..n : Bank(p) = {array[Place(p, k)] : k \in 1..b}
    <3> SUFFICES ASSUME NEW p \in 1..n  PROVE Bank(p) = {array[Place(p, k)] : k \in 1..b}
      OBVIOUS
    <3>1. DOMAIN chunks[p] = 1..b
      BY <2>1, <2>3, <2>typed
    <3> QED
      BY <3>1, <2>2 DEF Bank
  <2>5. \A p \in 1..n : \A w \in Bank(p) : \E k \in 1..b : w = array[Place(p, k)]
    BY <2>4
  <2>6. \A w \in Available : \E x \in numTotalWords + 1..N : w = array[x]
    BY DEF Available
  <2>7. ASSUME NEW p \in 1..n  PROVE Cardinality(Bank(p)) = b
    <3> DEFINE f == [k \in 1..b |-> array[Place(p, k)]]
    <3>1. \A k \in 1..b : Place(p, k) \in 1..N
      BY <2>places
    <3>2. f \in [1..b -> Bank(p)]
      BY <2>4
    <3>3. \A k, l \in 1..b : f[k] = f[l] => k = l
      BY <2>2, <2>inj, <3>1
    <3>4. \A w \in Bank(p) : \E k \in 1..b : f[k] = w
      BY <2>5
    <3> HIDE DEF f
    <3>5. ExistsBijection(1..b, Bank(p))
      BY <3>2, <3>3, <3>4, Fun_IsBij DEF ExistsBijection
    <3> QED
      BY <3>5, <2>3, FS_CountingElements
  <2>8. ASSUME NEW p \in 1..n, NEW q \in 1..n, p # q  PROVE Bank(p) \cap Bank(q) = {}
    <3> SUFFICES ASSUME NEW w \in Bank(p), w \in Bank(q)  PROVE FALSE
      OBVIOUS
    <3>1. PICK k \in 1..b : w = array[Place(p, k)]
      BY <2>5
    <3>2. PICK l \in 1..b : w = array[Place(q, l)]
      BY <2>5
    <3>3. Place(p, k) \in 1..N /\ Place(q, l) \in 1..N
      BY <2>places
    <3>4. Place(p, k) = Place(q, l)
      BY <3>1, <3>2, <3>3, <2>inj
    <3> QED
      BY <3>4, <2>2, <2>8
  <2>9. ASSUME NEW w \in 1..N
        PROVE  w \in {array[1]} \cup Available \cup UNION {Bank(p) : p \in 1..n}
    <3>1. PICK x \in 1..N : array[x] = w
      BY <2>onto
    <3>2. CASE x = 1
      BY <3>1, <3>2
    <3>3. CASE x > numTotalWords
      <4>1. x \in numTotalWords + 1..N
        BY <3>3, <2>2, <2>3
      <4> QED
        BY <4>1, <3>1 DEF Available
    <3>4. CASE x # 1 /\ ~ x > numTotalWords
      <4>1. x \in 2..numTotalWords
        BY <3>4, <2>2, <2>3
      <4>2. PICK p \in 1..n : \E k \in 1..Len(chunks[p]) : chunks[p][k] = array[x]
        BY <4>1, <2>copied
      <4>3. DOMAIN chunks[p] = 1..Len(chunks[p])
        BY <2>1, <2>typed
      <4>4. w \in Bank(p)
        BY <4>2, <4>3, <3>1 DEF Bank
      <4> QED
        BY <4>4
    <3> QED
      BY <3>2, <3>3, <3>4
  <2>10. {array[1]} \cup Available \cup UNION {Bank(p) : p \in 1..n} \subseteq 1..N
    <3>1. array[1] \in 1..N
      <4>1. 1 \in 1..N
        BY <2>2, <2>3
      <4> QED
        BY <4>1, <2>typed
    <3>2. Available \subseteq 1..N
      <4>1. \A x \in numTotalWords + 1..N : x \in 1..N
        BY <2>2, <2>3
      <4> QED
        BY <4>1, <2>typed, <2>6
    <3>3. \A p \in 1..n : Bank(p) \subseteq 1..N
      <4> SUFFICES ASSUME NEW p \in 1..n, NEW w \in Bank(p)  PROVE w \in 1..N
        OBVIOUS
      <4>1. PICK k \in 1..b : w = array[Place(p, k)]
        BY <2>5
      <4>2. Place(p, k) \in 1..N
        BY <2>places
      <4> QED
        BY <4>1, <4>2, <2>typed
    <3> QED
      BY <3>1, <3>2, <3>3
  <2>11. array[1] \notin Available
    <3> SUFFICES ASSUME array[1] \in Available  PROVE FALSE
      OBVIOUS
    <3>1. PICK x \in numTotalWords + 1..N : array[1] = array[x]
      BY <2>6
    <3>2. x \in 1..N /\ 1 \in 1..N /\ x # 1
      BY <2>2, <2>3
    <3> QED
      BY <3>1, <3>2, <2>inj
  <2>12. ASSUME NEW p \in 1..n, NEW w \in Bank(p), w \in Available \/ w = array[1]  PROVE FALSE
    <3>1. PICK k \in 1..b : w = array[Place(p, k)]
      BY <2>5
    <3>2. Place(p, k) \in 2..numTotalWords /\ Place(p, k) \in 1..N
      BY <2>2, <2>places
    <3>3. CASE w = array[1]
      <4>1. Place(p, k) # 1 /\ 1 \in 1..N
        BY <3>2, <2>2, <2>3
      <4> QED
        BY <4>1, <3>1, <3>2, <3>3, <2>inj
    <3>4. CASE w \in Available
      <4>1. PICK x \in numTotalWords + 1..N : w = array[x]
        BY <3>4, <2>6
      <4>2. x \in 1..N /\ x # Place(p, k)
        BY <3>2, <2>2, <2>3
      <4> QED
        BY <4>1, <4>2, <3>1, <3>2, <2>inj
    <3> QED
      BY <2>12, <3>3, <3>4
  <2>13. {array[1]} \cup Available \cup UNION {Bank(p) : p \in 1..n} = 1..N
    BY <2>9, <2>10
  <2>14. \A p \in 1..n : Bank(p) \cap (Available \cup {array[1]}) = {}
    BY <2>12
  <2> QED
    BY <2>1, <2>7, <2>8, <2>11, <2>13, <2>14
<1>2. DealInv => DealIsComplete
  BY <1>1 DEF DealIsComplete
<1> QED
  BY <1>2, DealInvariant, PTL

----------------------------------------------------------------------------
(************************* The deal as one step ****************************)

\* A count of places.
LEMMA CountPlaces == \A m \in Nat : IsFiniteSet(1..m) /\ Cardinality(1..m) = m
<1> SUFFICES ASSUME NEW m \in Nat  PROVE IsFiniteSet(1..m) /\ Cardinality(1..m) = m
  OBVIOUS
<1> QED
  BY FS_Interval

LEMMA SameCount == \A S : Deal!Cardinality(S) = Cardinality(S)
  BY DEF Deal!Cardinality, Cardinality

\* 1..n has n members, and is as good a set of players as any.
LEMMA PlayersCounted ==
  ASSUME DealInv
  PROVE  /\ numTotalWords \in Nat /\ N \in Nat
         /\ Deal!Fits <=> ~ numTotalWords > N
<1>1. n \in Nat /\ b \in Nat /\ N \in Nat
  BY DealingAssumption DEF DealInv, Types
<1>2. Cardinality(1..n) = n /\ Cardinality(1..N) = N
  BY <1>1, CountPlaces
<1>3. n * b \in Nat
  BY <1>1, Products
<1>4. Deal!Fits <=> n * b + 1 <= N
  BY <1>2, SameCount DEF Deal!Fits, Deal!WordsNeeded
<1> QED
  BY <1>1, <1>2, <1>3, <1>4 DEF numTotalWords

\* The last step of the loops hands everything out.
LEMMA LastStepHandsOut ==
  ASSUME DealInv, DealInv', DealIsComplete', ChunkEnds
  PROVE  Deal!HandOut
<1>1. /\ pc = "chunk" /\ pc' = "done" /\ n' = n /\ b' = b /\ array' = array /\ chunks' = chunks
  BY DEF ChunkEnds
<1>2. /\ \A p \in 1..n : Bank(p)' = Bank(p)
      /\ Available' = Available
  BY <1>1 DEF Bank, Available, numTotalWords
<1>3. /\ \A p \in 1..n : Cardinality(Bank(p)) = b
      /\ \A p, q \in 1..n : p # q => Bank(p) \cap Bank(q) = {}
      /\ {array[1]} \cup Available \cup UNION {Bank(p) : p \in 1..n} = 1..N
      /\ array[1] \notin Available
      /\ \A p \in 1..n : Bank(p) \cap (Available \cup {array[1]}) = {}
  <2>1. /\ \A p \in 1..n : Cardinality(Bank(p)') = b
        /\ \A p, q \in 1..n : p # q => Bank(p)' \cap Bank(q)' = {}
        /\ {array[1]} \cup Available' \cup UNION {Bank(p)' : p \in 1..n} = 1..N
        /\ array[1] \notin Available'
        /\ \A p \in 1..n : Bank(p)' \cap (Available' \cup {array[1]}) = {}
    BY <1>1 DEF DealIsComplete
  <2>2. {Bank(p)' : p \in 1..n} = {Bank(p) : p \in 1..n}
    BY <1>2
  <2> QED
    BY <2>1, <2>2, <1>2
<1> DEFINE hands == [p \in 1..n |-> Bank(p)]
<1>4. hands \in Deal!Banks(1..N, 1..n, b, array[1])
  <2>1. \A p \in 1..n : Bank(p) \subseteq 1..N \ {array[1]}
    BY <1>3
  <2> QED
    BY <2>1, <1>3, SameCount DEF Deal!Banks
<1>5. Available = Deal!Rest(1..N, hands, array[1])
  <2>1. UNION {hands[p] : p \in DOMAIN hands} = UNION {Bank(p) : p \in 1..n}
    OBVIOUS
  <2>2. Deal!Rest(1..N, hands, array[1]) = (1..N) \ ({array[1]} \cup UNION {Bank(p) : p \in 1..n})
    BY <2>1 DEF Deal!Rest
  <2> DEFINE u == UNION {Bank(p) : p \in 1..n}
  <2>3. u \cap Available = {}
    BY <1>3
  <2>4. {array[1]} \cup Available \cup u = 1..N /\ array[1] \notin Available
    BY <1>3
  <2> HIDE DEF u
  <2>5. (1..N) \ ({array[1]} \cup u) = Available
    BY <2>3, <2>4
  <2> QED
    BY <2>2, <2>5 DEF u
<1>6. [p \in 1..n' |-> Bank(p)'] = hands
  BY <1>1, <1>2
<1>7. array[1] \in 1..N
  BY <1>3
<1>8. Deal!Fits
  <2>1. numTotalWords <= N
    BY <1>1 DEF DealInv, Enough
  <2> QED
    BY <2>1, PlayersCounted
<1> HIDE DEF hands
<1> QED
  BY <1>1, <1>2, <1>4, <1>5, <1>6, <1>7, <1>8 DEF Deal!HandOut

\* Every step of the loops but the first and the last leaves the deal as it is
\* to the caller; the first may refuse it.
LEMMA StepOfTheDeal ==
  ASSUME DealInv, DealInv', DealIsComplete, DealIsComplete', [Next]_vars
  PROVE  [Deal!Next]_(Deal!vars)
<1>1. CASE CheckSize
  <2>1. CASE numTotalWords > N
    BY <1>1, <2>1, PlayersCounted DEF CheckSize, Deal!Next, Deal!Refuse
  <2>2. CASE ~ numTotalWords > N
    BY <1>1, <2>2 DEF CheckSize, Deal!vars
  <2> QED
    BY <2>1, <2>2
<1>2. CASE ShuffleStep
  BY <1>2 DEF ShuffleStep, Deal!vars
<1>3. CASE ShuffleEnds
  BY <1>3 DEF ShuffleEnds, Deal!vars
<1>4. CASE ChunkStep
  BY <1>4 DEF ChunkStep, Deal!vars
<1>5. CASE ChunkEnds
  BY <1>5, LastStepHandsOut DEF Deal!Next
<1>6. CASE UNCHANGED vars
  <2>1. UNCHANGED <<pc, n, b, array, chunks>>
    BY <1>6 DEF vars
  <2> QED
    BY <2>1 DEF Deal!vars, Bank, Available, numTotalWords
<1> QED
  BY <1>1, <1>2, <1>3, <1>4, <1>5, <1>6 DEF Next

\* For a list of any length, any number of players and any size of a bank: the
\* loops of shuffleArray and chunkArray come to one deal of the kind that
\* startGame makes in one step, and give up only if the list is too short.
THEOREM DealsImplementDeal == Spec => DealsAtOnce
<1>1. Init => Deal!Init
  BY DEF Init, Deal!Init
<1>2. DealInv /\ DealInv' /\ DealIsComplete /\ DealIsComplete' /\ [Next]_vars => [Deal!Next]_(Deal!vars)
  BY StepOfTheDeal
<1> QED
  BY <1>1, <1>2, DealInvariant, DealsAreComplete, PTL DEF Spec, DealsAtOnce, Deal!Spec

----------------------------------------------------------------------------
(**************************** One single cycle *****************************)

\* The step of the shuffle in between: every cycle of the order a passes
\* through exactly one of the first k places; rep names it for every place.
Labels(a, k, rep) ==
  /\ rep \in [1..N -> 1..k]
  /\ \A x \in 1..k : rep[x] = x
  /\ \A x \in 1..N : rep[a[x]] = rep[x]

Rooted(a, k) ==
  /\ a \in Permutation
  /\ \A S \in SUBSET (1..N) : S # {} /\ ClosedUnder(a, S) => S \cap (1..k) # {}
  /\ \E rep : Labels(a, k, rep)

LEMMA Places == IsFiniteSet(1..N) /\ Cardinality(1..N) = N /\ N \in Nat \ {0}
  BY DealingAssumption, FS_Interval

\* A permutation has no two places with one value.
LEMMA Injective ==
  ASSUME NEW a \in Permutation
  PROVE  \A x, y \in 1..N : a[x] = a[y] => x = y
<1>1. a \in Surjection(1..N, 1..N)
  BY DEF Permutation, Surjection
<1>2. a \in Injection(1..N, 1..N)
  BY <1>1, Places, FS_SurjSameCardinalityImpliesInj
<1> QED
  BY <1>2 DEF Injection, IsInjective

\* What is left of a closed set is closed: within it every value is taken.
LEMMA RestClosed ==
  ASSUME NEW a \in Permutation, NEW S \in SUBSET (1..N), ClosedUnder(a, S)
  PROVE  \A x \in (1..N) \ S : a[x] \in (1..N) \ S
<1> DEFINE g == [x \in S |-> a[x]]
<1>1. a \in [1..N -> 1..N] /\ \A x, y \in 1..N : a[x] = a[y] => x = y
  BY Injective DEF Permutation
<1>2. IsFiniteSet(S)
  BY Places, FS_Subset
<1>3. g \in Injection(S, S)
  BY <1>1 DEF ClosedUnder, Injection, IsInjective
<1>4. g \in Surjection(S, S)
  BY <1>2, <1>3, FS_Injection
<1>5. \A y \in S : \E x \in S : a[x] = y
  BY <1>4 DEF Surjection
<1> QED
  BY <1>1, <1>5

\* Two values change places, and back again.
LEMMA Swapped ==
  ASSUME NEW a \in Permutation, NEW k \in 1..N, NEW j \in 1..N, k # j
  PROVE  /\ Swap(a, k, j) \in Permutation /\ Swap(Swap(a, k, j), k, j) = a
         /\ Swap(a, k, j)[k] = a[j] /\ Swap(a, k, j)[j] = a[k]
         /\ \A x \in 1..N : x # k /\ x # j => Swap(a, k, j)[x] = a[x]
<1> DEFINE c == Swap(a, k, j)
<1>1. a \in [1..N -> 1..N] /\ \A y \in 1..N : \E m \in 1..N : a[m] = y
  BY DEF Permutation
<1>2. /\ c \in [1..N -> 1..N] /\ c[k] = a[j] /\ c[j] = a[k]
      /\ \A x \in 1..N : x # k /\ x # j => c[x] = a[x]
  BY <1>1 DEF Swap
<1>3. Swap(c, k, j) = a
  <2> HIDE DEF c
  <2>1. /\ Swap(c, k, j) \in [1..N -> 1..N] /\ Swap(c, k, j)[k] = c[j] /\ Swap(c, k, j)[j] = c[k]
        /\ \A x \in 1..N : x # k /\ x # j => Swap(c, k, j)[x] = c[x]
    BY <1>2 DEF Swap
  <2> DEFINE d == Swap(c, k, j)
  <2>2. d \in [1..N -> 1..N] /\ \A x \in 1..N : d[x] = a[x]
    BY <1>2, <2>1
  <2> HIDE DEF d
  <2>3. d = [x \in 1..N |-> d[x]] /\ a = [x \in 1..N |-> a[x]]
    BY <1>1, <2>2
  <2>4. d = a
    BY <2>2, <2>3
  <2> QED
    BY <2>4 DEF d
<1> HIDE DEF c
<1>4. ASSUME NEW y \in 1..N  PROVE \E m \in 1..N : c[m] = y
  <2>1. PICK m \in 1..N : a[m] = y
    BY <1>1
  <2> QED
    BY <1>2, <2>1
<1>5. c \in Permutation
  BY <1>2, <1>4 DEF Permutation
<1> QED
  BY <1>2, <1>3, <1>5 DEF c

\* Before the first draw every place is a cycle of its own.
LEMMA RootedAtFirst == \A a : Rooted(a, N) <=> a = Identity
<1>1. Rooted(Identity, N)
  <2>1. Identity \in Permutation
    BY DEF Identity, Permutation
  <2>2. Labels(Identity, N, Identity)
    BY DEF Labels, Identity
  <2> QED
    BY <2>1, <2>2 DEF Rooted
<1>2. ASSUME NEW a, Rooted(a, N)  PROVE a = Identity
  <2>1. PICK rep : Labels(a, N, rep)
    BY <1>2 DEF Rooted
  <2>2. a \in [1..N -> 1..N]
    BY <1>2 DEF Rooted, Permutation
  <2>3. \A x \in 1..N : a[x] = x
    BY <2>1, <2>2 DEF Labels
  <2> QED
    BY <2>2, <2>3 DEF Identity
<1> QED
  BY <1>1, <1>2

\* A draw links the cycle of the place k + 1 into that of a place below.
LEMMA DrawLinks ==
  ASSUME NEW k \in 1..(N - 1), NEW a, Rooted(a, k + 1), NEW j \in 1..k
  PROVE  Rooted(Swap(a, k + 1, j), k)
<1> DEFINE c == Swap(a, k + 1, j)
<1>1. /\ N \in Nat /\ k + 1 \in 1..N /\ j \in 1..N /\ j # k + 1 /\ j <= k /\ 1..(k + 1) = (1..k) \cup {k + 1}
      /\ a \in Permutation /\ a \in [1..N -> 1..N]
  <2>1. N \in Nat /\ k \in Nat /\ k <= N - 1 /\ k >= 1 /\ j \in Nat /\ j >= 1 /\ j <= k
    BY Places
  <2>2. k + 1 \in 1..N /\ j \in 1..N /\ j # k + 1 /\ 1..(k + 1) = (1..k) \cup {k + 1}
    BY <2>1
  <2> QED
    BY <2>1, <2>2 DEF Rooted, Permutation
<1>2. /\ c \in Permutation /\ c[k + 1] = a[j] /\ c[j] = a[k + 1]
      /\ \A x \in 1..N : x # k + 1 /\ x # j => c[x] = a[x]
  <2>1. k + 1 \in 1..N /\ j \in 1..N /\ k + 1 # j /\ a \in Permutation
    BY <1>1
  <2> HIDE DEF c
  <2>2. c = Swap(a, k + 1, j)
    BY DEF c
  <2> QED
    BY <2>1, <2>2, Swapped
<1> HIDE DEF c
<1>3. PICK rep : Labels(a, k + 1, rep)
  BY DEF Rooted
<1>4. /\ rep \in [1..N -> 1..(k + 1)] /\ rep[j] = j /\ rep[k + 1] = k + 1
      /\ \A x \in 1..(k + 1) : rep[x] = x
      /\ \A x \in 1..N : rep[a[x]] = rep[x]
  BY <1>1, <1>3 DEF Labels
<1> DEFINE r == [x \in 1..N |-> IF rep[x] = k + 1 THEN j ELSE rep[x]]
<1>5. Labels(c, k, r)
  <2>1. r \in [1..N -> 1..k] /\ \A x \in 1..k : r[x] = x
    <3>1. k \in Nat /\ N \in Nat /\ k + 1 <= N /\ j \in 1..k
      BY <1>1
    <3>2. ASSUME NEW x \in 1..N  PROVE (IF rep[x] = k + 1 THEN j ELSE rep[x]) \in 1..k
      <4>1. rep[x] \in 1..(k + 1)
        BY <1>4
      <4> QED
        BY <3>1, <4>1
    <3>3. r \in [1..N -> 1..k]
      BY <3>2
    <3>4. ASSUME NEW x \in 1..k  PROVE r[x] = x
      <4>1. x \in 1..N /\ x \in 1..(k + 1) /\ x # k + 1
        BY <3>1
      <4>2. rep[x] = x
        BY <1>4, <4>1
      <4> QED
        BY <4>1, <4>2
    <3> HIDE DEF r
    <3> QED
      BY <3>3, <3>4
  <2>2. \A x \in 1..N : c[x] \in 1..N /\ a[x] \in 1..N
    BY <1>1, <1>2 DEF Permutation
  <2>3. ASSUME NEW x \in 1..N  PROVE r[c[x]] = r[x]
    <3>1. CASE x = k + 1
      BY <1>1, <1>2, <1>4, <2>2, <3>1
    <3>2. CASE x = j
      BY <1>1, <1>2, <1>4, <2>2, <3>2
    <3>3. CASE x # k + 1 /\ x # j
      BY <1>2, <1>4, <2>2, <3>3
    <3> QED
      BY <3>1, <3>2, <3>3
  <2> HIDE DEF r
  <2> QED
    BY <2>1, <2>3 DEF Labels
<1>6. ASSUME NEW S \in SUBSET (1..N), S # {}, ClosedUnder(c, S)  PROVE S \cap (1..k) # {}
  <2> SUFFICES ASSUME S \cap (1..k) = {}  PROVE FALSE
    OBVIOUS
  <2>1. j \notin S
    BY <1>1
  <2>2. \A T \in SUBSET (1..N) : T # {} /\ ClosedUnder(a, T) => T \cap (1..(k + 1)) # {}
    BY DEF Rooted
  <2>3. CASE k + 1 \notin S
    <3>1. ClosedUnder(a, S)
      BY <1>2, <1>6, <2>1, <2>3 DEF ClosedUnder
    <3> QED
      BY <1>1, <1>6, <2>2, <2>3, <3>1
  <2>4. CASE k + 1 \in S
    <3> DEFINE T == {x \in S : rep[x] = j}
    <3>1. a[j] \in T
      BY <1>1, <1>2, <1>4, <1>6, <2>4 DEF ClosedUnder
    <3>2. ClosedUnder(a, T)
      <4> SUFFICES ASSUME NEW x \in T  PROVE a[x] \in S /\ rep[a[x]] = j
        BY DEF ClosedUnder
      <4>1. x # k + 1 /\ x # j /\ x \in 1..N
        BY <1>1, <1>4, <2>1
      <4> QED
        BY <1>2, <1>4, <1>6, <4>1 DEF ClosedUnder
    <3>3. T \in SUBSET (1..N)
      BY <1>6
    <3>4. PICK x \in T : x \in 1..(k + 1)
      BY <2>2, <3>1, <3>2, <3>3
    <3> QED
      BY <1>4, <2>1, <3>4
  <2> QED
    BY <2>3, <2>4
<1>7. Rooted(c, k)
  BY <1>2, <1>5, <1>6 DEF Rooted
<1> QED
  BY <1>7 DEF c

\* Every order a draw of the place k + 1 can leave comes from a draw: the
\* cycle of k + 1 is cut out of the cycle it is on, at the place j below.
LEMMA DrawUndone ==
  ASSUME NEW k \in 1..(N - 1), NEW c, Rooted(c, k)
  PROVE  \E a, j : Rooted(a, k + 1) /\ j \in 1..k /\ c = Swap(a, k + 1, j)
<1>1. PICK rep : Labels(c, k, rep)
  BY DEF Rooted
<1> DEFINE m == k + 1
           j == rep[m]
           a == Swap(c, m, j)
           K == {x \in 1..N : rep[x] = j}
           Path(S) == c[j] \in S /\ \A x \in S : x # m => c[x] \in S
           D == {x \in 1..N : \A S \in SUBSET (1..N) : Path(S) => x \in S}
<1>2. /\ m \in 1..N /\ N \in Nat /\ 1..m = (1..k) \cup {m} /\ m \notin 1..k
      /\ c \in Permutation /\ c \in [1..N -> 1..N]
      /\ \A S \in SUBSET (1..N) : S # {} /\ ClosedUnder(c, S) => S \cap (1..k) # {}
      /\ rep \in [1..N -> 1..k] /\ (\A x \in 1..k : rep[x] = x) /\ (\A x \in 1..N : rep[c[x]] = rep[x])
  <2>1. N \in Nat /\ k \in Nat /\ k <= N - 1 /\ k >= 1
    BY Places
  <2>2. m \in 1..N /\ 1..m = (1..k) \cup {m} /\ m \notin 1..k
    BY <2>1
  <2> QED
    BY <1>1, <2>1, <2>2 DEF Rooted, Permutation, Labels
<1> HIDE DEF m
<1>3. j \in 1..k /\ j \in 1..N /\ j # m /\ rep[j] = j
  BY <1>2
<1>4. /\ a \in Permutation /\ c = Swap(a, m, j) /\ a[m] = c[j] /\ a[j] = c[m]
      /\ \A x \in 1..N : x # m /\ x # j => a[x] = c[x]
  <2>1. m \in 1..N /\ j \in 1..N /\ m # j /\ c \in Permutation
    BY <1>2, <1>3
  <2> HIDE DEF j
  <2>2. /\ Swap(c, m, j) \in Permutation /\ Swap(Swap(c, m, j), m, j) = c
        /\ Swap(c, m, j)[m] = c[j] /\ Swap(c, m, j)[j] = c[m]
        /\ \A x \in 1..N : x # m /\ x # j => Swap(c, m, j)[x] = c[x]
    BY <2>1, Swapped
  <2> QED
    BY <2>2
<1> HIDE DEF a, j
<1>5. Path(K) /\ K \subseteq 1..N /\ m \in K /\ j \in K /\ ClosedUnder(c, K)
  BY <1>2, <1>3 DEF ClosedUnder, j
<1>6. D \subseteq K /\ c[j] \in D /\ \A x \in D : x # m => c[x] \in D
  BY <1>2, <1>3, <1>5
<1>7. m \in D
  <2> SUFFICES ASSUME m \notin D  PROVE FALSE
    OBVIOUS
  <2>1. ClosedUnder(c, D) /\ D \in SUBSET (1..N) /\ D # {}
    BY <1>6 DEF ClosedUnder
  <2>2. PICK x \in D : x \in 1..k
    <3> HIDE DEF D
    <3>1. \A S \in SUBSET (1..N) : S # {} /\ ClosedUnder(c, S) => S \cap (1..k) # {}
      BY <1>2
    <3>2. D \cap (1..k) # {}
      BY <2>1, <3>1
    <3> QED
      BY <3>2
  <2>3. j \in D
    BY <1>2, <1>6, <2>2
  <2> DEFINE E == K \ D
  <2>4. E \in SUBSET (1..N) /\ m \in E /\ E # {}
    BY <1>5
  <2>5. \A y \in (1..N) \ D : c[y] \in (1..N) \ D
    <3> HIDE DEF D
    <3> QED
      BY <1>2, <2>1, RestClosed
  <2>6. ClosedUnder(c, E)
    BY <1>5, <2>5 DEF ClosedUnder
  <2>7. PICK y \in E : y \in 1..k
    <3> HIDE DEF E, D, K
    <3>1. E \cap (1..k) # {}
      BY <1>2, <2>4, <2>6
    <3> QED
      BY <3>1
  <2> QED
    BY <1>2, <2>3, <2>7
<1>8. j \notin D
  <2> SUFFICES ASSUME j \in D  PROVE FALSE
    OBVIOUS
  <2>1. ASSUME NEW y \in D  PROVE \E x \in D \ {m} : c[x] = y
    <3> SUFFICES ASSUME \A x \in D \ {m} : c[x] # y  PROVE FALSE
      OBVIOUS
    <3> DEFINE S == D \ {y}
    <3>1. Path(S)
      BY <1>3, <1>6
    <3>2. S \in SUBSET (1..N)
      OBVIOUS
    <3> QED
      BY <3>1, <3>2
  <2> HIDE DEF D
  <2>2. IsFiniteSet(D) /\ Cardinality(D) \in Nat /\ Cardinality(D \ {m}) = Cardinality(D) - 1 /\ IsFiniteSet(D \ {m})
    BY <1>5, <1>6, <1>7, Places, FS_Subset, FS_RemoveElement, FS_CardinalityType
  <2> DEFINE g == [x \in D \ {m} |-> c[x]]
  <2>3. g \in Surjection(D \ {m}, D)
    BY <1>6, <2>1 DEF Surjection
  <2>4. Cardinality(D) <= Cardinality(D \ {m})
    <3> HIDE DEF g
    <3> QED
      BY <2>2, <2>3, FS_Surjection
  <2> QED
    BY <2>2, <2>4
<1>9. ClosedUnder(a, D) /\ D \in SUBSET (1..N)
  BY <1>4, <1>5, <1>6, <1>8 DEF ClosedUnder
<1> HIDE DEF D
<1>10. \A x \in (1..N) \ D : a[x] \in (1..N) \ D
  BY <1>4, <1>9, RestClosed
<1> DEFINE r == [x \in 1..N |-> IF x \in D THEN m ELSE rep[x]]
<1>11. Labels(a, m, r)
  <2>1. r \in [1..N -> 1..m]
    BY <1>2
  <2>2. ASSUME NEW x \in 1..m  PROVE r[x] = x
    <3>1. CASE x = m
      BY <1>2, <1>7, <3>1
    <3>2. CASE x \in 1..k
      <4>1. x \in 1..N /\ rep[x] = x
        BY <1>2, <3>2
      <4>2. x \notin D
        BY <1>6, <1>8, <4>1
      <4> QED
        BY <4>1, <4>2
    <3> QED
      BY <1>2, <3>1, <3>2
  <2>3. ASSUME NEW x \in 1..N  PROVE r[a[x]] = r[x]
    <3>1. CASE x \in D
      BY <1>9, <3>1 DEF ClosedUnder
    <3>2. CASE x \notin D
      <4>1. a[x] \in 1..N /\ a[x] \notin D /\ x # m
        BY <1>7, <1>10, <3>2
      <4>2. rep[a[x]] = rep[x]
        <5>1. rep[c[x]] = rep[x] /\ rep[c[m]] = rep[m] /\ rep[m] = j
          BY <1>2 DEF j
        <5>2. CASE x = j
          BY <1>3, <1>4, <5>1, <5>2
        <5>3. CASE x # j
          BY <1>4, <4>1, <5>1, <5>3
        <5> QED
          BY <5>2, <5>3
      <4> QED
        BY <3>2, <4>1, <4>2
    <3> QED
      BY <3>1, <3>2
  <2> HIDE DEF r
  <2> QED
    BY <2>1, <2>2, <2>3 DEF Labels
<1>12. ASSUME NEW S \in SUBSET (1..N), S # {}, ClosedUnder(a, S)  PROVE S \cap (1..m) # {}
  <2> SUFFICES ASSUME m \notin S, j \notin S  PROVE S \cap (1..k) # {}
    BY <1>2, <1>3
  <2>1. ClosedUnder(c, S)
    BY <1>4, <1>12 DEF ClosedUnder
  <2> QED
    BY <1>2, <1>12, <2>1
<1>13. Rooted(a, m)
  BY <1>4, <1>11, <1>12 DEF Rooted
<1> QED
  BY <1>3, <1>4, <1>13 DEF m

\* After the last draw all places are on one cycle.
LEMMA RootedAtLast == \A a : Rooted(a, 1) <=> a \in Cycles
<1>1. ASSUME NEW a, Rooted(a, 1)  PROVE a \in Cycles
  <2>1. a \in Permutation
    BY <1>1 DEF Rooted
  <2>2. \A S \in SUBSET (1..N) : S # {} /\ ClosedUnder(a, S) => 1 \in S
    BY <1>1 DEF Rooted
  <2> SUFFICES ASSUME NEW S \in SUBSET (1..N), S # {}, ClosedUnder(a, S)  PROVE S = 1..N
    BY <2>1 DEF Cycles
  <2> DEFINE R == (1..N) \ S
  <2>3. R \in SUBSET (1..N) /\ ClosedUnder(a, R)
    BY <2>1, RestClosed DEF ClosedUnder
  <2>4. 1 \in S /\ 1 \notin R
    BY <2>2
  <2> HIDE DEF R
  <2>5. R = {}
    BY <2>2, <2>3, <2>4
  <2> QED
    BY <2>5 DEF R
<1>2. ASSUME NEW a \in Cycles  PROVE Rooted(a, 1)
  <2>1. a \in Permutation /\ a \in [1..N -> 1..N]
    BY DEF Cycles, Permutation
  <2>2. 1 \in 1..N /\ 1 \in 1..1
    BY Places
  <2> DEFINE r == [x \in 1..N |-> 1]
  <2>3. Labels(a, 1, r)
    <3>1. \A x \in 1..N : a[x] \in 1..N
      BY <2>1
    <3>2. /\ r \in [1..N -> 1..1] /\ \A x \in 1..1 : x = 1 /\ r[x] = 1
      BY <2>2
    <3> QED
      BY <3>1, <3>2 DEF Labels
  <2>4. ASSUME NEW S \in SUBSET (1..N), S # {}, ClosedUnder(a, S)  PROVE S \cap (1..1) # {}
    <3>1. S = 1..N
      BY <2>4 DEF Cycles
    <3> QED
      BY <2>2, <3>1
  <2> HIDE DEF r
  <2> QED
    BY <2>1, <2>3, <2>4 DEF Rooted
<1> QED
  BY <1>1, <1>2

\* The draws of all the places leave exactly the orders of one cycle.
LEMMA AllOutcomes == Outcomes[1] = Cycles
<1> DEFINE Rec(f) == [k \in 1..N |-> IF k = N THEN {Identity}
                        ELSE UNION {{Swap(a, k + 1, j) : j \in 1..k} : a \in f[k + 1]}]
           e == [k \in 1..N |-> {a \in Permutation : Rooted(a, k)}]
<1>1. ASSUME NEW k \in 1..(N - 1)
      PROVE  e[k] = UNION {{Swap(a, k + 1, j) : j \in 1..k} : a \in e[k + 1]}
  <2>1. k \in 1..N /\ k + 1 \in 1..N
    BY Places
  <2>2. \A a : (a \in e[k] <=> Rooted(a, k)) /\ (a \in e[k + 1] <=> Rooted(a, k + 1))
    BY <2>1 DEF Rooted
  <2> HIDE DEF e
  <2>3. ASSUME NEW c \in e[k]  PROVE \E a \in e[k + 1] : \E j \in 1..k : c = Swap(a, k + 1, j)
    BY <2>2, <2>3, DrawUndone
  <2>4. ASSUME NEW a \in e[k + 1], NEW j \in 1..k  PROVE Swap(a, k + 1, j) \in e[k]
    BY <2>2, <2>4, DrawLinks
  <2> QED
    BY <2>3, <2>4
<1>2. e[N] = {Identity}
  <2>1. N \in 1..N
    BY Places
  <2>2. \A a : a \in e[N] <=> Rooted(a, N)
    BY <2>1 DEF Rooted
  <2> HIDE DEF e
  <2> QED
    BY <2>2, RootedAtFirst
<1>3. e = Rec(e)
  <2>1. \A k \in 1..N : k # N => k \in 1..(N - 1)
    BY Places
  <2>2. \A k \in 1..N : e[k] = Rec(e)[k]
    <3> SUFFICES ASSUME NEW k \in 1..N
                 PROVE  e[k] = IF k = N THEN {Identity}
                               ELSE UNION {{Swap(a, k + 1, j) : j \in 1..k} : a \in e[k + 1]}
      OBVIOUS
    <3> HIDE DEF e
    <3> QED
      BY <1>1, <1>2, <2>1
  <2> DEFINE re == Rec(e)
  <2>3. re = [k \in 1..N |-> re[k]] /\ e = [k \in 1..N |-> e[k]] /\ \A k \in 1..N : e[k] = re[k]
    BY <2>2
  <2> HIDE DEF re, e
  <2>4. re = e
    BY <2>3
  <2> QED
    BY <2>4 DEF re
<1>4. Outcomes = CHOOSE f : f = Rec(f)
  BY DEF Outcomes
<1>5. Outcomes = Rec(Outcomes)
  <2> HIDE DEF e
  <2> QED
    BY <1>3, <1>4
<1>6. /\ Outcomes[N] = {Identity}
      /\ \A k \in 1..(N - 1) : Outcomes[k] = UNION {{Swap(a, k + 1, j) : j \in 1..k} : a \in Outcomes[k + 1]}
  <2> DEFINE o == Outcomes
             G(k) == IF k = N THEN {Identity}
                     ELSE UNION {{Swap(a, k + 1, j) : j \in 1..k} : a \in o[k + 1]}
  <2> HIDE DEF o
  <2>1. o = [k \in 1..N |-> G(k)]
    BY <1>5 DEF o
  <2>2. N \in 1..N /\ \A k \in 1..(N - 1) : k \in 1..N /\ k # N
    BY Places
  <2>3. G(N) = {Identity} /\ \A k \in 1..(N - 1) : G(k) = UNION {{Swap(a, k + 1, j) : j \in 1..k} : a \in o[k + 1]}
    BY <2>2
  <2> HIDE DEF G
  <2>4. \A k \in 1..N : o[k] = G(k)
    BY <2>1
  <2>5. o[N] = {Identity} /\ \A k \in 1..(N - 1) : o[k] = UNION {{Swap(a, k + 1, j) : j \in 1..k} : a \in o[k + 1]}
    BY <2>2, <2>3, <2>4
  <2> QED
    BY <2>5 DEF o
<1> HIDE DEF e
<1> DEFINE T == {d \in Nat : d < N => Outcomes[N - d] = e[N - d]}
<1>7. 0 \in T
  <2>1. N - 0 = N
    BY Places
  <2> QED
    BY <1>2, <1>6, <2>1
<1>8. ASSUME NEW d \in Nat, d \in T  PROVE d + 1 \in T
  <2> SUFFICES ASSUME d + 1 < N  PROVE Outcomes[N - (d + 1)] = e[N - (d + 1)]
    OBVIOUS
  <2> DEFINE k == N - (d + 1)
  <2>1. k \in 1..(N - 1) /\ k + 1 = N - d /\ d < N
    BY Places
  <2>2. Outcomes[k + 1] = e[k + 1]
    BY <1>8, <2>1
  <2> HIDE DEF k
  <2>3. Outcomes[k] = e[k]
    BY <1>1, <1>6, <2>1, <2>2
  <2> QED
    BY <2>3 DEF k
<1>9. N - 1 \in Nat /\ N - 1 < N /\ N - (N - 1) = 1 /\ 1 \in 1..N
  BY Places
<1>10. Outcomes[1] = e[1]
  <2>1. N - 1 \in T
    <3> HIDE DEF T
    <3> QED
      BY <1>7, <1>8, <1>9, SetInduction
  <2> QED
    BY <1>9, <2>1
<1>11. \A a : a \in e[1] <=> Rooted(a, 1)
  BY <1>9 DEF e, Rooted
<1> QED
  BY <1>10, <1>11, RootedAtLast

----------------------------------------------------------------------------
\* How far shuffleArray is from "shuffle correctly" (utils.js:1): whatever it
\* draws, it moves every word along one single cycle through all places, and of
\* the permutations exactly these can come out, as the partner is always drawn
\* below the index.
THEOREM ShufflesAreCycles == Spec => []ShuffleIsACycle
<1> DEFINE SInv == /\ DealInv
                   /\ pc \in {"check", "shuffle"} => i \in 1..N /\ Rooted(array, i)
                   /\ pc \in {"chunk", "done"} => array \in Cycles
<1>1. Init => SInv
  <2> SUFFICES ASSUME Init  PROVE SInv
    OBVIOUS
  <2> QED
    BY InitDealInv, Places, RootedAtFirst DEF Init
<1>2. SInv /\ [Next]_vars => SInv'
  <2> SUFFICES ASSUME SInv, [Next]_vars
               PROVE  /\ pc' \in {"check", "shuffle"} => i' \in 1..N /\ Rooted(array', i')
                      /\ pc' \in {"chunk", "done"} => array' \in Cycles
    BY NextDealInv
  <2>1. CASE ShuffleStep
    <3>1. /\ pc = "shuffle" /\ pc' = "shuffle" /\ i > 1 /\ i' = i - 1 /\ i \in 1..N /\ Rooted(array, i)
      BY <2>1 DEF ShuffleStep
    <3>2. PICK j \in 1..(i - 1) : array' = Swap(array, i, j)
      BY <2>1 DEF ShuffleStep
    <3> DEFINE k == i - 1
    <3>3. k \in 1..(N - 1) /\ k \in 1..N /\ i = k + 1 /\ j \in 1..k
      BY <3>1, Places
    <3> HIDE DEF k
    <3>4. Rooted(Swap(array, k + 1, j), k)
      BY <3>1, <3>3, DrawLinks
    <3> QED
      BY <3>1, <3>2, <3>3, <3>4 DEF k
  <2>2. CASE ShuffleEnds
    <3>1. /\ pc = "shuffle" /\ pc' = "chunk" /\ i <= 1 /\ i \in 1..N /\ Rooted(array, i) /\ array' = array
      BY <2>2 DEF ShuffleEnds
    <3>2. i = 1
      BY <3>1, Places
    <3> QED
      BY <3>1, <3>2, RootedAtLast
  <2>3. CASE CheckSize
    BY <2>3 DEF CheckSize
  <2>4. CASE ChunkStep \/ ChunkEnds
    BY <2>4 DEF ChunkStep, ChunkEnds
  <2>5. CASE UNCHANGED vars
    BY <2>5 DEF vars
  <2> QED
    BY <2>1, <2>2, <2>3, <2>4, <2>5 DEF Next
<1>3. SInv => ShuffleIsACycle
  BY AllOutcomes DEF ShuffleIsACycle
<1> HIDE DEF SInv
<1> QED
  BY <1>1, <1>2, <1>3, PTL DEF Spec

\* What that does to a game: no element stays in its place.  So the first word
\* of the list is never the start word, and the player whose key comes first
\* never begins, against functions/README.md ("a random starting word", "a
\* random player order").
THEOREM NothingStays ==
  Spec => [](N > 1 /\ pc \in {"chunk", "done"} => \A k \in 1..N : array[k] # k)
<1>1. ASSUME ShuffleIsACycle, N > 1, pc \in {"chunk", "done"}, NEW k \in 1..N
      PROVE  array[k] # k
  <2>1. SUFFICES ASSUME array[k] = k  PROVE FALSE
    OBVIOUS
  <2>2. \A S \in SUBSET (1..N) : S # {} /\ ClosedUnder(array, S) => S = 1..N
    BY <1>1 DEF ShuffleIsACycle, Cycles
  <2>3. {k} \in SUBSET (1..N) /\ {k} # {} /\ ClosedUnder(array, {k})
    BY <2>1 DEF ClosedUnder
  <2>4. 1..N = {k}
    BY <2>2, <2>3
  <2>5. 1 \in 1..N /\ N \in 1..N /\ N # 1
    BY <1>1, DealingAssumption
  <2> QED
    BY <2>4, <2>5
<1>2. ShuffleIsACycle => (N > 1 /\ pc \in {"chunk", "done"} => \A k \in 1..N : array[k] # k)
  BY <1>1
<1> QED
  BY <1>2, ShufflesAreCycles, PTL
=============================================================================
