-------------------------- MODULE NaturalRecursion --------------------------
(***************************************************************************)
(* Induction over the natural numbers and definitions by recursion over    *)
(* them, stated with sets and functions in place of operators.             *)
(***************************************************************************)
EXTENDS Integers, WellFoundedInduction, TLAPS

\* A set of numbers that has 0 and the successor of each of its members has
\* them all.  (Else the least number outside would have a predecessor inside.)
LEMMA SetInduction ==
  ASSUME NEW S, 0 \in S, \A k \in Nat : k \in S => k + 1 \in S
  PROVE  Nat \subseteq S
<1> SUFFICES ASSUME Nat \ S # {}  PROVE FALSE
  OBVIOUS
<1> DEFINE R == OpToRel(<, Nat)
<1>1. IsWellFoundedOn(R, Nat)
  BY NatLessThanWellFounded
<1>2. \A x, y \in Nat : y < x => <<y, x>> \in R
  BY DEF OpToRel
<1> HIDE DEF R
<1>3. PICK x \in Nat \ S : \A y \in Nat \ S : ~ (<<y, x>> \in R)
  <2> DEFINE T == Nat \ S
  <2>1. T \subseteq Nat /\ T # {}
    OBVIOUS
  <2> HIDE DEF T
  <2>2. \E x \in T : \A y \in T : ~ (<<y, x>> \in R)
    BY <1>1, <2>1, WFMin
  <2> QED
    BY <2>2 DEF T
<1>4. x # 0 /\ x - 1 \in Nat /\ x - 1 < x
  OBVIOUS
<1>5. x - 1 \in S
  BY <1>2, <1>3, <1>4
<1> QED
  BY <1>4, <1>5

\* A function that begins with v0 and goes on by F.
GoesOn(f, v0, F) == f[0] = v0 /\ \A k \in Nat : f[k + 1] = F[<<k, f[k]>>]

\* The same for a function on the numbers up to n.
Follows(g, n, v0, F) ==
  g[0] = v0 /\ \A k \in 0..(n - 1) : g[k + 1] = F[<<k, g[k]>>]

\* A first value and a rule for the next one define a function on the numbers.
LEMMA RecursionExists ==
  ASSUME NEW V, NEW v0 \in V, NEW F \in [Nat \X V -> V]
  PROVE  \E f \in [Nat -> V] : GoesOn(f, v0, F)
<1> DEFINE S == {n \in Nat : \E g \in [0..n -> V] : Follows(g, n, v0, F)}
<1>1. 0 \in S
  <2> DEFINE g == [k \in 0..0 |-> v0]
  <2>1. g \in [0..0 -> V] /\ Follows(g, 0, v0, F)
    BY DEF Follows
  <2> HIDE DEF g
  <2> QED
    BY <2>1
<1>2. ASSUME NEW n \in Nat, n \in S  PROVE n + 1 \in S
  <2>1. PICK g \in [0..n -> V] : Follows(g, n, v0, F)
    BY <1>2
  <2> DEFINE h == [k \in 0..(n + 1) |-> IF k = n + 1 THEN F[<<n, g[n]>>] ELSE g[k]]
  <2>2. F[<<n, g[n]>>] \in V
    OBVIOUS
  <2>3. h \in [0..(n + 1) -> V]
    BY <2>2
  <2>4. h[n + 1] = F[<<n, g[n]>>] /\ \A k \in 0..n : h[k] = g[k]
    OBVIOUS
  <2> HIDE DEF h
  <2>5. ASSUME NEW k \in 0..n  PROVE h[k + 1] = F[<<k, h[k]>>]
    <3>1. CASE k = n
      BY <3>1, <2>4
    <3>2. CASE k # n
      <4>1. k \in 0..(n - 1) /\ k + 1 \in 0..n
        BY <3>2
      <4>2. g[k + 1] = F[<<k, g[k]>>]
        BY <2>1, <4>1 DEF Follows
      <4> QED
        BY <2>4, <4>1, <4>2
    <3> QED
      BY <3>1, <3>2
  <2>6. Follows(h, n + 1, v0, F)
    <3>1. h[0] = v0
      BY <2>1, <2>4 DEF Follows
    <3> QED
      BY <2>5, <3>1 DEF Follows
  <2> QED
    BY <2>3, <2>6
<1>3. \A n \in Nat : n \in S
  <2> HIDE DEF S
  <2> QED
    BY <1>1, <1>2, SetInduction
<1> DEFINE G == [n \in Nat |-> CHOOSE g \in [0..n -> V] : Follows(g, n, v0, F)]
<1>4. \A n \in Nat : G[n] \in [0..n -> V] /\ Follows(G[n], n, v0, F)
  BY <1>3
<1> HIDE DEF G
<1>5. ASSUME NEW n \in Nat  PROVE G[n + 1][n] = G[n][n]
  <2> DEFINE T == {k \in Nat : k <= n => G[n + 1][k] = G[n][k]}
  <2>1. 0 \in T
    BY <1>4 DEF Follows
  <2>2. ASSUME NEW k \in Nat, k \in T  PROVE k + 1 \in T
    <3> SUFFICES ASSUME k + 1 <= n  PROVE G[n + 1][k + 1] = G[n][k + 1]
      OBVIOUS
    <3>1. k \in 0..(n - 1) /\ k \in 0..((n + 1) - 1)
      OBVIOUS
    <3>2. G[n + 1][k + 1] = F[<<k, G[n + 1][k]>>]
      BY <1>4, <3>1 DEF Follows
    <3>3. G[n][k + 1] = F[<<k, G[n][k]>>]
      BY <1>4, <3>1 DEF Follows
    <3> QED
      BY <2>2, <3>1, <3>2, <3>3
  <2>3. n \in T
    <3> HIDE DEF T
    <3> QED
      BY <2>1, <2>2, SetInduction
  <2> QED
    BY <2>3
<1> DEFINE f == [n \in Nat |-> G[n][n]]
<1>6. f \in [Nat -> V]
  BY <1>4
<1>7. f[0] = v0
  BY <1>4 DEF Follows
<1>8. ASSUME NEW k \in Nat  PROVE f[k + 1] = F[<<k, f[k]>>]
  <2>1. G[k + 1][k + 1] = F[<<k, G[k + 1][k]>>]
    <3>1. k \in 0..((k + 1) - 1)
      OBVIOUS
    <3> QED
      BY <1>4, <3>1 DEF Follows
  <2> QED
    BY <1>5, <2>1
<1> HIDE DEF f
<1> QED
  BY <1>6, <1>7, <1>8 DEF GoesOn
=============================================================================
