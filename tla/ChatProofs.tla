----------------------------- MODULE ChatProofs -----------------------------
(***************************************************************************)
(* What the chat guarantees for any set of phones and any number of lost   *)
(* connections, as long as its keys have one digit (OneDigit): then they   *)
(* sort like their numbers, which the invariant rests on.                  *)
(*                                                                         *)
(* The keys have no gaps, neither in the database nor in any phone's list: *)
(* whatever a phone lists, or hears of next, has all smaller keys before   *)
(* it.  So the number of messages it lists is a key it has heard nothing   *)
(* of.  What a phone still owes the database, and what is on its way to a  *)
(* phone, fill the difference between the two.                             *)
(***************************************************************************)
EXTENDS Chat, NaturalRecursion, FunctionTheorems, FiniteSetTheorems

----------------------------------------------------------------------------
(***************************** The inductive invariant *********************)

Event == [msg : Message, ack : BOOLEAN]

Types == /\ open \subseteq Phones
         /\ unacked \in [Phones -> Seq(Message)] /\ served \in [Phones -> Nat]
         /\ down \in [Phones -> Seq(Event)] /\ known \in [Phones -> SUBSET Nat]
         /\ raised \in [Phones -> Seq(Message)] /\ messages \in [Phones -> Seq(Message)]

\* The messages ever sent are told apart by their ids, and have larger keys
\* than those their senders had heard, and smaller ones than their ids.
Numbered ==
  /\ sent \subseteq Message /\ IsFiniteSet(sent) /\ Cardinality(sent) <= MaxSends
  /\ \A m \in sent : m.key < m.id /\ m.id <= Cardinality(sent)
  /\ \A m, o \in sent : m.id = o.id => m = o
  /\ \A m \in sent : \A h \in m.heard : \E o \in sent : o.id = h /\ o.key < m.key

\* The database holds the keys up to some number, each with a message for it.
Stored ==
  /\ \E c \in Nat : DOMAIN chat = 0..(c - 1)
  /\ \A k \in DOMAIN chat : chat[k] \in sent /\ chat[k].key = k

\* The keys below an outstanding write's own are in the database or are those
\* of earlier writes of the phone; what the database has taken is in it.
Outstanding(p) ==
  /\ served[p] <= Len(unacked[p])
  /\ unacked[p] # <<>> => p \in open
  /\ \A j \in 1..Len(unacked[p]) : unacked[p][j] \in sent
  /\ \A j \in 1..Len(unacked[p]) : \A k \in 0..(unacked[p][j].key - 1) :
       k \in DOMAIN chat \/ \E l \in 1..(j - 1) : unacked[p][l].key = k
  /\ \A j \in 1..served[p] : unacked[p][j].key \in DOMAIN chat

\* What a phone lists, now or when its listener has run, has the keys from 0
\* on, one after the other: the keys it knows.
Count(p) == Len(messages[p]) + Len(raised[p])

InARow(p) ==
  /\ known[p] = 0..(Count(p) - 1)
  /\ \A j \in 1..Len(messages[p]) : messages[p][j] \in sent /\ messages[p][j].key = j - 1
  /\ \A j \in 1..Len(raised[p]) : raised[p][j] \in sent /\ raised[p][j].key = Len(messages[p]) + j - 1

\* They are the database's, or still to be written by the phone.
Backed(p) ==
  \A k \in known[p] : k \in DOMAIN chat \/ \E j \in 1..Len(unacked[p]) : unacked[p][j].key = k

\* What is on its way to a phone has a key of the database, comes without
\* gaps, and is all the phone does not know; it acknowledges as many writes
\* as were taken.
Acks(p) == {j \in 1..Len(down[p]) : down[p][j].ack}

Coming(p) ==
  /\ \A j \in 1..Len(down[p]) : down[p][j].msg \in sent /\ down[p][j].msg.key \in DOMAIN chat
  /\ \A j \in 1..Len(down[p]) : \A k \in 0..(down[p][j].msg.key - 1) :
       k \in known[p] \/ \E l \in 1..(j - 1) : down[p][l].msg.key = k
  /\ p \in open => \A k \in DOMAIN chat : k \in known[p] \/ \E j \in 1..Len(down[p]) : down[p][j].msg.key = k
  /\ Cardinality(Acks(p)) = served[p]

\* No message is forgotten: its phone still writes it, or its key is taken.
Noted == \A m \in sent :
  m.key \in DOMAIN chat \/ \E p \in Phones : \E j \in 1..Len(unacked[p]) : unacked[p][j] = m

ChatInv == /\ Types /\ Numbered /\ Stored /\ Noted
           /\ \A p \in Phones : Outstanding(p) /\ InARow(p) /\ Backed(p) /\ Coming(p)

----------------------------------------------------------------------------
(******************************* Sequences *********************************)

\* What appending does.
LEMMA AppendFacts ==
  ASSUME NEW S, NEW s \in Seq(S), NEW e \in S
  PROVE  /\ Append(s, e) \in Seq(S) /\ Len(Append(s, e)) = Len(s) + 1 /\ Len(s) \in Nat
         /\ Append(s, e)[Len(s) + 1] = e
         /\ \A j \in 1..Len(s) : Append(s, e)[j] = s[j]
  OBVIOUS

\* What taking the first away does.
LEMMA TailFacts ==
  ASSUME NEW S, NEW s \in Seq(S), s # <<>>
  PROVE  /\ Tail(s) \in Seq(S) /\ Len(s) \in Nat \ {0} /\ Len(Tail(s)) = Len(s) - 1 /\ Head(s) = s[1]
         /\ Head(s) \in S
         /\ \A j \in 1..(Len(s) - 1) : Tail(s)[j] = s[j + 1]
  OBVIOUS

----------------------------------------------------------------------------
(***************************** The phones' lists ***************************)

\* A phone lists no more messages than were sent.
LEMMA CountBound ==
  ASSUME Types, Numbered, NEW p \in Phones, InARow(p)
  PROVE  Count(p) \in Nat /\ Count(p) <= Cardinality(sent) /\ Cardinality(sent) \in Nat
<1> DEFINE L == Len(messages[p])
           R == Len(raised[p])
           g == [j \in 1..(L + R) |-> IF j <= L THEN messages[p][j] ELSE raised[p][j - L]]
<1>1. L \in Nat /\ R \in Nat /\ Count(p) = L + R
  BY DEF Types, Count
<1>2. /\ \A j \in 1..L : messages[p][j] \in sent /\ messages[p][j].key = j - 1
      /\ \A j \in 1..R : raised[p][j] \in sent /\ raised[p][j].key = L + j - 1
  BY DEF InARow
<1> HIDE DEF L, R
<1>3. ASSUME NEW j \in 1..(L + R)  PROVE g[j] \in sent /\ g[j].key = j - 1
  <2>1. CASE j <= L
    BY <1>1, <1>2, <2>1
  <2>2. CASE ~ (j <= L)
    <3>1. j - L \in 1..R /\ L + (j - L) - 1 = j - 1
      BY <1>1, <2>2
    <3> QED
      BY <1>2, <2>2, <3>1
  <2> QED
    BY <2>1, <2>2
<1>4. g \in Injection(1..(L + R), sent)
  <2>1. g \in [1..(L + R) -> sent]
    BY <1>3
  <2> HIDE DEF g
  <2>2. \A j, k \in 1..(L + R) : g[j] = g[k] => j = k
    BY <1>1, <1>3
  <2> QED
    BY <2>1, <2>2 DEF Injection, IsInjective
<1> HIDE DEF g
<1>5. Cardinality(1..(L + R)) <= Cardinality(sent) /\ Cardinality(sent) \in Nat
  BY <1>4, FS_Injection, FS_CardinalityType DEF Numbered
<1>6. Cardinality(1..(L + R)) = L + R
  <2> DEFINE c == L + R
  <2>1. c \in Nat
    BY <1>1
  <2> HIDE DEF c
  <2>2. Cardinality(1..c) = c
    BY <2>1, FS_Interval
  <2> QED
    BY <2>2 DEF c
<1> QED
  BY <1>1, <1>5, <1>6

\* A phone that learns of a message without a gap lists it next, or has one
\* with its key.
LEMMA LearnsInARow ==
  ASSUME Types, NEW p \in Phones, InARow(p), NEW m \in Message, m \in sent', sent \subseteq sent',
         Learn(p, m), UNCHANGED messages, \A k \in 0..(m.key - 1) : k \in known[p]
  PROVE  /\ InARow(p)' /\ known'[p] = known[p] \cup {m.key}
         /\ known' \in [Phones -> SUBSET Nat] /\ raised' \in [Phones -> Seq(Message)]
         /\ \A q \in Phones : q # p => known'[q] = known[q] /\ raised'[q] = raised[q]
<1> DEFINE L == Len(messages[p])
           R == Len(raised[p])
<1>1. /\ L \in Nat /\ R \in Nat /\ Count(p) = L + R
      /\ raised[p] \in Seq(Message) /\ known[p] = 0..(L + R - 1)
  BY DEF Types, Count, InARow
<1>2. /\ known' = [known EXCEPT ![p] = @ \cup {m.key}]
      /\ raised' = [raised EXCEPT ![p] = @ \o Raised(p, m)]
  BY DEF Learn
<1>3. /\ \A j \in 1..L : messages[p][j] \in sent /\ messages[p][j].key = j - 1
      /\ \A j \in 1..R : raised[p][j] \in sent /\ raised[p][j].key = L + j - 1
  BY DEF InARow
<1>4. m.key \in Nat
  BY ChatAssumption DEF Message
<1>5. Raised(p, m) \in Seq(Message)
  BY DEF Raised
<1>6. /\ known'[p] = known[p] \cup {m.key} /\ raised'[p] = raised[p] \o Raised(p, m)
      /\ known' \in [Phones -> SUBSET Nat] /\ raised' \in [Phones -> Seq(Message)]
      /\ \A q \in Phones : q # p => known'[q] = known[q] /\ raised'[q] = raised[q]
  BY <1>1, <1>2, <1>4, <1>5 DEF Types
<1>7. CASE m.key \in known[p]
  <2>1. Raised(p, m) = <<>>
    BY <1>7 DEF Raised
  <2>2. known'[p] = known[p] /\ raised'[p] = raised[p]
    <3>1. known[p] \cup {m.key} = known[p]
      BY <1>7
    <3>2. raised[p] \o <<>> = raised[p]
      BY <1>1
    <3> QED
      BY <1>6, <2>1, <3>1, <3>2
  <2>3. InARow(p)'
    BY <1>1, <1>3, <2>2 DEF InARow, Count
  <2> QED
    BY <1>6, <2>3
<1>8. CASE m.key \notin known[p]
  <2>1. m.key = L + R
    <3> HIDE DEF L, R
    <3>1. m.key >= L + R
      BY <1>1, <1>4, <1>8
    <3>2. ~ (m.key > L + R)
      <4> SUFFICES ASSUME m.key > L + R  PROVE FALSE
        OBVIOUS
      <4>1. L + R \in 0..(m.key - 1)
        BY <1>1, <1>4
      <4>2. L + R \in known[p]
        BY <4>1
      <4> QED
        BY <1>1, <4>2
    <3> QED
      BY <1>1, <1>4, <3>1, <3>2
  <2>2. Raised(p, m) = <<m>>
    BY <1>8 DEF Raised
  <2>3. raised'[p] = Append(raised[p], m)
    BY <1>1, <1>6, <2>2
  <2>4. /\ Len(raised'[p]) = R + 1 /\ raised'[p][R + 1] = m
        /\ \A j \in 1..R : raised'[p][j] = raised[p][j]
    BY <1>1, <2>3, AppendFacts
  <2>5. Len(messages'[p]) = L /\ messages'[p] = messages[p]
    OBVIOUS
  <2> HIDE DEF L, R
  <2>6. known'[p] = 0..(L + (R + 1) - 1)
    <3>1. 0..(L + R - 1) \cup {L + R} = 0..(L + (R + 1) - 1)
      BY <1>1
    <3> QED
      BY <1>1, <1>6, <2>1, <3>1
  <2>7. ASSUME NEW j \in 1..(R + 1)  PROVE raised'[p][j] \in sent' /\ raised'[p][j].key = L + j - 1
    <3>1. CASE j = R + 1
      BY <1>1, <2>1, <2>4, <3>1
    <3>2. CASE j \in 1..R
      BY <1>3, <2>4, <3>2
    <3> QED
      BY <1>1, <3>1, <3>2
  <2>8. InARow(p)'
    BY <1>3, <2>4, <2>5, <2>6, <2>7 DEF InARow, Count
  <2> QED
    BY <1>6, <2>8
<1> QED
  BY <1>7, <1>8

----------------------------------------------------------------------------
(****************************** The snapshot *******************************)

\* Keys of one digit in ascending order are the numbers from 0 on.
LEMMA AscendingKeys ==
  ASSUME NEW c \in Nat, c <= Base
  PROVE  \A j \in 1..c : Ascending(0..(c - 1))[j] = j - 1
<1> DEFINE S == 0..(c - 1)
           Goes(f) == \A j, k \in 1..c : j < k => f[j] < f[k]
           h == [j \in 1..c |-> j - 1]
           f == Ascending(S)
<1>1. Cardinality(S) = c
  BY FS_Interval
<1>2. h \in [1..c -> S] /\ Goes(h)
  OBVIOUS
<1>3. f = CHOOSE g \in [1..c -> S] : \A j, k \in DOMAIN g : j < k => Precedes(g[j], g[k])
  BY <1>1 DEF Ascending
<1>4. ASSUME NEW g \in [1..c -> S]
      PROVE  Goes(g) <=> \A j, k \in DOMAIN g : j < k => Precedes(g[j], g[k])
  <2>1. DOMAIN g = 1..c /\ \A j \in 1..c : g[j] \in S
    OBVIOUS
  <2>2. \A x, y \in S : Precedes(x, y) <=> x < y
    BY ChatAssumption DEF Precedes
  <2> HIDE DEF S
  <2> QED
    BY <2>1, <2>2
<1>5. f \in [1..c -> S] /\ Goes(f)
  <2> HIDE DEF h, S, f, Goes
  <2>1. \A j, k \in DOMAIN h : j < k => Precedes(h[j], h[k])
    BY <1>2, <1>4
  <2>2. f \in [1..c -> S] /\ \A j, k \in DOMAIN f : j < k => Precedes(f[j], f[k])
    BY <1>2, <1>3, <2>1
  <2> QED
    BY <1>4, <2>2
<1> HIDE DEF f, h
<1> DEFINE Low == {d \in Nat : d < c => f[d + 1] >= d}
           High == {d \in Nat : d < c => f[c - d] <= (c - 1) - d}
<1>6. \A j \in 1..c : f[j] \in Int /\ f[j] >= 0 /\ f[j] <= c - 1
  BY <1>5
<1>7. 0 \in Low /\ 0 \in High
  BY <1>6
<1>8. ASSUME NEW d \in Nat, d \in Low  PROVE d + 1 \in Low
  <2> SUFFICES ASSUME d + 1 < c  PROVE f[(d + 1) + 1] >= d + 1
    OBVIOUS
  <2>1. d + 1 \in 1..c /\ (d + 1) + 1 \in 1..c /\ d < c
    OBVIOUS
  <2>2. f[d + 1] < f[(d + 1) + 1] /\ f[d + 1] >= d
    BY <1>5, <1>8, <2>1
  <2> QED
    BY <1>6, <2>1, <2>2
<1>9. ASSUME NEW d \in Nat, d \in High  PROVE d + 1 \in High
  <2> SUFFICES ASSUME d + 1 < c  PROVE f[c - (d + 1)] <= (c - 1) - (d + 1)
    OBVIOUS
  <2>1. c - d \in 1..c /\ c - (d + 1) \in 1..c /\ d < c /\ c - (d + 1) < c - d
    OBVIOUS
  <2>2. f[c - (d + 1)] < f[c - d] /\ f[c - d] <= (c - 1) - d
    BY <1>5, <1>9, <2>1
  <2> QED
    BY <1>6, <2>1, <2>2
<1>10. Nat \subseteq Low /\ Nat \subseteq High
  <2> HIDE DEF Low, High
  <2> QED
    BY <1>7, <1>8, <1>9, SetInduction
<1>11. ASSUME NEW j \in 1..c  PROVE f[j] = j - 1
  <2>1. j - 1 \in Nat /\ j - 1 < c /\ (j - 1) + 1 = j /\ c - j \in Nat /\ c - j < c /\ c - (c - j) = j
    OBVIOUS
  <2>2. f[j] >= j - 1
    BY <1>10, <2>1
  <2>3. f[j] <= (c - 1) - (c - j)
    BY <1>10, <2>1
  <2> QED
    BY <1>6, <2>2, <2>3
<1> QED
  BY <1>11 DEF f

\* So a snapshot tells a phone of every key, one after the other.
LEMMA SnapshotInARow ==
  ASSUME Stored, Numbered, OneDigit
  PROVE  /\ Snapshot \in Seq(Event)
         /\ \A j \in 1..Len(Snapshot) : Snapshot[j].msg \in sent /\ Snapshot[j].msg.key = j - 1 /\ ~ Snapshot[j].ack
         /\ DOMAIN chat = 0..(Len(Snapshot) - 1) /\ Len(Snapshot) \in Nat
<1>1. PICK c \in Nat : DOMAIN chat = 0..(c - 1)
  BY DEF Stored
<1>2. Cardinality(DOMAIN chat) = c
  BY <1>1, FS_Interval
<1>3. \A j \in 1..c : Ascending(DOMAIN chat)[j] = j - 1 /\ j - 1 \in DOMAIN chat
  <2>1. c <= Base
    <3>1. CASE c = 0
      BY <3>1, ChatAssumption
    <3>2. CASE c # 0
      <4>1. c - 1 \in DOMAIN chat
        BY <1>1, <3>2
      <4>2. PICK m \in sent : m.key = c - 1
        BY <4>1 DEF Stored
      <4>3. m.key < m.id /\ m.id <= Cardinality(sent) /\ m.id \in Int /\ Cardinality(sent) \in Nat
        BY ChatAssumption, FS_CardinalityType DEF Numbered, Message
      <4> QED
        BY <4>2, <4>3, ChatAssumption DEF OneDigit
    <3> QED
      BY <3>1, <3>2
  <2> QED
    BY <1>1, <2>1, AscendingKeys
<1>4. Snapshot = [j \in 1..c |-> [msg |-> chat[j - 1], ack |-> FALSE]]
  BY <1>2, <1>3 DEF Snapshot
<1>5. \A j \in 1..c : chat[j - 1] \in sent /\ chat[j - 1].key = j - 1
  BY <1>3 DEF Stored
<1> DEFINE e == [j \in 1..c |-> [msg |-> chat[j - 1], ack |-> FALSE]]
<1>6. \A j \in 1..c : e[j] \in Event /\ e[j].msg = chat[j - 1] /\ ~ e[j].ack
  BY <1>5 DEF Event, Numbered
<1>7. e \in Seq(Event) /\ Len(e) = c
  BY <1>6
<1> HIDE DEF e
<1> QED
  BY <1>1, <1>4, <1>5, <1>6, <1>7 DEF e

----------------------------------------------------------------------------
(***************** Steps that leave a phone, or a part of it, alone ********)

Grows == DOMAIN chat \subseteq DOMAIN chat' /\ sent \subseteq sent' /\ open \subseteq open'

\* What a phone owes stays right while the database grows and forgets nothing.
LEMMA OutstandingKept ==
  ASSUME NEW p \in Phones, Outstanding(p), Grows,
         unacked'[p] = unacked[p], served'[p] = served[p] \/ served'[p] = 0, Types
  PROVE  Outstanding(p)'
<1>1. served[p] \in Nat /\ Len(unacked[p]) \in Nat
  BY DEF Types
<1>2. served'[p] <= Len(unacked[p]) /\ \A j \in 1..served'[p] : j \in 1..served[p]
  BY <1>1 DEF Outstanding
<1>3. \A j \in 1..served'[p] : unacked[p][j].key \in DOMAIN chat'
  BY <1>2 DEF Outstanding, Grows
<1>4. \A j \in 1..Len(unacked[p]) : \A k \in 0..(unacked[p][j].key - 1) :
        k \in DOMAIN chat' \/ \E l \in 1..(j - 1) : unacked[p][l].key = k
  BY DEF Outstanding, Grows
<1>5. (unacked[p] # <<>> => p \in open') /\ \A j \in 1..Len(unacked[p]) : unacked[p][j] \in sent'
  BY DEF Outstanding, Grows
<1> QED
  BY <1>2, <1>3, <1>4, <1>5 DEF Outstanding

\* The lists stay in a row while they stay.
LEMMA InARowKept ==
  ASSUME NEW p \in Phones, InARow(p), Grows,
         known'[p] = known[p], messages'[p] = messages[p], raised'[p] = raised[p]
  PROVE  InARow(p)'
  BY DEF InARow, Count, Grows

\* What a phone knows stays backed.
LEMMA BackedKept ==
  ASSUME NEW p \in Phones, Backed(p), Grows, known'[p] = known[p], unacked'[p] = unacked[p]
  PROVE  Backed(p)'
  BY DEF Backed, Grows

\* What is on its way stays right while the phone only learns more.
LEMMA ComingKept ==
  ASSUME NEW p \in Phones, Coming(p), sent \subseteq sent', DOMAIN chat' = DOMAIN chat,
         known[p] \subseteq known'[p], down'[p] = down[p], served'[p] = served[p], p \in open' => p \in open
  PROVE  Coming(p)'
<1>1. Acks(p)' = Acks(p)
  BY DEF Acks
<1> QED
  BY <1>1 DEF Coming

\* No message is forgotten while the database grows.
LEMMA NotedKept ==
  ASSUME Noted, Grows, sent' = sent, unacked' = unacked
  PROVE  Noted'
  BY DEF Noted, Grows

\* A phone that begins to listen is told of everything.
LEMMA SnapshotComing ==
  ASSUME Types, Numbered, Stored, OneDigit, NEW p \in Phones, down' = [down EXCEPT ![p] = Snapshot], served'[p] = 0,
         UNCHANGED <<chat, sent>>
  PROVE  /\ Coming(p)' /\ down' \in [Phones -> Seq(Event)]
         /\ \A q \in Phones : q # p => down'[q] = down[q]
<1>1. /\ Snapshot \in Seq(Event) /\ Len(Snapshot) \in Nat /\ DOMAIN chat = 0..(Len(Snapshot) - 1)
      /\ \A j \in 1..Len(Snapshot) : Snapshot[j].msg \in sent /\ Snapshot[j].msg.key = j - 1 /\ ~ Snapshot[j].ack
  BY SnapshotInARow
<1> DEFINE s == Snapshot
           c == Len(s)
<1>2. /\ down' \in [Phones -> Seq(Event)] /\ down'[p] = s
      /\ \A q \in Phones : q # p => down'[q] = down[q]
  BY <1>1 DEF Types
<1> HIDE DEF s
<1>3. /\ c \in Nat /\ DOMAIN chat = 0..(c - 1)
      /\ \A j \in 1..c : s[j].msg \in sent /\ s[j].msg.key = j - 1 /\ ~ s[j].ack
  BY <1>1 DEF s
<1>4. Acks(p)' = {}
  BY <1>2, <1>3 DEF Acks
<1>5. Cardinality(Acks(p)') = 0
  BY <1>4, FS_EmptySet
<1> HIDE DEF c
<1>6. ASSUME NEW j \in 1..c, NEW k \in 0..(j - 1 - 1)  PROVE \E l \in 1..(j - 1) : s[l].msg.key = k
  <2>1. k + 1 \in 1..(j - 1) /\ k + 1 \in 1..c /\ (k + 1) - 1 = k
    BY <1>3
  <2> QED
    BY <1>3, <2>1
<1>7. ASSUME NEW k \in 0..(c - 1)  PROVE \E l \in 1..c : s[l].msg.key = k
  <2>1. k + 1 \in 1..c /\ (k + 1) - 1 = k
    BY <1>3
  <2> QED
    BY <1>3, <2>1
<1> DEFINE d == down'[p]
<1>8. /\ Len(d) = c /\ DOMAIN chat' = 0..(c - 1)
      /\ \A j \in 1..c : d[j].msg \in sent' /\ d[j].msg.key = j - 1 /\ j - 1 \in DOMAIN chat'
      /\ \A k \in 0..(c - 1) : \E l \in 1..c : d[l].msg.key = k
      /\ \A j \in 1..c : \A k \in 0..(j - 1 - 1) : \E l \in 1..(j - 1) : d[l].msg.key = k
  BY <1>2, <1>3, <1>6, <1>7 DEF c
<1> HIDE DEF d
<1>9. /\ \A j \in 1..Len(d) : d[j].msg \in sent' /\ d[j].msg.key \in DOMAIN chat'
      /\ \A j \in 1..Len(d) : \A k \in 0..(d[j].msg.key - 1) : \E l \in 1..(j - 1) : d[l].msg.key = k
      /\ \A k \in DOMAIN chat' : \E j \in 1..Len(d) : d[j].msg.key = k
  <2>1. ASSUME NEW j \in 1..Len(d)  PROVE d[j].msg \in sent' /\ d[j].msg.key \in DOMAIN chat'
    <3>1. j \in 1..c
      BY <1>8
    <3>2. d[j].msg \in sent'
      BY <1>8, <3>1
    <3>3. d[j].msg.key = j - 1 /\ j - 1 \in DOMAIN chat'
      BY <1>8, <3>1
    <3> QED
      BY <3>2, <3>3
  <2>2. ASSUME NEW j \in 1..Len(d), NEW k \in 0..(d[j].msg.key - 1)  PROVE \E l \in 1..(j - 1) : d[l].msg.key = k
    <3>1. j \in 1..c
      BY <1>8
    <3>2. d[j].msg.key = j - 1
      BY <1>8, <3>1
    <3>3. k \in 0..(j - 1 - 1)
      BY <3>2
    <3>4. \E l \in 1..(j - 1) : s[l].msg.key = k
      BY <1>6, <3>1, <3>3
    <3> QED
      BY <1>2, <3>4 DEF d
  <2>3. \A k \in DOMAIN chat' : \E j \in 1..Len(d) : d[j].msg.key = k
    BY <1>8
  <2> QED
    BY <2>1, <2>2, <2>3
<1>10. Coming(p)'
  BY <1>5, <1>9 DEF Coming, d
<1> QED
  BY <1>2, <1>10

----------------------------------------------------------------------------
(******************************* The steps *********************************)

\* At first there is nothing.
LEMMA InitChatInv == Init => ChatInv
<1> SUFFICES ASSUME Init PROVE ChatInv
  OBVIOUS
<1> USE DEF Init
<1>1. /\ Types /\ Noted
  BY DEF Types, Noted
<1>2. Numbered
  BY ChatAssumption, FS_EmptySet DEF Numbered
<1>3. Stored
  <2>1. DOMAIN chat = 0..(0 - 1)
    OBVIOUS
  <2> QED
    BY <2>1 DEF Stored
<1>4. ASSUME NEW p \in Phones  PROVE Outstanding(p) /\ InARow(p) /\ Backed(p) /\ Coming(p)
  <2>1. /\ unacked[p] = <<>> /\ served[p] = 0 /\ down[p] = <<>> /\ known[p] = {}
        /\ raised[p] = <<>> /\ messages[p] = <<>> /\ p \notin open
    OBVIOUS
  <2>2. Outstanding(p) /\ Backed(p)
    BY <2>1 DEF Outstanding, Backed
  <2>3. InARow(p)
    BY <2>1 DEF InARow, Count
  <2>4. Acks(p) = {}
    BY <2>1 DEF Acks
  <2>5. Coming(p)
    BY <2>1, <2>4, FS_EmptySet DEF Coming
  <2> QED
    BY <2>2, <2>3, <2>5
<1> QED
  BY <1>1, <1>2, <1>3, <1>4 DEF ChatInv

\* A screen that opens is told of everything, and owes nothing.
LEMMA OpenScreenOK ==
  ASSUME ChatInv, OneDigit, NEW p \in Phones, OpenScreen(p)
  PROVE  ChatInv'
<1> USE DEF OpenScreen
<1>1. Grows
  BY DEF Grows
<1>2. served'[p] = 0 /\ served' = served
  <2>1. unacked[p] = <<>> /\ served[p] \in Nat /\ served[p] <= Len(unacked[p])
    BY DEF ChatInv, Outstanding, Types
  <2> QED
    BY <2>1
<1>3. /\ Coming(p)' /\ down' \in [Phones -> Seq(Event)]
      /\ \A q \in Phones : q # p => down'[q] = down[q]
  BY <1>2, SnapshotComing DEF ChatInv
<1>4. Types'
  BY <1>3 DEF ChatInv, Types
<1>5. Numbered' /\ Stored' /\ Noted'
  BY <1>1, NotedKept DEF ChatInv, Numbered, Stored
<1>6. ASSUME NEW q \in Phones  PROVE Outstanding(q)' /\ InARow(q)' /\ Backed(q)' /\ Coming(q)'
  <2>1. Outstanding(q)' /\ InARow(q)' /\ Backed(q)'
    BY <1>1, OutstandingKept, InARowKept, BackedKept DEF ChatInv
  <2>2. q # p => Coming(q)'
    BY <1>3, ComingKept DEF ChatInv
  <2> QED
    BY <1>3, <2>1, <2>2
<1> QED
  BY <1>4, <1>5, <1>6 DEF ChatInv

\* So is a phone with a new connection; what it owes it writes again.
LEMMA ReconnectOK ==
  ASSUME ChatInv, OneDigit, NEW p \in Phones, Reconnect(p)
  PROVE  ChatInv'
<1> USE DEF Reconnect, Lost
<1>1. Grows
  BY DEF Grows
<1>2. /\ served' \in [Phones -> Nat] /\ served'[p] = 0
      /\ \A q \in Phones : q # p => served'[q] = served[q]
  BY DEF ChatInv, Types
<1>3. /\ Coming(p)' /\ down' \in [Phones -> Seq(Event)]
      /\ \A q \in Phones : q # p => down'[q] = down[q]
  BY <1>2, SnapshotComing DEF ChatInv
<1>4. Types'
  BY <1>2, <1>3 DEF ChatInv, Types
<1>5. Numbered' /\ Stored' /\ Noted'
  BY <1>1, NotedKept DEF ChatInv, Numbered, Stored
<1>6. ASSUME NEW q \in Phones  PROVE Outstanding(q)' /\ InARow(q)' /\ Backed(q)' /\ Coming(q)'
  <2>1. Outstanding(q)' /\ InARow(q)' /\ Backed(q)'
    BY <1>1, <1>2, OutstandingKept, InARowKept, BackedKept DEF ChatInv
  <2>2. q # p => Coming(q)'
    BY <1>2, <1>3, ComingKept DEF ChatInv
  <2> QED
    BY <1>3, <2>1, <2>2
<1> QED
  BY <1>4, <1>5, <1>6 DEF ChatInv

\* The listener moves a message from what is raised to what is listed.
LEMMA ChildAddedOK ==
  ASSUME ChatInv, NEW p \in Phones, ChildAdded(p)
  PROVE  ChatInv'
<1>1. /\ Grows /\ sent' = sent /\ known' = known
      /\ UNCHANGED <<chat, open, unacked, served, down, drops>>
  BY DEF Grows, ChildAdded
<1> DEFINE m == Head(raised[p])
           L == Len(messages[p])
           R == Len(raised[p])
<1>2. /\ raised[p] \in Seq(Message) /\ raised[p] # <<>> /\ messages[p] \in Seq(Message)
      /\ \A j \in 1..L : messages[p][j] \in sent /\ messages[p][j].key = j - 1
      /\ \A j \in 1..R : raised[p][j] \in sent /\ raised[p][j].key = L + j - 1
      /\ known[p] = 0..(L + R - 1)
  BY DEF ChatInv, Types, InARow, Count, ChildAdded
<1>3. /\ m = raised[p][1] /\ m \in Message /\ L \in Nat /\ R \in Nat \ {0}
      /\ Tail(raised[p]) \in Seq(Message) /\ Len(Tail(raised[p])) = R - 1
      /\ \A j \in 1..(R - 1) : Tail(raised[p])[j] = raised[p][j + 1]
  BY <1>2, TailFacts
<1> HIDE DEF m
<1>4. /\ Append(messages[p], m) \in Seq(Message) /\ Len(Append(messages[p], m)) = L + 1
      /\ Append(messages[p], m)[L + 1] = m
      /\ \A j \in 1..L : Append(messages[p], m)[j] = messages[p][j]
  BY <1>2, <1>3, AppendFacts
<1>5. /\ raised'[p] = Tail(raised[p]) /\ messages'[p] = Append(messages[p], m)
      /\ raised' \in [Phones -> Seq(Message)] /\ messages' \in [Phones -> Seq(Message)]
      /\ \A q \in Phones : q # p => raised'[q] = raised[q] /\ messages'[q] = messages[q]
  BY <1>3, <1>4 DEF ChatInv, Types, m, ChildAdded
<1> DEFINE r == raised'[p]
           l == messages'[p]
<1>10. /\ Len(l) = L + 1 /\ Len(r) = R - 1 /\ l[L + 1] = raised[p][1]
       /\ \A j \in 1..L : l[j] = messages[p][j]
       /\ \A j \in 1..(R - 1) : r[j] = raised[p][j + 1]
  BY <1>3, <1>4, <1>5
<1> HIDE DEF L, R, l, r
<1>6. InARow(p)'
  <2>1. ASSUME NEW j \in 1..(L + 1)  PROVE l[j] \in sent /\ l[j].key = j - 1
    <3>1. CASE j = L + 1
      <4>1. l[j] = raised[p][1] /\ 1 \in 1..R
        BY <1>3, <1>10, <3>1
      <4> QED
        BY <1>2, <1>3, <3>1, <4>1
    <3>2. CASE j \in 1..L
      BY <1>2, <1>10, <3>2
    <3> QED
      BY <1>3, <3>1, <3>2
  <2>2. ASSUME NEW j \in 1..(R - 1)  PROVE r[j] \in sent /\ r[j].key = (L + 1) + j - 1
    <3>1. r[j] = raised[p][j + 1] /\ j + 1 \in 1..R
      BY <1>3, <1>10
    <3> QED
      BY <1>2, <1>3, <3>1
  <2>3. known'[p] = 0..((L + 1) + (R - 1) - 1)
    <3>1. (L + 1) + (R - 1) - 1 = L + R - 1
      BY <1>3
    <3> QED
      BY <1>1, <1>2, <3>1
  <2> QED
    BY <1>1, <1>10, <2>1, <2>2, <2>3 DEF InARow, Count, l, r
<1>7. Types'
  BY <1>1, <1>5 DEF ChatInv, Types
<1>8. Numbered' /\ Stored' /\ Noted'
  BY <1>1, NotedKept DEF ChatInv, Numbered, Stored
<1>9. ASSUME NEW q \in Phones  PROVE Outstanding(q)' /\ InARow(q)' /\ Backed(q)' /\ Coming(q)'
  <2>1. Outstanding(q)' /\ Backed(q)' /\ Coming(q)'
    BY <1>1, OutstandingKept, BackedKept, ComingKept DEF ChatInv
  <2>2. q # p => InARow(q)'
    BY <1>1, <1>5, InARowKept DEF ChatInv
  <2> QED
    BY <1>6, <2>1, <2>2
<1> QED
  BY <1>7, <1>8, <1>9 DEF ChatInv

\* A new message has the first key its sender knows nothing of.
LEMMA SendOK ==
  ASSUME ChatInv, NEW p \in Phones, Send(p)
  PROVE  ChatInv'
<1> DEFINE n == Cardinality(sent)
           L == Len(messages[p])
           R == Len(raised[p])
           u == unacked[p]
           m == [id |-> n + 1, by |-> p, key |-> NextKey(p),
                 heard |-> {messages[p][i].id : i \in DOMAIN messages[p]}]
<1>1. /\ p \in open /\ n < MaxSends /\ sent' = sent \cup {m}
      /\ unacked' = [unacked EXCEPT ![p] = Append(@, m)] /\ Learn(p, m)
      /\ UNCHANGED <<chat, open, served, down, messages, drops>>
  BY DEF Send
<1>2. Types /\ Numbered /\ Stored /\ Noted /\ Outstanding(p) /\ InARow(p) /\ Backed(p) /\ Coming(p)
  BY DEF ChatInv
<1>3. /\ n \in Nat /\ L \in Nat /\ R \in Nat /\ L + R <= n /\ MaxSends \in Nat
      /\ DOMAIN messages[p] = 1..L /\ u \in Seq(Message) /\ known[p] = 0..(L + R - 1)
      /\ \A j \in 1..L : messages[p][j] \in sent /\ messages[p][j].key = j - 1
  <2>1. Count(p) \in Nat /\ Count(p) <= n /\ n \in Nat
    BY <1>2, CountBound
  <2>2. messages[p] \in Seq(Message) /\ raised[p] \in Seq(Message) /\ u \in Seq(Message)
    BY <1>2 DEF Types
  <2>3. L \in Nat /\ R \in Nat /\ DOMAIN messages[p] = 1..L /\ Count(p) = L + R
    BY <2>2 DEF Count
  <2>4. /\ known[p] = 0..(Count(p) - 1)
        /\ \A j \in 1..L : messages[p][j] \in sent /\ messages[p][j].key = j - 1
    BY <1>2 DEF InARow
  <2>5. MaxSends \in Nat
    BY ChatAssumption
  <2> HIDE DEF L, R, n, u
  <2> QED
    BY <2>1, <2>2, <2>3, <2>4, <2>5
<1>4. m.id = n + 1 /\ m.by = p /\ m.key = L /\ m.heard = {messages[p][i].id : i \in 1..L}
  BY <1>3 DEF NextKey
<1>5. m \in Message
  <2>1. \A i \in 1..L : messages[p][i].id \in 1..MaxSends
    BY <1>2, <1>3 DEF Numbered, Message
  <2>2. m.heard \subseteq 1..MaxSends
    BY <1>4, <2>1
  <2>3. n + 1 \in 1..MaxSends /\ L \in 0..MaxSends
    <3> HIDE DEF n, L, R, u, m
    <3> QED
      BY <1>1, <1>3
  <2> QED
    BY <1>3, <2>2, <2>3 DEF Message, NextKey
<1> HIDE DEF m, n, L, R
<1>6. Numbered'
  <2>1. m \notin sent
    BY <1>2, <1>3, <1>4 DEF Numbered, n
  <2>2. IsFiniteSet(sent') /\ Cardinality(sent') = n + 1
    BY <1>1, <1>2, <2>1, FS_AddElement DEF Numbered, n
  <2>3. /\ sent' \subseteq Message /\ n + 1 <= MaxSends
        /\ \A x \in sent' : x.key < x.id /\ x.id <= n + 1
    <3>1. \A x \in sent : x.key < x.id /\ x.id <= n /\ x \in Message /\ x.id \in Int
      BY <1>2, ChatAssumption DEF Numbered, Message, n
    <3> QED
      BY <1>1, <1>3, <1>4, <1>5, <3>1
  <2>4. ASSUME NEW x \in sent', NEW y \in sent', x.id = y.id  PROVE x = y
    <3>1. \A z \in sent : z.id # m.id
      BY <1>2, <1>3, <1>4 DEF Numbered, n, Message
    <3> QED
      BY <1>1, <1>2, <2>4, <3>1 DEF Numbered
  <2>5. ASSUME NEW x \in sent', NEW h \in x.heard  PROVE \E o \in sent' : o.id = h /\ o.key < x.key
    <3>1. CASE x \in sent
      BY <1>1, <1>2, <2>5, <3>1 DEF Numbered
    <3>2. CASE x = m
      <4>1. PICK i \in 1..L : h = messages[p][i].id
        BY <1>4, <2>5, <3>2
      <4>2. messages[p][i] \in sent /\ messages[p][i].key < m.key
        BY <1>3, <1>4
      <4> QED
        BY <1>1, <3>2, <4>1, <4>2
    <3> QED
      BY <1>1, <2>5, <3>1, <3>2
  <2> QED
    BY <2>2, <2>3, <2>4, <2>5 DEF Numbered
<1>7. /\ Grows /\ m \in sent' /\ sent \subseteq sent'
  BY <1>1 DEF Grows
<1>8. \A k \in 0..(m.key - 1) : k \in known[p]
  BY <1>3, <1>4
<1>9. /\ InARow(p)' /\ known'[p] = known[p] \cup {m.key}
      /\ known' \in [Phones -> SUBSET Nat] /\ raised' \in [Phones -> Seq(Message)]
      /\ \A q \in Phones : q # p => known'[q] = known[q] /\ raised'[q] = raised[q]
  BY <1>1, <1>2, <1>5, <1>7, <1>8, LearnsInARow
<1>10. /\ unacked' \in [Phones -> Seq(Message)] /\ unacked'[p] = Append(u, m)
       /\ \A q \in Phones : q # p => unacked'[q] = unacked[q]
  BY <1>1, <1>2, <1>5 DEF Types
<1> DEFINE v == unacked'[p]
           U == Len(u)
<1>11. /\ v \in Seq(Message) /\ U \in Nat /\ Len(v) = U + 1 /\ v[U + 1] = m
       /\ \A j \in 1..U : v[j] = u[j]
  BY <1>3, <1>5, <1>10, AppendFacts
<1>12. /\ served[p] \in Nat /\ served[p] <= U
       /\ \A j \in 1..U : u[j] \in sent
       /\ \A j \in 1..U : \A k \in 0..(u[j].key - 1) : k \in DOMAIN chat \/ \E l \in 1..(j - 1) : u[l].key = k
       /\ \A j \in 1..served[p] : u[j].key \in DOMAIN chat
       /\ \A k \in known[p] : k \in DOMAIN chat \/ \E j \in 1..U : u[j].key = k
  BY <1>2 DEF Types, Outstanding, Backed
<1> HIDE DEF u, v, U
<1>13. Outstanding(p)'
  <2>1. ASSUME NEW j \in 1..(U + 1)  PROVE v[j] \in sent'
    BY <1>7, <1>11, <1>12
  <2>2. ASSUME NEW j \in 1..(U + 1), NEW k \in 0..(v[j].key - 1)
        PROVE  k \in DOMAIN chat \/ \E l \in 1..(j - 1) : v[l].key = k
    <3>1. CASE j \in 1..U
      BY <1>11, <1>12, <3>1
    <3>2. CASE j = U + 1
      BY <1>8, <1>11, <1>12, <3>2
    <3> QED
      BY <1>11, <3>1, <3>2
  <2>3. \A j \in 1..served[p] : v[j].key \in DOMAIN chat
    BY <1>11, <1>12
  <2>4. served[p] <= U + 1
    BY <1>11, <1>12
  <2> QED
    BY <1>1, <1>11, <2>1, <2>2, <2>3, <2>4 DEF Outstanding, v
<1>14. Backed(p)'
  <2>1. \A k \in known'[p] : k \in DOMAIN chat \/ \E j \in 1..(U + 1) : v[j].key = k
    BY <1>9, <1>11, <1>12
  <2> QED
    BY <1>1, <1>11, <2>1 DEF Backed, v
<1>15. Noted'
  <2>1. ASSUME NEW x \in sent, NEW q \in Phones, NEW j \in 1..Len(unacked[q]), unacked[q][j] = x
        PROVE  \E i \in 1..Len(unacked'[q]) : unacked'[q][i] = x
    <3>1. CASE q = p
      <4>1. j \in 1..(U + 1) /\ v[j] = x
        BY <1>11, <2>1, <3>1 DEF U, u
      <4> QED
        BY <1>11, <3>1, <4>1 DEF v
    <3>2. CASE q # p
      BY <1>10, <2>1, <3>2
    <3> QED
      BY <3>1, <3>2
  <2>2. \E i \in 1..Len(unacked'[p]) : unacked'[p][i] = m
    <3>1. U + 1 \in 1..(U + 1)
      BY <1>11
    <3> QED
      BY <1>11, <3>1 DEF v
  <2> QED
    BY <1>1, <1>2, <2>1, <2>2 DEF Noted
<1>16. Types'
  BY <1>1, <1>2, <1>9, <1>10 DEF Types
<1>17. Stored'
  BY <1>1, <1>2, <1>7 DEF Stored
<1>18. ASSUME NEW q \in Phones  PROVE Outstanding(q)' /\ InARow(q)' /\ Backed(q)' /\ Coming(q)'
  <2>1. Outstanding(q) /\ InARow(q) /\ Backed(q) /\ Coming(q) /\ known[q] \subseteq known'[q]
    BY <1>9 DEF ChatInv
  <2>2. Coming(q)'
    BY <1>1, <1>7, <2>1, ComingKept
  <2>3. CASE q # p
    <3>1. /\ unacked'[q] = unacked[q] /\ served'[q] = served[q] /\ known'[q] = known[q]
          /\ messages'[q] = messages[q] /\ raised'[q] = raised[q]
      BY <1>1, <1>9, <1>10, <2>3
    <3>2. Outstanding(q)'
      BY <1>2, <1>7, <2>1, <3>1, OutstandingKept
    <3>3. InARow(q)' /\ Backed(q)'
      BY <1>7, <2>1, <3>1, InARowKept, BackedKept
    <3> QED
      BY <2>2, <3>2, <3>3
  <2> QED
    BY <1>9, <1>13, <1>14, <2>2, <2>3
<1> QED
  BY <1>6, <1>15, <1>16, <1>17, <1>18 DEF ChatInv

\* The positions of the acknowledgements under way are finitely many.
LEMMA AcksFinite ==
  ASSUME Types, NEW p \in Phones
  PROVE  IsFiniteSet(Acks(p)) /\ Cardinality(Acks(p)) \in Nat
<1>1. Len(down[p]) \in Nat
  BY DEF Types
<1>2. IsFiniteSet(1..Len(down[p]))
  BY <1>1, FS_Interval
<1>3. Acks(p) \subseteq 1..Len(down[p])
  BY DEF Acks
<1> QED
  BY <1>2, <1>3, FS_Subset, FS_CardinalityType

\* A message under a key of the database or the next one, told to an open phone.
LEMMA AppendComing ==
  ASSUME Types, NEW q \in Phones, q \in open, Coming(q), NEW e \in Event, e.msg \in sent,
         down'[q] = Append(down[q], e), DOMAIN chat' = DOMAIN chat \cup {e.msg.key},
         \A k \in 0..(e.msg.key - 1) : k \in DOMAIN chat,
         UNCHANGED <<open, known, sent>>, served'[q] = served[q] + (IF e.ack THEN 1 ELSE 0)
  PROVE  Coming(q)'
<1> DEFINE d == down[q]
           b == down'[q]
           D == Len(d)
<1>1. d \in Seq(Event) /\ D \in Nat
  BY DEF Types
<1>2. Len(b) = D + 1 /\ b[D + 1] = e /\ \A j \in 1..D : b[j] = d[j]
  BY <1>1, AppendFacts
<1>3. /\ \A j \in 1..D : d[j].msg \in sent /\ d[j].msg.key \in DOMAIN chat
      /\ \A j \in 1..D : \A k \in 0..(d[j].msg.key - 1) :
           k \in known[q] \/ \E l \in 1..(j - 1) : d[l].msg.key = k
      /\ \A k \in DOMAIN chat : k \in known[q] \/ \E j \in 1..D : d[j].msg.key = k
      /\ Cardinality(Acks(q)) = served[q]
  BY DEF Coming
<1>4. Acks(q) = {j \in 1..D : d[j].ack} /\ Acks(q)' = {j \in 1..Len(b) : b[j].ack}
  BY DEF Acks
<1>5. e.ack \in BOOLEAN
  BY DEF Event
<1> HIDE DEF d, b, D
<1>6. \A j \in 1..Len(b) : b[j].msg \in sent /\ b[j].msg.key \in DOMAIN chat'
  BY <1>1, <1>2, <1>3
<1>7. ASSUME NEW j \in 1..Len(b), NEW k \in 0..(b[j].msg.key - 1)
      PROVE  k \in known[q] \/ \E l \in 1..(j - 1) : b[l].msg.key = k
  <2>1. CASE j \in 1..D
    <3>1. b[j] = d[j]
      BY <1>2, <2>1
    <3>2. k \in 0..(d[j].msg.key - 1)
      BY <3>1
    <3>3. \A l \in 1..(j - 1) : b[l] = d[l]
      BY <1>1, <1>2, <2>1
    <3> QED
      BY <1>3, <2>1, <3>2, <3>3
  <2>2. CASE j = D + 1
    <3>1. k \in DOMAIN chat /\ j - 1 = D
      BY <1>1, <1>2, <2>2
    <3> QED
      BY <1>2, <1>3, <3>1
  <2> QED
    BY <1>1, <1>2, <2>1, <2>2
<1>8. ASSUME NEW k \in DOMAIN chat'  PROVE k \in known[q] \/ \E j \in 1..Len(b) : b[j].msg.key = k
  <2>1. CASE k \in DOMAIN chat
    <3>1. \A j \in 1..D : j \in 1..Len(b) /\ b[j] = d[j]
      BY <1>1, <1>2
    <3> QED
      BY <1>3, <2>1, <3>1
  <2>2. CASE k = e.msg.key
    <3>1. D + 1 \in 1..Len(b)
      BY <1>1, <1>2
    <3> QED
      BY <1>2, <2>2, <3>1
  <2> QED
    BY <2>1, <2>2
<1>9. Cardinality(Acks(q)') = served'[q]
  <2>1. IsFiniteSet(Acks(q)) /\ served[q] \in Nat
    BY AcksFinite, <1>3
  <2>2. D + 1 \notin Acks(q)
    BY <1>1, <1>4
  <2>3. CASE e.ack
    <3>1. Acks(q)' = Acks(q) \cup {D + 1}
      BY <1>1, <1>2, <1>4, <2>3
    <3>2. Cardinality(Acks(q)') = Cardinality(Acks(q)) + 1
      BY <2>1, <2>2, <3>1, FS_AddElement
    <3> QED
      BY <1>3, <2>3, <3>2
  <2>4. CASE ~ e.ack
    <3>1. Acks(q)' = Acks(q)
      BY <1>1, <1>2, <1>4, <2>4
    <3> QED
      BY <1>3, <2>1, <2>4, <3>1
  <2> QED
    BY <2>3, <2>4
<1> QED
  BY <1>6, <1>7, <1>8, <1>9 DEF Coming, b

\* A write has a key of the database, or the first one after them.
LEMMA ServeOK ==
  ASSUME ChatInv, NEW p \in Phones, Serve(p)
  PROVE  ChatInv'
<1> DEFINE u == unacked[p]
           i == served[p] + 1
           m == u[i]
           E(q) == [msg |-> m, ack |-> q = p]
<1>1. /\ served[p] < Len(u) /\ served' = [served EXCEPT ![p] = @ + 1]
      /\ chat' = [k \in DOMAIN chat \cup {m.key} |-> IF k = m.key THEN m ELSE chat[k]]
      /\ down' = [q \in Phones |-> IF q \in open THEN Append(down[q], E(q)) ELSE down[q]]
      /\ UNCHANGED <<open, unacked, known, raised, messages, drops, sent>>
  BY DEF Serve
<1>2. Types /\ Numbered /\ Stored /\ Noted /\ Outstanding(p)
  BY DEF ChatInv
<1>3. /\ u \in Seq(Message) /\ Len(u) \in Nat /\ served[p] \in Nat
  BY <1>2 DEF Types
<1>4. /\ u # <<>> => p \in open
      /\ \A j \in 1..Len(u) : u[j] \in sent
      /\ \A j \in 1..Len(u) : \A k \in 0..(u[j].key - 1) : k \in DOMAIN chat \/ \E l \in 1..(j - 1) : u[l].key = k
      /\ \A j \in 1..served[p] : u[j].key \in DOMAIN chat
  BY <1>2 DEF Outstanding
<1>5. p \in open
  BY <1>1, <1>3, <1>4
<1> HIDE DEF u
<1>6. i \in 1..Len(u) /\ i - 1 = served[p]
  BY <1>1, <1>3
<1>7. m \in sent /\ m \in Message /\ m.key \in Nat
  BY <1>2, <1>4, <1>6, ChatAssumption DEF Numbered, Message
<1>8. \A k \in 0..(m.key - 1) : k \in DOMAIN chat
  BY <1>4, <1>6
<1> HIDE DEF m, i
<1>9. DOMAIN chat' = DOMAIN chat \cup {m.key} /\ Grows
  BY <1>1 DEF Grows
<1>10. Stored'
  <2>1. PICK c \in Nat : DOMAIN chat = 0..(c - 1)
    BY <1>2 DEF Stored
  <2>2. m.key <= c
    <3> SUFFICES ASSUME m.key > c  PROVE FALSE
      BY <1>7
    <3>1. c \in 0..(m.key - 1)
      BY <1>7
    <3> QED
      BY <1>8, <2>1, <3>1
  <2>6. \A k \in DOMAIN chat' : chat'[k] \in sent' /\ chat'[k].key = k
    BY <1>1, <1>2, <1>7, <1>9 DEF Stored
  <2>3. CASE m.key = c
    <3>1. DOMAIN chat' = 0..((c + 1) - 1)
      <4>1. 0..(c - 1) \cup {c} = 0..((c + 1) - 1)
        OBVIOUS
      <4> QED
        BY <1>9, <2>1, <2>3, <4>1
    <3> QED
      BY <2>6, <3>1 DEF Stored
  <2>4. CASE m.key < c
    <3>1. DOMAIN chat' = 0..(c - 1)
      BY <1>7, <1>9, <2>1, <2>4
    <3> QED
      BY <2>6, <3>1 DEF Stored
  <2> QED
    BY <1>7, <2>2, <2>3, <2>4
<1>11. \A q \in Phones : E(q) \in Event /\ E(q).msg = m /\ E(q).ack = (q = p)
  BY <1>7 DEF Event
<1> HIDE DEF E
<1>12. /\ down' \in [Phones -> Seq(Event)]
       /\ \A q \in Phones : q \in open => down'[q] = Append(down[q], E(q))
       /\ \A q \in Phones : q \notin open => down'[q] = down[q]
  <2>1. \A q \in Phones : down[q] \in Seq(Event)
    BY <1>2 DEF Types
  <2>2. \A q \in Phones : Append(down[q], E(q)) \in Seq(Event)
    BY <1>11, <2>1, AppendFacts
  <2> QED
    BY <1>1, <2>1, <2>2
<1>13. /\ served' \in [Phones -> Nat] /\ served'[p] = served[p] + 1
       /\ \A q \in Phones : q # p => served'[q] = served[q]
  BY <1>1, <1>2 DEF Types
<1>14. Types'
  BY <1>1, <1>2, <1>12, <1>13 DEF Types
<1>15. Numbered' /\ Noted'
  BY <1>1, <1>2, <1>9, NotedKept DEF Numbered
<1>16. Outstanding(p)'
  <2>1. \A j \in 1..(served[p] + 1) : j = i \/ j \in 1..served[p]
    BY <1>3 DEF i
  <2>2. \A j \in 1..(served[p] + 1) : u[j].key \in DOMAIN chat'
    BY <1>4, <1>9, <2>1 DEF m
  <2>3. served[p] + 1 <= Len(u)
    BY <1>1, <1>3
  <2>4. unacked'[p] = u
    BY <1>1 DEF u
  <2> QED
    BY <1>1, <1>4, <1>5, <1>9, <1>13, <2>2, <2>3, <2>4 DEF Outstanding, Grows
<1>17. ASSUME NEW q \in Phones  PROVE Coming(q)'
  <2>1. Coming(q)
    BY DEF ChatInv
  <2>2. CASE q \in open
    <3>1. served'[q] = served[q] + (IF E(q).ack THEN 1 ELSE 0)
      <4>1. served[q] \in Nat
        BY <1>2 DEF Types
      <4>2. CASE q = p
        <5>1. E(q).ack
          BY <1>11, <4>2
        <5> QED
          BY <1>13, <4>1, <4>2, <5>1
      <4>3. CASE q # p
        <5>1. ~ E(q).ack
          BY <1>11, <4>3
        <5> QED
          BY <1>13, <4>1, <4>3, <5>1
      <4> QED
        BY <4>2, <4>3
    <3>2. E(q) \in Event /\ E(q).msg = m /\ down'[q] = Append(down[q], E(q))
      BY <1>11, <1>12, <2>2
    <3> QED
      BY <1>1, <1>2, <1>7, <1>8, <1>9, <2>1, <2>2, <3>1, <3>2, AppendComing
  <2>3. CASE q \notin open
    <3>1. down'[q] = down[q] /\ served'[q] = served[q] /\ known'[q] = known[q] /\ q \notin open'
      BY <1>1, <1>5, <1>12, <1>13, <2>3
    <3>2. Acks(q)' = Acks(q)
      BY <3>1 DEF Acks
    <3> QED
      BY <1>9, <2>1, <3>1, <3>2 DEF Coming, Grows
  <2> QED
    BY <2>2, <2>3
<1>18. ASSUME NEW q \in Phones  PROVE Outstanding(q)' /\ InARow(q)' /\ Backed(q)'
  <2>1. Outstanding(q) /\ InARow(q) /\ Backed(q)
    BY DEF ChatInv
  <2>2. InARow(q)' /\ Backed(q)'
    BY <1>1, <1>9, <2>1, InARowKept, BackedKept
  <2>3. CASE q # p
    BY <1>1, <1>2, <1>9, <1>13, <2>1, <2>2, <2>3, OutstandingKept
  <2> QED
    BY <1>16, <2>2, <2>3
<1> QED
  BY <1>10, <1>14, <1>15, <1>17, <1>18 DEF ChatInv

\* A phone that hears the first of what is under way knows it then; what is
\* left has one acknowledgement less, if that was one.
LEMMA TailComing ==
  ASSUME Types, NEW p \in Phones, Coming(p), down[p] # <<>>, down'[p] = Tail(down[p]),
         known'[p] = known[p] \cup {Head(down[p]).msg.key}, UNCHANGED <<chat, open, sent>>,
         served'[p] = served[p] - (IF Head(down[p]).ack THEN 1 ELSE 0)
  PROVE  Coming(p)'
<1> DEFINE d == down[p]
           b == down'[p]
           D == Len(d)
<1>1. /\ d \in Seq(Event) /\ D \in Nat \ {0} /\ Len(b) = D - 1 /\ Head(d) = d[1]
      /\ \A j \in 1..(D - 1) : b[j] = d[j + 1]
  <2>1. d \in Seq(Event)
    BY DEF Types
  <2> QED
    BY <2>1, TailFacts
<1>2. /\ \A j \in 1..D : d[j].msg \in sent /\ d[j].msg.key \in DOMAIN chat
      /\ \A j \in 1..D : \A k \in 0..(d[j].msg.key - 1) :
           k \in known[p] \/ \E l \in 1..(j - 1) : d[l].msg.key = k
      /\ p \in open => \A k \in DOMAIN chat : k \in known[p] \/ \E j \in 1..D : d[j].msg.key = k
      /\ Cardinality(Acks(p)) = served[p]
  BY DEF Coming
<1>3. Acks(p) = {j \in 1..D : d[j].ack} /\ Acks(p)' = {j \in 1..Len(b) : b[j].ack}
  BY DEF Acks
<1> HIDE DEF b, D
<1>4. known'[p] = known[p] \cup {d[1].msg.key}
  BY <1>1
<1>5. served'[p] = served[p] - (IF d[1].ack THEN 1 ELSE 0)
  BY <1>1
<1> HIDE DEF d
<1>6. ASSUME NEW n \in Nat, n <= D, NEW k, k \in known[p] \/ \E l \in 1..n : d[l].msg.key = k
      PROVE  k \in known'[p] \/ \E l \in 1..(n - 1) : b[l].msg.key = k
  <2>1. CASE k \in known[p]
    BY <1>4, <2>1
  <2>2. ASSUME NEW l \in 1..n, d[l].msg.key = k
        PROVE  k \in known'[p] \/ \E i \in 1..(n - 1) : b[i].msg.key = k
    <3>1. CASE l = 1
      BY <1>4, <2>2, <3>1
    <3>2. CASE l # 1
      <4>1. l - 1 \in 1..(n - 1) /\ l - 1 \in 1..(D - 1) /\ (l - 1) + 1 = l
        BY <1>1, <1>6, <3>2
      <4>2. b[l - 1] = d[l]
        BY <1>1, <4>1
      <4> QED
        BY <2>2, <4>1, <4>2
    <3> QED
      BY <3>1, <3>2
  <2> QED
    BY <1>6, <2>1, <2>2
<1>7. \A j \in 1..Len(b) : b[j].msg \in sent /\ b[j].msg.key \in DOMAIN chat
  <2> SUFFICES ASSUME NEW j \in 1..Len(b)  PROVE b[j].msg \in sent /\ b[j].msg.key \in DOMAIN chat
    OBVIOUS
  <2>1. b[j] = d[j + 1] /\ j + 1 \in 1..D
    BY <1>1
  <2> QED
    BY <1>2, <2>1
<1>8. ASSUME NEW j \in 1..Len(b), NEW k \in 0..(b[j].msg.key - 1)
      PROVE  k \in known'[p] \/ \E l \in 1..(j - 1) : b[l].msg.key = k
  <2>1. b[j] = d[j + 1] /\ j + 1 \in 1..D /\ (j + 1) - 1 = j /\ j \in Nat /\ j <= D
    BY <1>1
  <2>2. k \in 0..(d[j + 1].msg.key - 1)
    BY <2>1
  <2>3. k \in known[p] \/ \E l \in 1..j : d[l].msg.key = k
    BY <1>2, <2>1, <2>2
  <2> QED
    BY <1>6, <2>1, <2>3
<1>9. ASSUME p \in open, NEW k \in DOMAIN chat
      PROVE  k \in known'[p] \/ \E j \in 1..Len(b) : b[j].msg.key = k
  <2>1. k \in known[p] \/ \E l \in 1..D : d[l].msg.key = k
    BY <1>2, <1>9
  <2>2. D \in Nat /\ D <= D /\ Len(b) = D - 1
    BY <1>1
  <2> QED
    BY <1>6, <2>1, <2>2
<1>10. Cardinality(Acks(p)') = served'[p]
  <2> DEFINE A == Acks(p) \ {1}
             B == Acks(p)'
             f == [j \in A |-> j - 1]
  <2>1. IsFiniteSet(Acks(p)) /\ Cardinality(Acks(p)) \in Nat
    BY AcksFinite
  <2>2. Cardinality(A) = Cardinality(Acks(p)) - (IF d[1].ack THEN 1 ELSE 0) /\ IsFiniteSet(A)
    <3>1. 1 \in Acks(p) <=> d[1].ack
      BY <1>1, <1>3
    <3>2. CASE d[1].ack
      <4>1. IsFiniteSet(A) /\ Cardinality(A) = Cardinality(Acks(p)) - 1
        <5>1. 1 \in Acks(p)
          BY <3>1, <3>2
        <5> HIDE DEF b, d
        <5> QED
          BY <2>1, <5>1, FS_RemoveElement
      <4> QED
        BY <3>2, <4>1
    <3>3. CASE ~ d[1].ack
      <4>1. IsFiniteSet(A) /\ Cardinality(A) = Cardinality(Acks(p))
        BY <2>1, <3>1, <3>3, FS_RemoveElement
      <4> HIDE DEF A
      <4> QED
        BY <2>1, <3>3, <4>1
    <3> QED
      BY <3>2, <3>3
  <2>3. \A j \in A : j \in 2..D /\ d[j].ack
    BY <1>1, <1>3
  <2>4. \A j \in A : j - 1 \in B
    <3> SUFFICES ASSUME NEW j \in A  PROVE j - 1 \in B
      OBVIOUS
    <3>1. j - 1 \in 1..(D - 1) /\ (j - 1) + 1 = j /\ d[j].ack
      BY <1>1, <2>3
    <3> QED
      BY <1>1, <1>3, <3>1
  <2>5. \A i \in B : i \in 1..(D - 1) /\ i + 1 \in A
    BY <1>1, <1>3
  <2>6. f \in Bijection(A, B)
    <3> HIDE DEF A, B
    <3>1. f \in [A -> B]
      BY <2>4
    <3>2. \A i, j \in A : f[i] = f[j] => i = j
      BY <2>3
    <3>3. \A i \in B : \E j \in A : f[j] = i
      <4> SUFFICES ASSUME NEW i \in B  PROVE \E j \in A : f[j] = i
        OBVIOUS
      <4>1. i + 1 \in A /\ (i + 1) - 1 = i
        BY <1>1, <2>5
      <4> QED
        BY <4>1
    <3> HIDE DEF f
    <3> QED
      BY <3>1, <3>2, <3>3 DEF Bijection, Injection, Surjection, IsInjective
  <2> HIDE DEF A, B, f
  <2>7. Cardinality(A) = Cardinality(B)
    BY <2>2, <2>6, FS_Bijection DEF ExistsBijection
  <2> QED
    BY <1>2, <1>5, <2>2, <2>7 DEF B
<1> QED
  BY <1>7, <1>8, <1>9, <1>10 DEF Coming, b

\* An acknowledged write is in the database: the phone has nothing to repeat.
LEMMA AcknowledgedOK ==
  ASSUME ChatInv, NEW p \in Phones, 1 <= served[p], Acknowledged(p), UNCHANGED <<chat, open, sent>>
  PROVE  /\ Outstanding(p)' /\ Noted'
         /\ unacked' \in [Phones -> Seq(Message)] /\ served' \in [Phones -> Nat]
         /\ served'[p] = served[p] - 1
         /\ \A q \in Phones : q # p => unacked'[q] = unacked[q] /\ served'[q] = served[q]
         /\ \A k \in known[p] : k \in DOMAIN chat \/ \E j \in 1..Len(unacked'[p]) : unacked'[p][j].key = k
<1> DEFINE u == unacked[p]
           v == unacked'[p]
           U == Len(u)
<1>1. Types /\ Noted /\ Outstanding(p) /\ Backed(p)
  BY DEF ChatInv
<1>2. u \in Seq(Message) /\ U \in Nat /\ served[p] \in Nat
  BY <1>1 DEF Types
<1>3. /\ served[p] <= U /\ (u # <<>> => p \in open)
      /\ \A j \in 1..U : u[j] \in sent
      /\ \A j \in 1..U : \A k \in 0..(u[j].key - 1) : k \in DOMAIN chat \/ \E l \in 1..(j - 1) : u[l].key = k
      /\ \A j \in 1..served[p] : u[j].key \in DOMAIN chat
      /\ \A k \in known[p] : k \in DOMAIN chat \/ \E j \in 1..U : u[j].key = k
  BY <1>1 DEF Outstanding, Backed
<1>4. u # <<>>
  BY <1>2, <1>3
<1>5. /\ unacked' \in [Phones -> Seq(Message)] /\ served' \in [Phones -> Nat]
      /\ v = Tail(u) /\ served'[p] = served[p] - 1
      /\ \A q \in Phones : q # p => unacked'[q] = unacked[q] /\ served'[q] = served[q]
  <2>1. Tail(u) \in Seq(Message) /\ served[p] - 1 \in Nat
    BY <1>2, <1>4, TailFacts
  <2> QED
    BY <1>1, <2>1 DEF Types, Acknowledged
<1>6. Len(v) = U - 1 /\ U \in Nat \ {0} /\ \A j \in 1..(U - 1) : v[j] = u[j + 1]
  BY <1>2, <1>4, <1>5, TailFacts
<1>7. 1 \in 1..served[p] /\ u[1].key \in DOMAIN chat
  BY <1>2, <1>3
<1> HIDE DEF u, v, U
<1>8. ASSUME NEW n \in Nat, n <= U, NEW k, k \in DOMAIN chat \/ \E l \in 1..n : u[l].key = k
      PROVE  k \in DOMAIN chat \/ \E l \in 1..(n - 1) : v[l].key = k
  <2>1. ASSUME NEW l \in 1..n, u[l].key = k
        PROVE  k \in DOMAIN chat \/ \E i \in 1..(n - 1) : v[i].key = k
    <3>1. CASE l = 1
      BY <1>7, <2>1, <3>1
    <3>2. CASE l # 1
      <4>1. l - 1 \in 1..(n - 1) /\ l - 1 \in 1..(U - 1) /\ (l - 1) + 1 = l
        BY <1>6, <1>8, <3>2
      <4>2. v[l - 1] = u[l]
        BY <1>6, <4>1
      <4> QED
        BY <2>1, <4>1, <4>2
    <3> QED
      BY <3>1, <3>2
  <2> QED
    BY <1>8, <2>1
<1>9. Outstanding(p)'
  <2>1. ASSUME NEW j \in 1..Len(v)  PROVE v[j] = u[j + 1] /\ j + 1 \in 1..U /\ (j + 1) - 1 = j /\ j \in Nat /\ j <= U
    BY <1>6
  <2>2. \A j \in 1..Len(v) : v[j] \in sent
    BY <1>3, <2>1
  <2>3. ASSUME NEW j \in 1..Len(v), NEW k \in 0..(v[j].key - 1)
        PROVE  k \in DOMAIN chat \/ \E l \in 1..(j - 1) : v[l].key = k
    <3>1. k \in 0..(u[j + 1].key - 1)
      BY <2>1
    <3>2. k \in DOMAIN chat \/ \E l \in 1..j : u[l].key = k
      BY <1>3, <2>1, <3>1
    <3> QED
      BY <1>8, <2>1, <3>2
  <2>4. \A j \in 1..(served[p] - 1) : v[j].key \in DOMAIN chat
    <3> SUFFICES ASSUME NEW j \in 1..(served[p] - 1)  PROVE v[j].key \in DOMAIN chat
      OBVIOUS
    <3>1. j \in 1..(U - 1) /\ j + 1 \in 1..served[p]
      BY <1>2, <1>3, <1>6
    <3> QED
      BY <1>3, <1>6, <3>1
  <2>5. served[p] - 1 <= Len(v) /\ p \in open
    BY <1>2, <1>3, <1>4, <1>6
  <2> QED
    BY <1>5, <2>2, <2>3, <2>4, <2>5 DEF Outstanding, v
<1>10. \A k \in known[p] : k \in DOMAIN chat \/ \E j \in 1..Len(v) : v[j].key = k
  BY <1>3, <1>6, <1>8
<1>11. Noted'
  <2>1. ASSUME NEW x \in sent, NEW q \in Phones, NEW j \in 1..Len(unacked[q]), unacked[q][j] = x
        PROVE  x.key \in DOMAIN chat \/ \E i \in 1..Len(unacked'[q]) : unacked'[q][i] = x
    <3>1. CASE q # p
      BY <1>5, <2>1, <3>1
    <3>2. CASE q = p /\ j = 1
      BY <1>7, <2>1, <3>2 DEF u
    <3>3. CASE q = p /\ j # 1
      <4>1. j - 1 \in 1..(U - 1) /\ (j - 1) + 1 = j /\ u[j] = x
        BY <1>6, <2>1, <3>3 DEF u, U
      <4>2. v[j - 1] = x /\ j - 1 \in 1..Len(v)
        BY <1>6, <4>1
      <4> QED
        BY <3>3, <4>2 DEF v
    <3> QED
      BY <3>1, <3>2, <3>3
  <2> QED
    BY <1>1, <2>1 DEF Noted
<1> QED
  BY <1>5, <1>9, <1>10, <1>11 DEF v

\* What a phone hears next leaves no gap in what it knows.
LEMMA ReceiveOK ==
  ASSUME ChatInv, NEW p \in Phones, Receive(p)
  PROVE  ChatInv'
<1> DEFINE e == Head(down[p])
           m == e.msg
<1>1. /\ down[p] # <<>> /\ down' = [down EXCEPT ![p] = Tail(@)]
      /\ IF e.ack THEN Acknowledged(p) ELSE UNCHANGED <<unacked, served>>
      /\ Learn(p, m) /\ UNCHANGED <<chat, open, messages, drops, sent>>
  BY DEF Receive
<1>2. Types /\ Numbered /\ Stored /\ Noted /\ Outstanding(p) /\ InARow(p) /\ Backed(p) /\ Coming(p)
  BY DEF ChatInv
<1>3. /\ down[p] \in Seq(Event) /\ Tail(down[p]) \in Seq(Event) /\ Len(down[p]) \in Nat \ {0}
      /\ e = down[p][1] /\ e \in Event
  <2>1. down[p] \in Seq(Event)
    BY <1>2 DEF Types
  <2> QED
    BY <1>1, <2>1, TailFacts
<1>4. 1 \in 1..Len(down[p])
  BY <1>3
<1>5. m \in sent /\ m.key \in DOMAIN chat /\ m \in Message
  BY <1>2, <1>3, <1>4 DEF Coming, Numbered
<1>6. \A k \in 0..(m.key - 1) : k \in known[p]
  <2>1. \A k \in 0..(m.key - 1) : k \in known[p] \/ \E l \in 1..(1 - 1) : down[p][l].msg.key = k
    BY <1>2, <1>3, <1>4 DEF Coming
  <2> QED
    BY <2>1
<1>7. down' \in [Phones -> Seq(Event)] /\ down'[p] = Tail(down[p]) /\ \A q \in Phones : q # p => down'[q] = down[q]
  BY <1>1, <1>2, <1>3 DEF Types
<1> HIDE DEF m
<1>8. /\ InARow(p)' /\ known'[p] = known[p] \cup {m.key}
      /\ known' \in [Phones -> SUBSET Nat] /\ raised' \in [Phones -> Seq(Message)]
      /\ \A q \in Phones : q # p => known'[q] = known[q] /\ raised'[q] = raised[q]
  BY <1>1, <1>2, <1>5, <1>6, LearnsInARow
<1>9. Grows
  BY <1>1 DEF Grows
<1>10. /\ Outstanding(p)' /\ Noted'
       /\ unacked' \in [Phones -> Seq(Message)] /\ served' \in [Phones -> Nat]
       /\ served'[p] = served[p] - (IF e.ack THEN 1 ELSE 0)
       /\ \A q \in Phones : q # p => unacked'[q] = unacked[q] /\ served'[q] = served[q]
       /\ \A k \in known[p] : k \in DOMAIN chat \/ \E j \in 1..Len(unacked'[p]) : unacked'[p][j].key = k
  <2>1. CASE e.ack
    <3>1. 1 \in Acks(p)
      BY <1>3, <1>4, <2>1 DEF Acks
    <3>2. Cardinality(Acks(p)) # 0 /\ Cardinality(Acks(p)) \in Nat
      BY <1>2, <3>1, AcksFinite, FS_EmptySet
    <3>3. 1 <= served[p]
      BY <1>2, <3>2 DEF Coming
    <3>4. Acknowledged(p) /\ UNCHANGED <<chat, open, sent>>
      BY <1>1, <2>1
    <3> HIDE DEF e
    <3> QED
      BY <2>1, <3>3, <3>4, AcknowledgedOK
  <2>2. CASE ~ e.ack
    <3>1. unacked' = unacked /\ served' = served
      BY <1>1, <2>2
    <3>2. Outstanding(p)' /\ Noted'
      BY <1>1, <1>2, <1>9, <3>1, OutstandingKept, NotedKept
    <3>3. served[p] \in Nat /\ served'[p] = served[p] - 0
      BY <1>2, <3>1 DEF Types
    <3> QED
      BY <1>2, <2>2, <3>1, <3>2, <3>3 DEF Types, Backed
  <2> QED
    BY <2>1, <2>2
<1>11. Backed(p)'
  BY <1>1, <1>5, <1>8, <1>10 DEF Backed
<1>12. Coming(p)'
  BY <1>1, <1>2, <1>7, <1>8, <1>10, TailComing DEF m
<1>13. Types'
  BY <1>1, <1>2, <1>7, <1>8, <1>10 DEF Types
<1>14. Numbered' /\ Stored'
  BY <1>1, <1>2 DEF Numbered, Stored
<1>15. ASSUME NEW q \in Phones  PROVE Outstanding(q)' /\ InARow(q)' /\ Backed(q)' /\ Coming(q)'
  <2>1. CASE q # p
    <3>1. /\ Outstanding(q) /\ InARow(q) /\ Backed(q) /\ Coming(q)
      BY DEF ChatInv
    <3>2. /\ unacked'[q] = unacked[q] /\ served'[q] = served[q] /\ known'[q] = known[q]
          /\ raised'[q] = raised[q] /\ down'[q] = down[q] /\ messages'[q] = messages[q]
      BY <1>1, <1>7, <1>8, <1>10, <2>1
    <3>3. Outstanding(q)' /\ InARow(q)' /\ Backed(q)'
      BY <1>2, <1>9, <3>1, <3>2, OutstandingKept, InARowKept, BackedKept
    <3>4. Coming(q)'
      BY <1>1, <3>1, <3>2, ComingKept
    <3> QED
      BY <3>3, <3>4
  <2> QED
    BY <1>8, <1>10, <1>11, <1>12, <2>1
<1> QED
  BY <1>10, <1>13, <1>14, <1>15 DEF ChatInv

\* Every step of a chat of keys of one digit keeps the invariant.
LEMMA NextChatInv == ChatInv /\ OneDigit /\ [Next]_vars => ChatInv'
<1> SUFFICES ASSUME ChatInv, OneDigit, [Next]_vars  PROVE ChatInv'
  OBVIOUS
<1>1. CASE Next
  <2>1. PICK p \in Phones : \/ OpenScreen(p) \/ Send(p) \/ Serve(p) \/ Receive(p)
                            \/ ChildAdded(p) \/ Reconnect(p)
    BY <1>1 DEF Next
  <2> QED
    BY <2>1, OpenScreenOK, SendOK, ServeOK, ReceiveOK, ChildAddedOK, ReconnectOK
<1>2. CASE UNCHANGED vars
  <2>1. ASSUME NEW p \in Phones  PROVE Acks(p)' = Acks(p) /\ Count(p)' = Count(p)
    BY <1>2 DEF vars, Acks, Count
  <2>2. ASSUME NEW p \in Phones  PROVE Outstanding(p)' /\ InARow(p)' /\ Backed(p)' /\ Coming(p)'
    BY <1>2, <2>1 DEF vars, ChatInv, Outstanding, InARow, Backed, Coming
  <2>3. Types' /\ Numbered'
    BY <1>2 DEF vars, ChatInv, Types, Numbered
  <2>4. Stored' /\ Noted'
    BY <1>2 DEF vars, ChatInv, Stored, Noted
  <2> QED
    BY <2>2, <2>3, <2>4 DEF ChatInv
<1> QED
  BY <1>1, <1>2

\* What was sent stays: a chat of one digit has never been longer.
LEMMA SentGrows ==
  ASSUME IsFiniteSet(sent), [Next]_vars
  PROVE  IsFiniteSet(sent') /\ (OneDigit' => OneDigit)
<1>1. sent' = sent \/ \E m : sent' = sent \cup {m}
  <2>1. ASSUME NEW p \in Phones, Send(p)  PROVE \E m : sent' = sent \cup {m}
    BY <2>1 DEF Send
  <2> QED
    BY <2>1 DEF Next, OpenScreen, Serve, Receive, ChildAdded, Reconnect, Lost, vars
<1>2. IsFiniteSet(sent') /\ sent \subseteq sent'
  BY <1>1, FS_AddElement
<1>3. Cardinality(sent) <= Cardinality(sent') /\ Cardinality(sent) \in Nat /\ Cardinality(sent') \in Nat
  BY <1>2, FS_Subset, FS_CardinalityType
<1> QED
  BY <1>2, <1>3, ChatAssumption DEF OneDigit

\* So it holds as long as the keys have one digit.
LEMMA ChatInvariant == Spec => [](OneDigit => ChatInv)
<1> DEFINE LInv == IsFiniteSet(sent) /\ (OneDigit => ChatInv)
<1>1. Init => LInv
  BY InitChatInv, FS_EmptySet DEF Init
<1>2. LInv /\ [Next]_vars => LInv'
  BY SentGrows, NextChatInv
<1>3. LInv => (OneDigit => ChatInv)
  OBVIOUS
<1> HIDE DEF LInv
<1> QED
  BY <1>1, <1>2, <1>3, PTL DEF Spec

----------------------------------------------------------------------------
(****************************** The theorems *******************************)

\* The chat keeps its types, the database has taken no more writes of a phone
\* than are outstanding, and a phone lists only what was sent.
THEOREM ChatTypes == Spec => [](OneDigit => TypeOK)
<1>1. ASSUME ChatInv  PROVE TypeOK
  <2>1. Types /\ Numbered /\ Stored
    BY <1>1 DEF ChatInv
  <2>2. \A m \in sent : m \in Message /\ m.key \in 0..MaxSends
    BY <2>1 DEF Numbered, Message
  <2>3. DOMAIN chat \subseteq 0..MaxSends /\ \A k \in DOMAIN chat : chat[k] \in Message
    BY <2>1, <2>2 DEF Stored
  <2>4. ASSUME NEW p \in Phones
        PROVE  /\ served[p] \in 0..Len(unacked[p]) /\ known[p] \subseteq 0..MaxSends
               /\ \A i \in DOMAIN messages[p] : messages[p][i] \in sent
    <3>1. Outstanding(p) /\ InARow(p)
      BY <1>1 DEF ChatInv
    <3>2. served[p] \in Nat /\ Len(unacked[p]) \in Nat /\ messages[p] \in Seq(Message)
      BY <2>1 DEF Types
    <3>3. served[p] \in 0..Len(unacked[p])
      BY <3>1, <3>2 DEF Outstanding
    <3>4. Count(p) \in Nat /\ Count(p) <= MaxSends /\ MaxSends \in Nat
      BY <2>1, <3>1, CountBound, ChatAssumption DEF Numbered
    <3>5. known[p] \subseteq 0..MaxSends
      BY <3>1, <3>4 DEF InARow
    <3> QED
      BY <3>1, <3>2, <3>3, <3>5 DEF InARow
  <2> QED
    BY <2>1, <2>3, <2>4 DEF TypeOK, Types, Numbered
<1>2. (OneDigit => ChatInv) => (OneDigit => TypeOK)
  BY <1>1
<1> QED
  BY <1>2, ChatInvariant, PTL

\* As long as no more than ten messages were sent, two messages get one key only
\* if neither sender had heard of the other's: the key is the number of messages
\* the sender lists (submitButton), and those have all the smaller ones.
THEOREM OnlyConcurrentCollide == Spec => []CollisionsAreConcurrent
<1>1. ASSUME OneDigit => ChatInv  PROVE CollisionsAreConcurrent
  <2> SUFFICES ASSUME ChatInv, NEW m \in sent, NEW n \in sent, m.key = n.key, m.id \in n.heard  PROVE FALSE
    BY <1>1 DEF CollisionsAreConcurrent
  <2>1. PICK o \in sent : o.id = m.id /\ o.key < n.key
    BY DEF ChatInv, Numbered
  <2>2. o = m
    BY <2>1 DEF ChatInv, Numbered
  <2>3. m.key \in Int
    BY ChatAssumption DEF ChatInv, Numbered, Message
  <2> QED
    BY <2>1, <2>2, <2>3
<1> QED
  BY <1>1, ChatInvariant, PTL

\* When nothing is under way in a chat of at most ten messages, the open phones
\* list one message for every key of the database, so that the next message
\* takes a new one, and a message nobody wrote over is on every screen
\* (submitButton and the childAdded listener).
THEOREM SettledAgrees == Spec => []SettledChatAgrees
<1>1. ASSUME OneDigit => ChatInv  PROVE SettledChatAgrees
  <2> SUFFICES ASSUME ChatInv, Quiet, NEW p \in open
               PROVE  /\ Len(messages[p]) = Cardinality(DOMAIN chat)
                      /\ NextKey(p) \notin DOMAIN chat
                      /\ \A m \in sent : Alone(m) => Lists(p, m)
    BY <1>1 DEF SettledChatAgrees
  <2>1. /\ Types /\ Noted /\ Numbered /\ p \in Phones
    BY DEF ChatInv, Types
  <2>2. InARow(p) /\ Backed(p) /\ Coming(p)
    BY <2>1 DEF ChatInv
  <2>3. \A q \in Phones : unacked[q] = <<>> /\ down[q] = <<>> /\ raised[q] = <<>>
    BY DEF Quiet
  <2> DEFINE L == Len(messages[p])
  <2>4. /\ L \in Nat /\ DOMAIN messages[p] = 1..L /\ known[p] = 0..(L - 1)
        /\ \A j \in 1..L : messages[p][j] \in sent /\ messages[p][j].key = j - 1
    <3>1. L \in Nat /\ DOMAIN messages[p] = 1..L /\ Count(p) = L + 0
      BY <2>1, <2>3 DEF Types, Count
    <3> QED
      BY <2>2, <3>1 DEF InARow
  <2>5. DOMAIN chat = known[p]
    <3>1. \A k \in known[p] : k \in DOMAIN chat
      BY <2>1, <2>2, <2>3 DEF Backed
    <3>2. \A k \in DOMAIN chat : k \in known[p]
      BY <2>1, <2>2, <2>3 DEF Coming
    <3> QED
      BY <3>1, <3>2
  <2>6. Cardinality(DOMAIN chat) = L
    <3> HIDE DEF L
    <3>1. Cardinality(0..(L - 1)) = L
      BY <2>4, FS_Interval
    <3> QED
      BY <2>4, <2>5, <3>1
  <2>7. NextKey(p) \notin DOMAIN chat
    BY <2>4, <2>5 DEF NextKey
  <2>8. ASSUME NEW m \in sent, Alone(m)  PROVE Lists(p, m)
    <3>1. m.key \in DOMAIN chat
      BY <2>1, <2>3 DEF Noted
    <3>2. m.key + 1 \in 1..L /\ (m.key + 1) - 1 = m.key
      BY <2>4, <2>5, <3>1
    <3>3. messages[p][m.key + 1] \in sent /\ messages[p][m.key + 1].key = m.key
      BY <2>4, <3>2
    <3>4. messages[p][m.key + 1] = m
      BY <2>8, <3>3 DEF Alone
    <3> QED
      BY <2>4, <3>2, <3>4 DEF Lists
  <2> QED
    BY <2>6, <2>7, <2>8
<1> QED
  BY <1>1, ChatInvariant, PTL
=============================================================================
