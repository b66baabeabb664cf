------------------------- MODULE GameScreenProofs --------------------------
(***************************************************************************)
(* Proofs about the phones of GameScreen, for any number of them, however  *)
(* late their events and calls are and whatever flaky phones lose.         *)
(*                                                                         *)
(* VotesAreTimely is not inductive: that the turn cannot move on while a   *)
(* patient user's call is on its way follows from what the phones may      *)
(* still hear.  A phone is told the game's states in their order (InOrder),*)
(* so of a vote it has not answered it is either yet to hear, or sees it   *)
(* while the backend waits for it (Told).                                  *)
(***************************************************************************)
EXTENDS GameScreen, TLAPS

Patient == Users \ Impatient

Phase == {"gathering", "submitting", "voting", "over"}
State == [phase: Phase, turn: Nat]

PhaseNo(p) == CASE p = "gathering" -> 0 [] p = "submitting" -> 1 [] p = "voting" -> 2 [] p = "over" -> 3

\* The states of a game in their order.
Rank(s) == 4 * s.turn + PhaseNo(s.phase)

\* What a phone was told last and what it has still to be told.
Heard(u) == {seen[u]} \cup {feed[u][i] : i \in 1..Len(feed[u])}

Types == /\ phase \in Phase /\ turn \in Nat
         /\ screen \in [Users -> {"splash", "lobby", "game", "standings"}]
         /\ seen \in [Users -> State] /\ feed \in [Users -> Seq(State)]
         /\ hasVoted \in [Users -> BOOLEAN]
         /\ buttons \in [Users -> {"hidden", "shown", "tapped"}]
         /\ calls \subseteq [by: Users, turn: Nat, again: BOOLEAN]

\* Who sits at the table, and who is not there yet.
Table == /\ phase = "gathering" => turn = 0
         /\ phase # "gathering" => Seated = joined

Screens == \A u \in Users :
  /\ screen[u] # "splash" => u \in joined
  /\ screen[u] = "splash" => feed[u] = <<>>
  /\ screen[u] \in {"splash", "lobby"} => ~ hasVoted[u] /\ buttons[u] = "hidden"

\* A phone is told the states in their order, up to the present one.
InOrder == \A u \in Users :
  /\ \A s \in Heard(u) : Rank(seen[u]) <= Rank(s) /\ Rank(s) <= Rank(Now)
  /\ \A i, j \in 1..Len(feed[u]) : i <= j => Rank(feed[u][i]) <= Rank(feed[u][j])

Player(t) == seating[((t - 1) % Len(seating)) + 1]

\* The state s is a vote that u takes part in.
Concerns(s, u) == s.phase = "voting" /\ Player(s.turn) # u

\* Either u has voted on s and sees it still, or the backend waits for u's vote on s.
Answerable(u, s) ==
  Concerns(s, u) => (s = Now /\ u \in pending) \/ (s = seen[u] /\ hasVoted[u])

Told == \A u \in Patient : \A s \in Heard(u) : Answerable(u, s)

\* Who has voted in the present vote has it on the screen.
VotedNow == \A u \in Patient : Concerns(Now, u) /\ u \in joined /\ u \notin pending =>
                                 hasVoted[u] /\ seen[u] = Now

\* Buttons that are shown ask for a vote.
Shown == \A u \in Users : buttons[u] = "shown" => ~ hasVoted[u] /\ Concerns(seen[u], u)

\* The call of a patient user is for the present vote, and its only one.
ForThisVote(c) == /\ phase = "voting" /\ c.by \in pending /\ c.turn = turn /\ ~ c.again
                  /\ hasVoted[c.by] /\ seen[c.by] = Now

Timely == \A c \in calls : c.by \in Patient => ForThisVote(c)

SInv == Types /\ Table /\ Screens /\ InOrder /\ Told /\ VotedNow /\ Shown /\ Timely

----------------------------------------------------------------------------
(******************************** Sequences ********************************)

\* Two states of the same rank are the same.
LEMMA RankTells == ASSUME NEW s \in State, NEW t \in State, Rank(s) = Rank(t)
                   PROVE  s = t
<1>1. s.phase \in Phase /\ t.phase \in Phase /\ s.turn \in Nat /\ t.turn \in Nat
  BY DEF State
<1>2. PhaseNo(s.phase) \in 0..3 /\ PhaseNo(t.phase) \in 0..3
  BY <1>1 DEF Phase, PhaseNo
<1>3. 4 * s.turn + PhaseNo(s.phase) = 4 * t.turn + PhaseNo(t.phase)
  BY DEF Rank
<1>4. s.turn = t.turn /\ PhaseNo(s.phase) = PhaseNo(t.phase)
  BY <1>1, <1>2, <1>3
<1>5. s.phase = t.phase
  BY <1>1, <1>4 DEF Phase, PhaseNo
<1> QED
  BY <1>4, <1>5 DEF State

LEMMA RankIsNat == ASSUME NEW s \in State  PROVE Rank(s) \in Nat
<1>1. s.phase \in Phase /\ s.turn \in Nat
  BY DEF State
<1> QED
  BY <1>1 DEF Rank, Phase, PhaseNo

LEMMA HeardStates == ASSUME Types, NEW u \in Users, NEW s \in Heard(u)
                     PROVE  s \in State
  BY DEF Types, Heard

\* A state between two equal ones is the same.
LEMMA Between == ASSUME Types, InOrder, NEW u \in Users, NEW s \in Heard(u), seen[u] = Now
                 PROVE  s = Now
<1>1. s \in State /\ Now \in State
  BY HeardStates DEF Types, Now, State
<1>2. Rank(s) = Rank(Now)
  BY <1>1, RankIsNat DEF InOrder
<1> QED
  BY <1>1, <1>2, RankTells

\* The next event of a phone is one it was to hear, and comes first.
LEMMA NextEvent ==
  ASSUME Types, InOrder, NEW u \in Users, feed[u] # <<>>
  PROVE  /\ Head(feed[u]) \in State /\ Head(feed[u]) \in Heard(u) /\ Tail(feed[u]) \in Seq(State)
         /\ \A i \in 1..Len(Tail(feed[u])) : /\ Tail(feed[u])[i] \in Heard(u)
                                             /\ Rank(Head(feed[u])) <= Rank(Tail(feed[u])[i])
         /\ \A i, j \in 1..Len(Tail(feed[u])) :
              i <= j => Rank(Tail(feed[u])[i]) <= Rank(Tail(feed[u])[j])
<1> DEFINE f == feed[u]
<1>1. f \in Seq(State) /\ f # <<>> /\ Len(f) \in Nat /\ Len(f) >= 1
  BY DEF Types
<1>2. Head(f) = f[1] /\ Tail(f) \in Seq(State) /\ Len(Tail(f)) = Len(f) - 1
  BY <1>1
<1>3. \A i \in 1..Len(Tail(f)) : Tail(f)[i] = f[i + 1] /\ i + 1 \in 1..Len(f)
  BY <1>1
<1>4. \A i, j \in 1..Len(f) : i <= j => Rank(f[i]) <= Rank(f[j])
  BY DEF InOrder
<1>5. \A i \in 1..Len(f) : f[i] \in Heard(u) /\ f[i] \in State
  BY <1>1 DEF Heard
<1> HIDE DEF f
<1>6. 1 \in 1..Len(f)
  BY <1>1
<1>7. \A i \in 1..Len(Tail(f)) : Tail(f)[i] \in Heard(u) /\ Rank(f[1]) <= Rank(Tail(f)[i])
  BY <1>1, <1>3, <1>4, <1>5, <1>6
<1>8. ASSUME NEW i \in 1..Len(Tail(f)), NEW j \in 1..Len(Tail(f)), i <= j
      PROVE  Rank(Tail(f)[i]) <= Rank(Tail(f)[j])
  <2>1. i + 1 <= j + 1
    BY <1>8, <1>2, <1>1
  <2> QED
    BY <2>1, <1>3, <1>4
<1> QED
  BY <1>1, <1>2, <1>5, <1>6, <1>7, <1>8 DEF f

\* A phone takes the next event: what it has heard of and is to hear stays in order.
LEMMA Hearing ==
  ASSUME Types, InOrder, UNCHANGED <<phase, turn>>, NEW u \in Users, feed[u] # <<>>,
         seen' = [seen EXCEPT ![u] = Head(feed[u])], feed' = [feed EXCEPT ![u] = Tail(@)]
  PROVE  /\ seen' \in [Users -> State] /\ feed' \in [Users -> Seq(State)]
         /\ InOrder' /\ \A v \in Users : Heard(v)' \subseteq Heard(v)
<1> DEFINE s == Head(feed[u])
           rest == Tail(feed[u])
<1>1. /\ s \in State /\ s \in Heard(u) /\ rest \in Seq(State)
      /\ \A i \in 1..Len(rest) : rest[i] \in Heard(u) /\ Rank(s) <= Rank(rest[i])
      /\ \A i, j \in 1..Len(rest) : i <= j => Rank(rest[i]) <= Rank(rest[j])
  BY NextEvent
<1>2. seen' \in [Users -> State] /\ feed' \in [Users -> Seq(State)]
  BY <1>1 DEF Types
<1>3. seen'[u] = s /\ feed'[u] = rest /\ \A v \in Users \ {u} : seen'[v] = seen[v] /\ feed'[v] = feed[v]
  BY DEF Types
<1>4. Now' = Now
  BY DEF Now
<1> HIDE DEF s, rest
<1>5. Heard(u)' = {s} \cup {rest[i] : i \in 1..Len(rest)}
  BY <1>3 DEF Heard
<1>6. \A v \in Users \ {u} : Heard(v)' = Heard(v)
  BY <1>3 DEF Heard
<1>7. Heard(u)' \subseteq Heard(u)
  BY <1>5, <1>1
<1>8. ASSUME NEW v \in Users
      PROVE  /\ \A t \in Heard(v)' : Rank(seen'[v]) <= Rank(t) /\ Rank(t) <= Rank(Now')
             /\ \A i, j \in 1..Len(feed'[v]) : i <= j => Rank(feed'[v][i]) <= Rank(feed'[v][j])
  <2>1. CASE v = u
    <3>1. \A t \in Heard(u)' : t \in Heard(u) /\ Rank(s) <= Rank(t)
      BY <1>1, <1>5, <1>7, RankIsNat
    <3>2. \A t \in Heard(u) : Rank(t) <= Rank(Now')
      BY <1>4 DEF InOrder
    <3> QED
      BY <2>1, <3>1, <3>2, <1>3, <1>1
  <2>2. CASE v # u
    BY <2>2, <1>3, <1>4, <1>6 DEF InOrder
  <2> QED
    BY <2>1, <2>2
<1>9. InOrder'
  BY <1>8 DEF InOrder
<1> QED
  BY <1>2, <1>6, <1>7, <1>9

\* A commit is announced: every phone is to hear of no state but the new one
\* beside those it was to hear, and in their order.
LEMMA Announcing ==
  ASSUME Types, InOrder, Publish, phase' \in Phase, turn' \in Nat, Rank(Now) <= Rank(Now')
  PROVE  /\ seen' = seen /\ feed' \in [Users -> Seq(State)] /\ InOrder'
         /\ \A v \in Users : /\ Heard(v)' \subseteq Heard(v) \cup {Now'}
                             /\ screen[v] = "splash" => Heard(v)' = Heard(v) /\ feed'[v] = feed[v]
<1> DEFINE n == [phase |-> phase', turn |-> turn']
<1>1. n \in State /\ Now' = n /\ Now \in State
  BY DEF State, Now, Types
<1>2. Rank(n) \in Nat /\ Rank(Now) \in Nat /\ Rank(Now) <= Rank(n)
  BY <1>1, RankIsNat
<1>3. seen' = seen /\ feed' = [v \in Users |-> IF screen[v] = "splash" THEN feed[v] ELSE Append(feed[v], n)]
  BY DEF Publish
<1> HIDE DEF n
<1>4. feed' \in [Users -> Seq(State)]
  BY <1>1, <1>3 DEF Types
<1>5. ASSUME NEW v \in Users
      PROVE  /\ \A t \in Heard(v)' : Rank(seen'[v]) <= Rank(t) /\ Rank(t) <= Rank(Now')
             /\ \A i, j \in 1..Len(feed'[v]) : i <= j => Rank(feed'[v][i]) <= Rank(feed'[v][j])
             /\ Heard(v)' \subseteq Heard(v) \cup {n}
             /\ screen[v] = "splash" => Heard(v)' = Heard(v) /\ feed'[v] = feed[v]
  <2>0. seen[v] \in Heard(v) /\ \A t \in Heard(v) : t \in State /\ Rank(t) \in Nat
    BY HeardStates, RankIsNat DEF Heard
  <2>1. \A t \in Heard(v) : Rank(seen[v]) <= Rank(t) /\ Rank(t) <= Rank(n)
    BY <2>0, <1>2 DEF InOrder
  <2>2. \A i, j \in 1..Len(feed[v]) : i <= j => Rank(feed[v][i]) <= Rank(feed[v][j])
    BY DEF InOrder
  <2>3. CASE screen[v] = "splash"
    <3>1. feed'[v] = feed[v]
      BY <2>3, <1>3
    <3>2. Heard(v)' = Heard(v)
      BY <3>1, <1>3 DEF Heard
    <3> QED
      BY <3>1, <3>2, <2>1, <2>2, <1>1, <1>3
  <2>4. CASE screen[v] # "splash"
    <3>1. feed'[v] = Append(feed[v], n)
      BY <2>4, <1>3
    <3>2. feed[v] \in Seq(State) /\ Len(feed[v]) \in Nat
      BY DEF Types
    <3>3. /\ Len(feed'[v]) = Len(feed[v]) + 1 /\ feed'[v][Len(feed[v]) + 1] = n
          /\ \A i \in 1..Len(feed[v]) : feed'[v][i] = feed[v][i]
      BY <3>1, <3>2, <1>1
    <3>4. Heard(v)' \subseteq Heard(v) \cup {n}
      BY <3>2, <3>3, <1>3 DEF Heard
    <3>5. \A i \in 1..Len(feed[v]) : feed[v][i] \in Heard(v)
      BY DEF Heard
    <3>6. ASSUME NEW i \in 1..Len(feed'[v]), NEW j \in 1..Len(feed'[v]), i <= j
          PROVE  Rank(feed'[v][i]) <= Rank(feed'[v][j])
      <4>1. CASE j = Len(feed[v]) + 1 /\ i \in 1..Len(feed[v])
        BY <4>1, <3>3, <3>5, <2>1
      <4>2. CASE j = Len(feed[v]) + 1 /\ i = j
        BY <4>2, <3>3, <1>2
      <4>3. CASE j \in 1..Len(feed[v]) /\ i \in 1..Len(feed[v])
        BY <4>3, <3>6, <3>3, <2>2
      <4> QED
        BY <3>6, <3>2, <3>3, <4>1, <4>2, <4>3
    <3>7. \A t \in Heard(v)' : Rank(seen[v]) <= Rank(t) /\ Rank(t) <= Rank(n)
      BY <3>4, <2>0, <2>1, <1>2
    <3> QED
      BY <3>4, <3>6, <3>7, <1>1, <1>3, <2>4
  <2> QED
    BY <2>3, <2>4
<1>6. InOrder'
  BY <1>5 DEF InOrder
<1> QED
  BY <1>1, <1>3, <1>4, <1>5, <1>6

----------------------------------------------------------------------------
(******************************** The phones *******************************)

LEMMA InitSInv == ASSUME SInit  PROVE SInv
<1> USE DEF SInit, Init
<1>0. Now = [phase |-> "gathering", turn |-> 0] /\ Now \in State
  BY DEF Now, State, Phase
<1>1. Types
  BY <1>0 DEF Types, Phase
<1>2. Table /\ Screens
  BY DEF Table, Screens
<1>3. \A u \in Users : Heard(u) = {Now}
  BY DEF Heard
<1>4. InOrder
  BY <1>0, <1>3, RankIsNat DEF InOrder
<1>5. \A u \in Users : ~ Concerns(Now, u)
  BY <1>0 DEF Concerns
<1>6. Told /\ VotedNow /\ Shown /\ Timely
  BY <1>3, <1>5 DEF Told, VotedNow, Shown, Timely, Answerable, Patient
<1> QED
  BY <1>1, <1>2, <1>4, <1>6 DEF SInv

LEMMA OpenLobbyOK == ASSUME SInv, NEW u \in Users, OpenLobby(u)  PROVE SInv'
<1> USE DEF OpenLobby, vars
<1>0. /\ Now' = Now /\ Now \in State /\ \A v \in Users, s \in State : Concerns(s, v)' = Concerns(s, v)
      /\ feed[u] = <<>> /\ ~ hasVoted[u] /\ buttons[u] = "hidden" /\ u \in joined
  BY DEF Now, Concerns, Player, SInv, Screens, Types, State
<1>1. Types'
  BY <1>0 DEF SInv, Types
<1>2. seen'[u] = Now /\ screen'[u] = "lobby" /\ \A v \in Users \ {u} : seen'[v] = seen[v] /\ screen'[v] = screen[v]
  BY DEF SInv, Types
<1>3. Table'
  BY DEF SInv, Table, Seated
<1>4. Screens'
  BY <1>0, <1>2 DEF SInv, Screens
<1>5. Heard(u)' = {Now} /\ \A v \in Users \ {u} : Heard(v)' = Heard(v)
  BY <1>0, <1>2 DEF Heard
<1>6. ASSUME NEW v \in Users
      PROVE  /\ \A s \in Heard(v)' : Rank(seen'[v]) <= Rank(s) /\ Rank(s) <= Rank(Now')
             /\ \A i, j \in 1..Len(feed'[v]) : i <= j => Rank(feed'[v][i]) <= Rank(feed'[v][j])
  <2>1. CASE v = u
    BY <2>1, <1>0, <1>2, <1>5, RankIsNat
  <2>2. CASE v # u
    BY <2>2, <1>0, <1>2, <1>5 DEF SInv, InOrder
  <2> QED
    BY <2>1, <2>2
<1>7. InOrder'
  BY <1>6 DEF InOrder
<1>8. ASSUME NEW s, s = Now, u \in Patient  PROVE Answerable(u, s)'
  <2>1. Concerns(Now, u) => u \in pending
    BY <1>0, <1>8 DEF SInv, VotedNow
  <2> QED
    BY <2>1, <1>0, <1>8 DEF Answerable
<1>9. ASSUME NEW v \in Patient, NEW s \in Heard(v)'  PROVE Answerable(v, s)'
  <2>1. CASE v = u
    BY <2>1, <1>5, <1>8, <1>9
  <2>2. CASE v # u
    <3>1. v \in Users /\ s \in State /\ Answerable(v, s)
      BY <2>2, <1>5, <1>9, HeardStates DEF SInv, Told, Patient
    <3> QED
      BY <2>2, <3>1, <1>0, <1>2 DEF Answerable
  <2> QED
    BY <2>1, <2>2
<1>10. Told'
  BY <1>9 DEF Told
<1>11. VotedNow'
  BY <1>0, <1>2 DEF SInv, VotedNow, Patient
<1>12. Shown'
  <2>1. \A v \in Users : seen[v] \in State
    BY DEF SInv, Types
  <2> QED
    BY <2>1, <1>0, <1>2 DEF SInv, Shown
<1>13. Timely'
  BY <1>0, <1>2 DEF SInv, Timely, ForThisVote, Types
<1> QED
  BY <1>1, <1>3, <1>4, <1>7, <1>10, <1>11, <1>12, <1>13 DEF SInv

LEMMA LobbyHearsOK == ASSUME SInv, NEW u \in Users, LobbyHears(u)  PROVE SInv'
<1> USE DEF LobbyHears, vars
<1>0. /\ Now' = Now /\ Now \in State /\ \A v \in Users, s \in State : Concerns(s, v)' = Concerns(s, v)
      /\ ~ hasVoted[u] /\ buttons[u] = "hidden" /\ u \in joined
  BY DEF Now, Concerns, Player, SInv, Screens, Types, State
<1>1. /\ seen' \in [Users -> State] /\ feed' \in [Users -> Seq(State)]
      /\ InOrder' /\ \A v \in Users : Heard(v)' \subseteq Heard(v)
  BY Hearing DEF SInv
<1>2. /\ screen' \in [Users -> {"splash", "lobby", "game", "standings"}] /\ screen'[u] \in {"lobby", "game"}
      /\ \A v \in Users \ {u} : seen'[v] = seen[v] /\ screen'[v] = screen[v] /\ feed'[v] = feed[v]
  BY DEF SInv, Types
<1>3. Types'
  BY <1>1, <1>2 DEF SInv, Types
<1>4. Table'
  BY DEF SInv, Table, Seated
<1>5. Screens'
  BY <1>0, <1>2 DEF SInv, Screens
<1>6. ASSUME NEW v \in Patient, NEW s \in Heard(v)'  PROVE Answerable(v, s)'
  <2>1. v \in Users /\ s \in State /\ Answerable(v, s)
    BY <1>1, HeardStates DEF SInv, Told, Patient
  <2> QED
    BY <2>1, <1>0, <1>2 DEF Answerable
<1>7. Told'
  BY <1>6 DEF Told
<1>8. VotedNow'
  BY <1>0, <1>2 DEF SInv, VotedNow, Patient
<1>9. Shown'
  <2>1. \A v \in Users : seen[v] \in State
    BY DEF SInv, Types
  <2> QED
    BY <2>1, <1>0, <1>2 DEF SInv, Shown
<1>10. Timely'
  BY <1>0, <1>2 DEF SInv, Timely, ForThisVote, Types
<1> QED
  BY <1>1, <1>3, <1>4, <1>5, <1>7, <1>8, <1>9, <1>10 DEF SInv

LEMMA GameHearsOK == ASSUME SInv, NEW u \in Users, GameHears(u)  PROVE SInv'
<1> USE DEF GameHears, vars
<1> DEFINE s == Head(feed[u])
<1>0. Now' = Now /\ Now \in State /\ \A v \in Users, t \in State : Concerns(t, v)' = Concerns(t, v)
  BY DEF Now, Concerns, Player, SInv, Types, State
<1>1. /\ seen' \in [Users -> State] /\ feed' \in [Users -> Seq(State)]
      /\ InOrder' /\ \A v \in Users : Heard(v)' \subseteq Heard(v)
  BY Hearing DEF SInv
<1>2. s \in State /\ s \in Heard(u)
  BY NextEvent DEF SInv
<1>3. Asks(u, s, VotedAfter(u, s)) <=> Concerns(s, u) /\ ~ VotedAfter(u, s)
  BY DEF Asks, Concerns, Player
<1>4. /\ screen' \in [Users -> {"splash", "lobby", "game", "standings"}] /\ screen'[u] \in {"game", "standings"}
      /\ hasVoted' \in [Users -> BOOLEAN] /\ buttons' \in [Users -> {"hidden", "shown", "tapped"}]
      /\ seen'[u] = s /\ hasVoted'[u] = VotedAfter(u, s)
      /\ buttons'[u] = "shown" => Concerns(s, u) /\ ~ hasVoted'[u]
      /\ \A v \in Users \ {u} : /\ seen'[v] = seen[v] /\ screen'[v] = screen[v] /\ feed'[v] = feed[v]
                                /\ hasVoted'[v] = hasVoted[v] /\ buttons'[v] = buttons[v]
  BY <1>3 DEF SInv, Types, Drawn, VotedAfter
<1>5. s.phase = "voting" /\ hasVoted[u] => hasVoted'[u]
  BY <1>4 DEF VotedAfter
<1> HIDE DEF s
<1>6. Types'
  BY <1>1, <1>4 DEF SInv, Types
<1>7. Table'
  BY DEF SInv, Table, Seated
<1>8. Screens'
  BY <1>4 DEF SInv, Screens
<1>9. ASSUME NEW v \in Patient, NEW t \in Heard(v)'  PROVE Answerable(v, t)'
  <2>1. v \in Users /\ t \in Heard(v) /\ t \in State /\ Answerable(v, t)
    BY <1>1, HeardStates DEF SInv, Told, Patient
  <2>2. CASE v = u
    <3>1. ASSUME Concerns(t, u), t = seen[u], hasVoted[u]  PROVE t = seen'[u] /\ hasVoted'[u]
      <4>1. Rank(seen[u]) <= Rank(s) /\ Rank(s) <= Rank(t)
        <5>1. t \in Heard(u)'
          BY <2>2, <1>9
        <5>2. InOrder'
          BY <1>1
        <5> QED
          BY <5>1, <5>2, <1>2, <1>4 DEF SInv, InOrder
      <4>2. s = t
        BY <4>1, <3>1, <1>2, <2>1, RankTells, RankIsNat
      <4> QED
        BY <4>2, <3>1, <1>4, <1>5 DEF Concerns
    <3> QED
      BY <2>1, <2>2, <3>1, <1>0 DEF Answerable
  <2>3. CASE v # u
    BY <2>1, <2>3, <1>0, <1>4 DEF Answerable
  <2> QED
    BY <2>2, <2>3
<1>10. Told'
  BY <1>9 DEF Told
<1>11. seen[u] = Now /\ hasVoted[u] /\ Now.phase = "voting" => seen'[u] = Now /\ hasVoted'[u]
  BY <1>2, <1>4, <1>5, Between DEF SInv
<1>12. VotedNow'
  BY <1>0, <1>4, <1>11 DEF SInv, VotedNow, Patient, Concerns
<1>13. Shown'
  <2>1. \A v \in Users : seen[v] \in State
    BY DEF SInv, Types
  <2> QED
    BY <2>1, <1>0, <1>2, <1>4 DEF SInv, Shown
<1>14. Timely'
  <2>1. Now.phase = phase
    BY DEF Now
  <2> QED
    BY <2>1, <1>0, <1>4, <1>11 DEF SInv, Timely, ForThisVote, Types
<1> QED
  BY <1>1, <1>6, <1>7, <1>8, <1>10, <1>12, <1>13, <1>14 DEF SInv

\* The game, the phones' events and their flags are left alone.
Still == UNCHANGED <<phase, seating, turn, pending, joined, screen, seen, feed>>

LEMMA StillOK ==
  ASSUME SInv, Still
  PROVE  /\ Now' = Now /\ Now \in State /\ \A v \in Users : Heard(v)' = Heard(v)
         /\ \A v \in Users, s \in State : Concerns(s, v)' = Concerns(s, v)
         /\ Table' /\ InOrder' /\ (hasVoted' = hasVoted => Told' /\ VotedNow')
<1> USE DEF Still
<1>1. Now' = Now /\ Now \in State
  BY DEF Now, SInv, Types, State
<1>2. \A v \in Users : Heard(v)' = Heard(v)
  BY DEF Heard
<1>3. \A v \in Users, s \in State : Concerns(s, v)' = Concerns(s, v)
  BY DEF Concerns, Player
<1>4. Table'
  BY DEF SInv, Table, Seated
<1>5. InOrder'
  BY <1>1, <1>2 DEF SInv, InOrder
<1>6. ASSUME hasVoted' = hasVoted, NEW v \in Patient, NEW s \in Heard(v)'  PROVE Answerable(v, s)'
  <2>1. v \in Users /\ s \in State /\ Answerable(v, s)
    BY <1>2, <1>6, HeardStates DEF SInv, Told, Patient
  <2> QED
    BY <2>1, <1>1, <1>3, <1>6 DEF Answerable
<1>7. hasVoted' = hasVoted => VotedNow'
  BY <1>1, <1>3 DEF SInv, VotedNow, Patient
<1> QED
  BY <1>1, <1>2, <1>3, <1>4, <1>5, <1>6, <1>7 DEF Told

LEMMA RedrawOK == ASSUME SInv, NEW u \in Users, Redraw(u)  PROVE SInv'
<1> USE DEF Redraw, vars
<1>0. Still /\ hasVoted' = hasVoted /\ calls' = calls
  BY DEF Still
<1>1. /\ Now' = Now /\ Now \in State /\ \A v \in Users, s \in State : Concerns(s, v)' = Concerns(s, v)
      /\ Table' /\ InOrder' /\ Told' /\ VotedNow'
  BY <1>0, StillOK
<1>2. Asks(u, seen[u], hasVoted[u]) <=> Concerns(seen[u], u) /\ ~ hasVoted[u]
  BY DEF Asks, Concerns, Player
<1>3. Types'
  BY DEF SInv, Types, Drawn
<1>4. Screens'
  BY DEF SInv, Screens, Types
<1>5. Shown'
  <2>1. \A v \in Users : seen[v] \in State
    BY DEF SInv, Types
  <2>2. buttons'[u] = "shown" => Concerns(seen[u], u) /\ ~ hasVoted[u]
    BY <1>2 DEF SInv, Types, Drawn
  <2>3. \A v \in Users \ {u} : buttons'[v] = buttons[v]
    BY DEF SInv, Types
  <2> QED
    BY <2>1, <2>2, <2>3, <1>0, <1>1 DEF SInv, Shown
<1>6. Timely'
  BY <1>1 DEF SInv, Timely, ForThisVote
<1> QED
  BY <1>1, <1>3, <1>4, <1>5, <1>6 DEF SInv

LEMMA TapOK == ASSUME SInv, NEW u \in Users, Tap(u)  PROVE SInv'
<1> USE DEF Tap, vars
<1>. PICK c : c = [by |-> u, turn |-> seen[u].turn, again |-> buttons[u] = "tapped"]
  OBVIOUS
<1>0. Still
  BY DEF Still
<1>1. /\ Now' = Now /\ Now \in State /\ \A v \in Users : Heard(v)' = Heard(v)
      /\ \A v \in Users, s \in State : Concerns(s, v)' = Concerns(s, v)
      /\ Table' /\ InOrder'
  BY <1>0, StillOK
<1>2. /\ hasVoted'[u] /\ hasVoted' \in [Users -> BOOLEAN] /\ buttons' \in [Users -> {"hidden", "shown", "tapped"}]
      /\ buttons'[u] = "tapped" /\ calls' = calls \cup {c} /\ c \in [by: Users, turn: Nat, again: BOOLEAN]
      /\ \A v \in Users \ {u} : hasVoted'[v] = hasVoted[v] /\ buttons'[v] = buttons[v]
  BY DEF SInv, Types, State
<1>3. c.by = u /\ c.turn = seen[u].turn /\ c.again = (buttons[u] = "tapped")
  OBVIOUS
<1>4. Types'
  BY <1>2 DEF SInv, Types
<1>5. Screens'
  BY <1>2 DEF SInv, Screens
<1>6. ASSUME NEW v \in Patient, NEW s \in Heard(v)'  PROVE Answerable(v, s)'
  <2>1. v \in Users /\ s \in State /\ Answerable(v, s)
    BY <1>1, <1>6, HeardStates DEF SInv, Told, Patient
  <2>2. hasVoted[v] => hasVoted'[v]
    BY <2>1, <1>2 DEF SInv, Types
  <2> QED
    BY <2>1, <2>2, <1>1 DEF Answerable
<1>7. Told'
  BY <1>6 DEF Told
<1>8. VotedNow'
  BY <1>1, <1>2 DEF SInv, VotedNow, Patient
<1>9. Shown'
  <2>1. \A v \in Users : seen[v] \in State
    BY DEF SInv, Types
  <2> QED
    BY <2>1, <1>1, <1>2 DEF SInv, Shown
<1>10. ASSUME u \in Patient  PROVE seen[u] = Now /\ u \in pending /\ phase = "voting" /\ ~ c.again
  <2>1. buttons[u] = "shown"
    BY <1>10 DEF Patient
  <2>2. ~ hasVoted[u] /\ Concerns(seen[u], u)
    BY <2>1 DEF SInv, Shown
  <2>3. seen[u] \in Heard(u)
    BY DEF Heard
  <2>4. seen[u] = Now /\ u \in pending
    BY <1>10, <2>2, <2>3 DEF SInv, Told, Answerable
  <2>5. phase = "voting"
    BY <2>2, <2>4 DEF Concerns, Now
  <2>6. ~ c.again
    BY <2>1, <1>3
  <2> QED
    BY <2>4, <2>5, <2>6
<1>11. u \in Patient => ForThisVote(c)'
  BY <1>1, <1>2, <1>3, <1>10 DEF ForThisVote, Now
<1>12. ASSUME NEW d \in calls, d.by \in Patient  PROVE ForThisVote(d)'
  <2>1. ForThisVote(d) /\ d.by \in Users
    BY <1>12 DEF SInv, Timely, Patient
  <2>2. hasVoted'[d.by]
    BY <2>1, <1>2 DEF ForThisVote
  <2> QED
    BY <2>1, <2>2, <1>1 DEF ForThisVote
<1>13. Timely'
  BY <1>2, <1>3, <1>11, <1>12 DEF Timely
<1> QED
  BY <1>1, <1>4, <1>5, <1>7, <1>8, <1>9, <1>13 DEF SInv

LEMMA ReconnectOK == ASSUME SInv, NEW u \in Users, Reconnect(u)  PROVE SInv'
<1> USE DEF Reconnect, vars
<1> DEFINE s == feed[u][Len(feed[u])]
<1>a. /\ Now' = Now /\ Now \in State /\ \A v \in Users, t \in State : Concerns(t, v)' = Concerns(t, v)
  BY DEF Now, Concerns, Player, SInv, Types, State
<1>b. feed[u] \in Seq(State) /\ Len(feed[u]) \in Nat /\ Len(feed[u]) > 1
  BY DEF SInv, Types
<1>c. feed[u] # <<>> /\ Len(feed[u]) \in 1..Len(feed[u])
  BY <1>b
<1>0. /\ Now' = Now /\ Now \in State /\ \A v \in Users, t \in State : Concerns(t, v)' = Concerns(t, v)
      /\ feed[u] \in Seq(State) /\ feed[u] # <<>> /\ Len(feed[u]) \in 1..Len(feed[u])
  BY <1>a, <1>b, <1>c
<1>1. s \in State /\ s \in Heard(u)
  BY <1>0 DEF Heard
<1>2. feed'[u] = <<s>> /\ feed' \in [Users -> Seq(State)] /\ \A v \in Users \ {u} : feed'[v] = feed[v]
  BY <1>1 DEF SInv, Types
<1> HIDE DEF s
<1>3. Heard(u)' = {seen[u], s} /\ seen[u] \in Heard(u) /\ \A v \in Users \ {u} : Heard(v)' = Heard(v)
  BY <1>2 DEF Heard
<1>4. \A v \in Users : Heard(v)' \subseteq Heard(v)
  BY <1>1, <1>3
<1>5. Types' /\ Table'
  BY <1>2 DEF SInv, Types, Table, Seated
<1>6. Screens'
  BY <1>0, <1>2 DEF SInv, Screens
<1>7. ASSUME NEW v \in Users
      PROVE  /\ \A t \in Heard(v)' : Rank(seen'[v]) <= Rank(t) /\ Rank(t) <= Rank(Now')
             /\ \A i, j \in 1..Len(feed'[v]) : i <= j => Rank(feed'[v][i]) <= Rank(feed'[v][j])
  <2>1. CASE v = u
    <3>1. \A t \in Heard(v)' : Rank(seen'[v]) <= Rank(t) /\ Rank(t) <= Rank(Now')
      BY <1>0, <1>4 DEF SInv, InOrder
    <3>2. \A i, j \in 1..Len(feed'[v]) : feed'[v][i] = s /\ feed'[v][j] = s
      BY <2>1, <1>2
    <3> QED
      BY <3>1, <3>2, <1>1, RankIsNat
  <2>2. CASE v # u
    BY <2>2, <1>0, <1>2, <1>3 DEF SInv, InOrder
  <2> QED
    BY <2>1, <2>2
<1>8. InOrder'
  BY <1>7 DEF InOrder
<1>9. ASSUME NEW v \in Patient, NEW t \in Heard(v)'  PROVE Answerable(v, t)'
  <2>1. v \in Users /\ t \in State /\ Answerable(v, t)
    BY <1>4, <1>9, HeardStates DEF SInv, Told, Patient
  <2> QED
    BY <2>1, <1>0 DEF Answerable
<1>10. Told'
  BY <1>9 DEF Told
<1>11. VotedNow' /\ Shown'
  <2>1. \A v \in Users : seen[v] \in State
    BY DEF SInv, Types
  <2> QED
    BY <2>1, <1>0 DEF SInv, VotedNow, Shown, Patient
<1>12. Timely'
  BY <1>0 DEF SInv, Timely, ForThisVote
<1> QED
  BY <1>5, <1>6, <1>8, <1>10, <1>11, <1>12 DEF SInv

LEMMA CallFailsOK == ASSUME SInv, NEW c \in calls, CallFails(c)  PROVE SInv'
<1> USE DEF CallFails, vars, phones
<1>0. Still /\ hasVoted' = hasVoted /\ buttons' = buttons /\ calls' \subseteq calls
  BY DEF Still
<1>1. /\ Now' = Now /\ Now \in State /\ \A v \in Users, s \in State : Concerns(s, v)' = Concerns(s, v)
      /\ Table' /\ InOrder' /\ Told' /\ VotedNow'
  BY <1>0, StillOK
<1>2. Types' /\ Screens'
  BY <1>0 DEF SInv, Types, Screens, Still
<1>3. Shown'
  <2>1. \A v \in Users : seen[v] \in State
    BY DEF SInv, Types
  <2> QED
    BY <2>1, <1>0, <1>1 DEF SInv, Shown, Still
<1>4. Timely'
  BY <1>0, <1>1 DEF SInv, Timely, ForThisVote, Still
<1> QED
  BY <1>1, <1>2, <1>3, <1>4 DEF SInv

----------------------------------------------------------------------------
(******************************* The backend *******************************)

LEMMA JoinOK == ASSUME SInv, NEW p \in Seats, Join(p)  PROVE SInv'
<1> USE DEF Join, vars, phones
<1>0. /\ Now' = Now /\ Now \in State /\ \A v \in Users, t \in State : Concerns(t, v)' = Concerns(t, v)
      /\ \A v \in Users : Heard(v)' = Heard(v)
  BY DEF Now, Concerns, Player, SInv, Types, State, Heard
<1>1. Types' /\ Table'
  BY DEF SInv, Types, Table
<1>2. Screens'
  BY DEF SInv, Screens
<1>3. InOrder'
  BY <1>0 DEF SInv, InOrder
<1>4. ASSUME NEW v \in Patient, NEW t \in Heard(v)'  PROVE Answerable(v, t)'
  <2>1. v \in Users /\ t \in State /\ Answerable(v, t)
    BY <1>0, <1>4, HeardStates DEF SInv, Told, Patient
  <2> QED
    BY <2>1, <1>0 DEF Answerable
<1>5. Told'
  BY <1>4 DEF Told
<1>6. VotedNow'
  BY DEF VotedNow, Concerns, Now
<1>7. Shown'
  <2>1. \A v \in Users : seen[v] \in State
    BY DEF SInv, Types
  <2> QED
    BY <2>1, <1>0 DEF SInv, Shown
<1>8. Timely'
  BY <1>0 DEF SInv, Timely, ForThisVote
<1> QED
  BY <1>1, <1>2, <1>3, <1>5, <1>6, <1>7, <1>8 DEF SInv

\* A commit of a running game disturbs neither the screens nor the order of events.
LEMMA CommitOK ==
  ASSUME SInv, Publish, phase # "gathering", phase' \in Phase \ {"gathering"}, turn' \in Nat,
         seating' = seating, Rank(Now) <= Rank(Now'), calls' \subseteq calls
  PROVE  /\ Types' /\ Table' /\ Screens' /\ InOrder' /\ Shown'
         /\ Now \in State /\ Now' \in State
         /\ \A v \in Users, s \in State : Concerns(s, v)' = Concerns(s, v)
         /\ \A v \in Users : /\ Heard(v)' \subseteq Heard(v) \cup {Now'}
                             /\ v \notin joined => Heard(v)' = Heard(v)
<1>1. /\ seen' = seen /\ feed' \in [Users -> Seq(State)] /\ InOrder'
      /\ \A v \in Users : /\ Heard(v)' \subseteq Heard(v) \cup {Now'}
                          /\ screen[v] = "splash" => Heard(v)' = Heard(v) /\ feed'[v] = feed[v]
  BY Announcing DEF SInv
<1>2. UNCHANGED <<joined, screen, hasVoted, buttons>>
  BY DEF Publish
<1>3. Types'
  BY <1>1, <1>2 DEF SInv, Types
<1>4. Table'
  BY <1>2 DEF SInv, Table, Seated
<1>5. Screens'
  BY <1>1, <1>2 DEF SInv, Screens
<1>6. \A v \in Users, s \in State : Concerns(s, v)' = Concerns(s, v)
  BY DEF Concerns, Player
<1>7. Shown'
  <2>1. \A v \in Users : seen[v] \in State
    BY DEF SInv, Types
  <2> QED
    BY <2>1, <1>1, <1>2, <1>6 DEF SInv, Shown
<1>8. Now \in State /\ Now' \in State
  BY DEF SInv, Types, Now, State
<1>9. \A v \in Users : v \notin joined => Heard(v)' = Heard(v)
  BY <1>1 DEF SInv, Screens
<1> QED
  BY <1>1, <1>3, <1>4, <1>5, <1>6, <1>7, <1>8, <1>9

LEMMA StartGameOK ==
  ASSUME SInv, NEW r \in Rounds, NEW order \in [1..Cardinality(joined) -> joined], StartGame(order, r)
  PROVE  SInv'
<1> USE DEF StartGame, Start
<1>0. /\ phase = "gathering" /\ turn = 0 /\ phase' = "submitting" /\ turn' = 1 /\ seating' = order
      /\ calls' = calls /\ UNCHANGED <<joined, screen, seen, hasVoted, buttons>>
  BY DEF SInv, Table, Publish
<1>1. Rank(Now) = 0 /\ Rank(Now') = 5 /\ Now \in State /\ Now' \in State
  BY <1>0 DEF Rank, PhaseNo, Now, State, Phase
<1>2. /\ feed' \in [Users -> Seq(State)] /\ InOrder'
      /\ \A v \in Users : /\ Heard(v)' \subseteq Heard(v) \cup {Now'}
                          /\ screen[v] = "splash" => Heard(v)' = Heard(v) /\ feed'[v] = feed[v]
  BY <1>0, <1>1, Announcing DEF SInv, Phase
<1>3. Types'
  BY <1>0, <1>2 DEF SInv, Types, Phase
<1>4. Table'
  BY <1>0 DEF Table, Seated
<1>5. Screens'
  BY <1>0, <1>2 DEF SInv, Screens
<1>6. \A v \in Users : \A s \in Heard(v) : s.phase # "voting"
  <2> SUFFICES ASSUME NEW v \in Users, NEW s \in Heard(v)  PROVE s = Now
    BY <1>0 DEF Now
  <2>1. s \in State /\ Rank(s) <= 0
    BY <1>1, HeardStates DEF SInv, InOrder
  <2> QED
    BY <2>1, <1>1, RankIsNat, RankTells
<1>7. \A v \in Users : \A s \in Heard(v)' : s.phase # "voting"
  BY <1>0, <1>2, <1>6 DEF Now
<1>8. Told'
  BY <1>7 DEF Told, Answerable, Concerns, Patient
<1>9. VotedNow'
  BY <1>0 DEF VotedNow, Concerns, Now
<1>10. Shown'
  <2>1. \A v \in Users : seen[v] \in Heard(v)
    BY DEF Heard
  <2> QED
    BY <2>1, <1>0, <1>6 DEF SInv, Shown, Concerns
<1>11. Timely'
  BY <1>0 DEF SInv, Timely, ForThisVote
<1> QED
  BY <1>2, <1>3, <1>4, <1>5, <1>8, <1>9, <1>10, <1>11 DEF SInv

LEMMA PutToVoteOK == ASSUME SInv, PutToVote, Publish, calls' = calls  PROVE SInv'
<1> USE DEF PutToVote
<1>0. phase = "submitting" /\ phase' = "voting" /\ turn' = turn /\ turn \in Nat /\ seating' = seating
  BY DEF SInv, Types
<1>1. Rank(Now) <= Rank(Now')
  BY <1>0 DEF Rank, PhaseNo, Now
<1>2. /\ Types' /\ Table' /\ Screens' /\ InOrder' /\ Shown' /\ Now \in State /\ Now' \in State
      /\ \A v \in Users, s \in State : Concerns(s, v)' = Concerns(s, v)
      /\ \A v \in Users : /\ Heard(v)' \subseteq Heard(v) \cup {Now'}
                          /\ v \notin joined => Heard(v)' = Heard(v)
  BY <1>0, <1>1, CommitOK DEF Phase
<1>3. UNCHANGED <<joined, seen, hasVoted>>
  BY DEF Publish
<1>4. \A v \in joined : Concerns(Now', v) => v \in pending'
  BY <1>0 DEF SInv, Table, Concerns, Now, Active, Player
<1>5. ASSUME NEW v \in Patient, NEW s \in Heard(v)'  PROVE Answerable(v, s)'
  <2>1. v \in Users
    BY DEF Patient
  <2>2. CASE s \in Heard(v)
    <3>1. s \in State /\ Answerable(v, s)
      BY <2>1, <2>2, HeardStates DEF SInv, Told
    <3>2. Concerns(s, v) => s = seen[v] /\ hasVoted[v]
      BY <3>1, <1>0 DEF Answerable, Concerns, Now
    <3> QED
      BY <2>1, <3>1, <3>2, <1>2, <1>3 DEF Answerable
  <2>3. CASE s \notin Heard(v)
    <3>1. s = Now' /\ v \in joined
      BY <1>2, <1>5, <2>1, <2>3
    <3>2. Concerns(s, v) => v \in pending'
      BY <3>1, <1>4
    <3> QED
      BY <2>1, <3>1, <3>2, <1>2 DEF Answerable
  <2> QED
    BY <2>2, <2>3
<1>6. Told'
  BY <1>5 DEF Told
<1>7. VotedNow'
  <2> SUFFICES ASSUME NEW v \in Patient, Concerns(Now, v)', v \in joined', v \notin pending'
               PROVE  FALSE
    BY DEF VotedNow
  <2>1. v \in joined /\ Concerns(Now', v)
    BY <1>3, <1>0 DEF Concerns, Now, Player
  <2> QED
    BY <2>1, <1>4
<1>8. Timely'
  BY <1>0 DEF SInv, Timely, ForThisVote
<1> QED
  BY <1>2, <1>6, <1>7, <1>8 DEF SInv

\* A turn is decided: nobody's call may be on its way, and nobody may be to
\* hear of a vote that it has not answered.
LEMMA DecideOK ==
  ASSUME SInv, phase \in {"submitting", "voting"}, Decide, Publish, calls' \subseteq calls,
         \A c \in calls' : c.by \notin Patient,
         \A v \in Patient : phase = "voting" /\ v \in pending => hasVoted[v] /\ seen[v] = Now
  PROVE  SInv'
<1>0. /\ phase' \in {"submitting", "over"} /\ turn' \in Nat /\ turn \in Nat /\ turn' >= turn
      /\ phase' = "submitting" => turn' = turn + 1
      /\ seating' = seating
  BY DEF Decide, SInv, Types
<1>1. Rank(Now) <= Rank(Now')
  <2>1. Rank(Now) = 4 * turn + PhaseNo(phase) /\ Rank(Now') = 4 * turn' + PhaseNo(phase')
    BY DEF Rank, Now
  <2> QED
    BY <2>1, <1>0 DEF PhaseNo
<1>2. /\ Types' /\ Table' /\ Screens' /\ InOrder' /\ Shown' /\ Now \in State /\ Now' \in State
      /\ \A v \in Users, s \in State : Concerns(s, v)' = Concerns(s, v)
      /\ \A v \in Users : Heard(v)' \subseteq Heard(v) \cup {Now'}
  BY <1>0, <1>1, CommitOK DEF Phase
<1>3. UNCHANGED <<seen, hasVoted>>
  BY DEF Publish
<1>4. Now'.phase # "voting"
  BY <1>0 DEF Now
<1>5. ASSUME NEW v \in Patient, NEW s \in Heard(v)'  PROVE Answerable(v, s)'
  <2>1. v \in Users
    BY DEF Patient
  <2>2. CASE s \in Heard(v)
    <3>1. s \in State /\ Answerable(v, s)
      BY <2>1, <2>2, HeardStates DEF SInv, Told
    <3>2. s = Now /\ Concerns(s, v) => phase = "voting"
      BY DEF Concerns, Now
    <3>3. Concerns(s, v) => s = seen[v] /\ hasVoted[v]
      BY <3>1, <3>2 DEF Answerable
    <3> QED
      BY <2>1, <3>1, <3>3, <1>2, <1>3 DEF Answerable
  <2>3. CASE s \notin Heard(v)
    <3>1. s = Now'
      BY <1>2, <1>5, <2>1, <2>3
    <3> QED
      BY <3>1, <1>4 DEF Answerable, Concerns
  <2> QED
    BY <2>2, <2>3
<1>6. Told'
  BY <1>5 DEF Told
<1>7. VotedNow'
  BY <1>4 DEF VotedNow, Concerns
<1>8. Timely'
  BY DEF Timely
<1> QED
  BY <1>2, <1>6, <1>7, <1>8 DEF SInv

LEMMA WordArrivesOK == ASSUME SInv, WordArrives  PROVE SInv'
<1>1. CASE PutToVote
  BY <1>1, PutToVoteOK DEF WordArrives
<1>2. CASE Hit
  <2>1. phase = "submitting" /\ Decide /\ Publish /\ calls' = calls
    BY <1>2 DEF WordArrives, Hit
  <2>2. \A c \in calls : c.by \notin Patient
    BY <2>1 DEF SInv, Timely, ForThisVote
  <2> QED
    BY <2>1, <2>2, DecideOK
<1> QED
  BY <1>1, <1>2 DEF WordArrives

\* The vote of p is counted: a bot's, or the call of a user.
LEMMA VoteOK ==
  ASSUME SInv, NEW p, CastVotes({p}), Publish, calls' \subseteq calls,
         \A c \in calls' : c.by \in Patient => c.by # p,
         p \in Patient => hasVoted[p] /\ seen[p] = Now
  PROVE  SInv'
<1>0. phase = "voting" /\ p \in pending
  BY DEF CastVotes
<1>1. CASE pending = {p}
  <2>1. Decide
    BY <1>1 DEF CastVotes
  <2>2. \A c \in calls' : c.by \notin Patient
    BY <1>1 DEF SInv, Timely, ForThisVote
  <2>3. \A v \in Patient : v \in pending => hasVoted[v] /\ seen[v] = Now
    BY <1>1
  <2> QED
    BY <1>0, <2>1, <2>2, <2>3, DecideOK
<1>2. CASE pending # {p}
  <2>1. pending' = pending \ {p} /\ UNCHANGED <<phase, seating, turn>>
    BY <1>2 DEF CastVotes
  <2>2. Now' = Now /\ Now.phase = "voting" /\ phase \in Phase /\ turn \in Nat
    BY <2>1, <1>0 DEF Now, SInv, Types
  <2>3. Now \in State /\ Rank(Now) <= Rank(Now')
    BY <2>2, RankIsNat DEF Now, State
  <2>4. /\ Types' /\ Table' /\ Screens' /\ InOrder' /\ Shown'
        /\ \A v \in Users, s \in State : Concerns(s, v)' = Concerns(s, v)
        /\ \A v \in Users : /\ Heard(v)' \subseteq Heard(v) \cup {Now'}
                            /\ v \notin joined => Heard(v)' = Heard(v)
    BY <1>0, <2>1, <2>2, <2>3, CommitOK
  <2>5. UNCHANGED <<joined, seen, hasVoted>>
    BY DEF Publish
  <2>6. \A v \in Patient : Concerns(Now, v) /\ v \in joined /\ v \notin pending' => hasVoted[v] /\ seen[v] = Now
    BY <2>1 DEF SInv, VotedNow
  <2>7. ASSUME NEW v \in Patient, NEW s \in Heard(v)'  PROVE Answerable(v, s)'
    <3>1. v \in Users
      BY DEF Patient
    <3>2. CASE s \in Heard(v)
      <4>1. s \in State /\ Answerable(v, s)
        BY <3>1, <3>2, HeardStates DEF SInv, Told
      <4>2. Concerns(s, v) => (s = Now /\ v \in pending') \/ (s = seen[v] /\ hasVoted[v])
        BY <4>1, <2>1 DEF Answerable
      <4> QED
        BY <3>1, <4>1, <4>2, <2>2, <2>4, <2>5 DEF Answerable
    <3>3. CASE s \notin Heard(v)
      <4>1. s = Now /\ v \in joined
        BY <2>2, <2>4, <2>7, <3>1, <3>3
      <4>2. Concerns(s, v) => v \in pending' \/ (s = seen[v] /\ hasVoted[v])
        BY <4>1, <2>6
      <4> QED
        BY <3>1, <4>1, <4>2, <2>2, <2>3, <2>4, <2>5 DEF Answerable
    <3> QED
      BY <3>2, <3>3
  <2>8. Told'
    BY <2>7 DEF Told
  <2>9. VotedNow'
    BY <2>2, <2>3, <2>4, <2>5, <2>6 DEF VotedNow, Patient
  <2>10. Timely'
    BY <2>1, <2>2, <2>5 DEF SInv, Timely, ForThisVote
  <2> QED
    BY <2>4, <2>8, <2>9, <2>10 DEF SInv
<1> QED
  BY <1>1, <1>2

LEMMA BotVoteOK == ASSUME SInv, NEW b \in Bots, BotVote(b)  PROVE SInv'
<1>1. b \notin Patient /\ CastVotes({b}) /\ Publish /\ calls' = calls
  BY DEF Patient, Users, BotVote
<1>2. \A c \in calls' : c.by \in Patient => c.by # b
  BY <1>1
<1> QED
  BY <1>1, <1>2, VoteOK

LEMMA VoteArrivesOK == ASSUME SInv, NEW c \in calls, VoteArrives(c)  PROVE SInv'
<1>0. calls' = calls \ {c} /\ c \in [by: Users, turn: Nat, again: BOOLEAN]
  BY DEF VoteArrives, SInv, Types
<1>1. CASE phase = "voting" /\ c.by \in pending
  <2>1. CastVotes({c.by}) /\ Publish
    BY <1>1 DEF VoteArrives
  <2>2. c.by \in Patient => hasVoted[c.by] /\ seen[c.by] = Now
    BY DEF SInv, Timely, ForThisVote
  <2>3. ASSUME NEW d \in calls', d.by \in Patient, d.by = c.by  PROVE FALSE
    <3>1. d \in calls /\ d # c /\ d \in [by: Users, turn: Nat, again: BOOLEAN]
      BY <1>0, <2>3 DEF SInv, Types
    <3>2. d.turn = turn /\ ~ d.again /\ c.turn = turn /\ ~ c.again
      BY <2>3, <3>1 DEF SInv, Timely, ForThisVote
    <3>3. d.again = c.again
      BY <3>1, <3>2, <1>0
    <3> QED
      BY <2>3, <3>1, <3>2, <3>3, <1>0
  <2> QED
    BY <1>0, <2>1, <2>2, <2>3, VoteOK
<1>2. CASE ~ (phase = "voting" /\ c.by \in pending)
  <2>0. Still /\ hasVoted' = hasVoted /\ buttons' = buttons /\ calls' \subseteq calls
    BY <1>0, <1>2 DEF VoteArrives, Still, vars, phones
  <2>1. /\ Now' = Now /\ Now \in State /\ \A v \in Users, s \in State : Concerns(s, v)' = Concerns(s, v)
        /\ Table' /\ InOrder' /\ Told' /\ VotedNow'
    BY <2>0, StillOK
  <2>2. Types' /\ Screens'
    BY <2>0 DEF SInv, Types, Screens, Still
  <2>3. Shown'
    <3>1. \A v \in Users : seen[v] \in State
      BY DEF SInv, Types
    <3> QED
      BY <3>1, <2>0, <2>1 DEF SInv, Shown, Still
  <2>4. Timely'
    BY <2>0, <2>1 DEF SInv, Timely, ForThisVote, Still
  <2> QED
    BY <2>1, <2>2, <2>3, <2>4 DEF SInv
<1> QED
  BY <1>1, <1>2

----------------------------------------------------------------------------
(******************************* The theorems ******************************)

\* Every step of the phones and of the backend preserves the invariant.
LEMMA NextSInv == ASSUME SInv, [SNext]_svars  PROVE SInv'
<1>1. CASE UNCHANGED svars
  <2>0. Still /\ hasVoted' = hasVoted /\ buttons' = buttons /\ calls' = calls
    BY <1>1 DEF svars, Still, vars, phones
  <2>1. /\ Now' = Now /\ \A v \in Users, s \in State : Concerns(s, v)' = Concerns(s, v)
        /\ Table' /\ InOrder' /\ Told' /\ VotedNow'
    BY <2>0, StillOK
  <2>2. Types' /\ Screens'
    BY <2>0 DEF SInv, Types, Screens, Still
  <2>3. Shown'
    <3>1. \A v \in Users : seen[v] \in State
      BY DEF SInv, Types
    <3> QED
      BY <3>1, <2>0, <2>1 DEF SInv, Shown, Still
  <2>4. Timely'
    BY <2>0, <2>1 DEF SInv, Timely, ForThisVote, Still
  <2> QED
    BY <2>1, <2>2, <2>3, <2>4 DEF SInv
<1>2. CASE \E p \in Seats : Join(p)
  BY <1>2, JoinOK
<1>3. CASE \E r \in Rounds : \E order \in [1..Cardinality(joined) -> joined] : StartGame(order, r)
  BY <1>3, StartGameOK
<1>4. CASE WordArrives
  BY <1>4, WordArrivesOK
<1>5. CASE \E b \in Bots : BotVote(b)
  BY <1>5, BotVoteOK
<1>6. CASE \E c \in calls : VoteArrives(c) \/ CallFails(c)
  BY <1>6, VoteArrivesOK, CallFailsOK
<1>7. ASSUME NEW u \in Users, OpenLobby(u) \/ LobbyHears(u) \/ GameHears(u)
      PROVE  SInv'
  BY <1>7, OpenLobbyOK, LobbyHearsOK, GameHearsOK
<1>8. ASSUME NEW u \in Users, Redraw(u) \/ Tap(u) \/ Reconnect(u)
      PROVE  SInv'
  BY <1>8, RedrawOK, TapOK, ReconnectOK
<1> QED
  BY <1>1, <1>2, <1>3, <1>4, <1>5, <1>6, <1>7, <1>8 DEF SNext

\* The invariant about phones and calls under way.
THEOREM ScreensInvariant == ScreenSpec => []SInv
  BY InitSInv, NextSInv, PTL DEF ScreenSpec

\* However late, the vote of a user who taps once is for the word it was shown
\* (voteOnWord is told no turn, GameScreenVC keeps hasVoted).
THEOREM VotesMeetTheirWord == ScreenSpec => []VotesAreTimely
<1>1. ASSUME SInv  PROVE VotesAreTimely
  <2> SUFFICES ASSUME NEW c \in calls, c.by \notin Impatient
               PROVE  phase = "voting" /\ c.by \in pending /\ c.turn = turn
    BY DEF VotesAreTimely
  <2>1. c.by \in Patient
    BY <1>1 DEF SInv, Types, Patient
  <2> QED
    BY <1>1, <2>1 DEF SInv, Timely, ForThisVote
<1> QED
  BY <1>1, ScreensInvariant, PTL

----------------------------------------------------------------------------
(***************************************************************************)
(* A phone that lost nothing asks for every vote the backend waits for.    *)
(*                                                                         *)
(* It rests on what such a phone is told (Unbroken): between two votes it  *)
(* hears of a submission, which makes room for a new vote, and the last it *)
(* will hear is the present state.  Of a vote that it has sent, the call   *)
(* is then under way or counted (Sent).                                    *)
(***************************************************************************)


\* What phone u is told: the last state it heard of, and those to come.
Line(u, i) == IF i = 0 THEN seen[u] ELSE feed[u][i]

\* A vote follows a submission, and no state is left out before it.
Follows(s, t) == t = s \/ t.phase # "voting" \/ s.phase = "submitting"

\* A phone that listens and lost nothing is told every change up to the present.
HearsAll(u) == /\ \A i \in 0..Len(feed[u]) - 1 : Follows(Line(u, i), Line(u, i + 1))
               /\ Line(u, Len(feed[u])) = Now

Unbroken == \A u \in Users \ missed : screen[u] # "splash" => HearsAll(u)

\* Nobody has a vote sent while the screen shows a submission.
Cleared == \A u \in Users : hasVoted[u] => seen[u].phase # "submitting"

\* The buttons are drawn whenever there is a vote to be asked for.
DrawnInTime == \A u \in Users :
  /\ screen[u] = "game" /\ Asks(u, seen[u], hasVoted[u]) => buttons[u] = "shown"
  /\ buttons[u] = "tapped" => hasVoted[u]

\* The vote a phone has sent is counted or under way.
Sent == \A u \in Users \ missed :
  hasVoted[u] /\ seen[u] = Now /\ phase = "voting" =>
    u \notin pending \/ \E c \in calls : c.by = u

\* The player whose word it is does not vote.
OthersVote == phase = "voting" => Active \notin pending

HInv == Unbroken /\ Cleared /\ DrawnInTime /\ Sent /\ OthersVote

----------------------------------------------------------------------------
(********************************* Events **********************************)

\* A phone takes its next event: every phone still hears all.
LEMMA HearingGoesOn ==
  ASSUME Types, UNCHANGED <<phase, turn>>, NEW u \in Users, feed[u] # <<>>,
         seen' = [seen EXCEPT ![u] = Head(feed[u])], feed' = [feed EXCEPT ![u] = Tail(@)],
         NEW v \in Users, HearsAll(v)
  PROVE  HearsAll(v)' /\ (v = u => Follows(seen[u], seen'[u]))
<1>0. Now' = Now
  BY DEF Now
<1>1. CASE v # u
  <2>1. seen'[v] = seen[v] /\ feed'[v] = feed[v]
    BY <1>1 DEF Types
  <2> QED
    BY <1>0, <1>1, <2>1 DEF HearsAll, Line
<1>2. CASE v = u
  <2>1. feed[u] \in Seq(State) /\ Len(feed[u]) \in Nat /\ Len(feed[u]) >= 1
    BY DEF Types
  <2>2. seen'[u] = feed[u][1] /\ feed'[u] = Tail(feed[u])
    BY <2>1 DEF Types
  <2>3. Len(feed'[u]) = Len(feed[u]) - 1 /\ \A i \in 1..Len(feed[u]) - 1 : feed'[u][i] = feed[u][i + 1]
    <3>1. \A f \in Seq(State) : Len(f) >= 1 => Len(Tail(f)) = Len(f) - 1
      OBVIOUS
    <3>2. \A f \in Seq(State) : Len(f) >= 1 => \A i \in 1..Len(f) - 1 : Tail(f)[i] = f[i + 1]
      OBVIOUS
    <3> QED
      BY <2>1, <2>2, <3>1, <3>2
  <2>4. \A i \in 0..Len(feed'[u]) : Line(u, i)' = Line(u, i + 1)
    <3> SUFFICES ASSUME NEW i \in 0..Len(feed'[u])  PROVE Line(u, i)' = Line(u, i + 1)
      OBVIOUS
    <3>1. CASE i = 0
      BY <3>1, <2>2 DEF Line
    <3>2. CASE i # 0
      BY <3>2, <2>1, <2>3 DEF Line
    <3> QED
      BY <3>1, <3>2
  <2>5. ASSUME NEW i \in 0..Len(feed'[u]) - 1  PROVE Follows(Line(u, i)', Line(u, i + 1)')
    <3>1. Follows(Line(u, i + 1), Line(u, (i + 1) + 1))
      BY <1>2, <2>1, <2>3 DEF HearsAll
    <3>2. Line(u, i)' = Line(u, i + 1) /\ Line(u, i + 1)' = Line(u, (i + 1) + 1)
      BY <2>1, <2>3, <2>4
    <3> QED
      BY <3>1, <3>2
  <2>6. Line(u, Len(feed[u])) = Now
    BY <1>2 DEF HearsAll
  <2>7. \A n : n = Len(feed'[u]) => Line(u, n)' = Now'
    <3> SUFFICES ASSUME NEW n, n = Len(feed'[u])  PROVE Line(u, n)' = Now'
      OBVIOUS
    <3>1. n \in 0..Len(feed'[u]) /\ n + 1 = Len(feed[u])
      BY <2>1, <2>3
    <3> QED
      BY <3>1, <2>4, <2>6, <1>0
  <2>8. HearsAll(u)'
    BY <2>5, <2>7 DEF HearsAll
  <2>9. Follows(seen[u], seen'[u])
    <3>1. Follows(Line(u, 0), Line(u, 0 + 1))
      BY <1>2, <2>1 DEF HearsAll
    <3> QED
      BY <3>1, <2>2 DEF Line
  <2> QED
    BY <1>2, <2>8, <2>9
<1> QED
  BY <1>1, <1>2

\* A commit is announced to a phone that listens.
LEMMA AnnouncingGoesOn ==
  ASSUME Types, Publish, Follows(Now, Now'), NEW v \in Users, screen[v] # "splash", HearsAll(v)
  PROVE  HearsAll(v)'
<1> DEFINE len == Len(feed[v])
<1>1. feed[v] \in Seq(State) /\ len \in Nat
  BY DEF Types
<1>2. seen'[v] = seen[v] /\ feed'[v] = Append(feed[v], Now')
  BY DEF Publish, Now
<1>3. Len(feed'[v]) = len + 1 /\ feed'[v][len + 1] = Now' /\ \A i \in 1..len : feed'[v][i] = feed[v][i]
  BY <1>1, <1>2
<1>4. \A i \in 0..len : Line(v, i)' = Line(v, i)
  BY <1>1, <1>2, <1>3 DEF Line
<1>5. \A n : n = len + 1 => Line(v, n)' = Now'
  BY <1>1, <1>3 DEF Line
<1>6. ASSUME NEW i \in 0..Len(feed'[v]) - 1  PROVE Follows(Line(v, i)', Line(v, i + 1)')
  <2>1. CASE i = len
    <3>1. Line(v, i)' = Now
      BY <2>1, <1>1, <1>4 DEF HearsAll
    <3>2. Line(v, i + 1)' = Now'
      BY <2>1, <1>1, <1>5
    <3> QED
      BY <3>1, <3>2
  <2>2. CASE i # len
    <3>1. i \in 0..len - 1 /\ i + 1 \in 0..len
      BY <2>2, <1>1, <1>3
    <3> QED
      BY <3>1, <1>4 DEF HearsAll
  <2> QED
    BY <2>1, <2>2
<1>7. \A n : n = Len(feed'[v]) => Line(v, n)' = Now'
  BY <1>3, <1>5
<1> QED
  BY <1>6, <1>7 DEF HearsAll

----------------------------------------------------------------------------
(******************************** The phones *******************************)

LEMMA InitHInv == ASSUME SInit  PROVE HInv
<1> USE DEF SInit, Init
<1>1. \A u \in Users : seen[u] = Now /\ Len(feed[u]) = 0 /\ ~ hasVoted[u] /\ buttons[u] = "hidden"
  OBVIOUS
<1>2. Unbroken
  BY <1>1 DEF Unbroken, HearsAll, Line
<1>3. Cleared /\ Sent
  BY <1>1 DEF Cleared, Sent
<1>4. DrawnInTime
  BY <1>1 DEF DrawnInTime
<1>5. OthersVote
  BY DEF OthersVote
<1> QED
  BY <1>2, <1>3, <1>4, <1>5 DEF HInv

LEMMA OpenLobbyAsks == ASSUME SInv, HInv, NEW u \in Users, OpenLobby(u)  PROVE HInv'
<1> USE DEF OpenLobby, vars
<1>0. /\ Now' = Now /\ Now \in State /\ feed[u] = <<>> /\ ~ hasVoted[u] /\ buttons[u] = "hidden"
      /\ seen'[u] = Now /\ screen'[u] = "lobby"
      /\ \A v \in Users \ {u} : seen'[v] = seen[v] /\ screen'[v] = screen[v]
  BY DEF Now, SInv, Screens, Types, State
<1>1. HearsAll(u)'
  BY <1>0 DEF HearsAll, Line
<1>2. \A v \in Users \ {u} : HearsAll(v) => HearsAll(v)'
  BY <1>0 DEF HearsAll, Line
<1>3. Unbroken'
  BY <1>0, <1>1, <1>2 DEF HInv, Unbroken
<1>4. Cleared' /\ Sent'
  BY <1>0 DEF HInv, Cleared, Sent
<1>5. ASSUME NEW v \in Users
      PROVE  /\ screen'[v] = "game" /\ Asks(v, seen[v], hasVoted[v])' => buttons'[v] = "shown"
             /\ buttons'[v] = "tapped" => hasVoted'[v]
  <2>1. CASE v = u
    BY <2>1, <1>0
  <2>2. CASE v # u
    BY <2>2, <1>0 DEF HInv, DrawnInTime, Asks
  <2> QED
    BY <2>1, <2>2
<1>6. DrawnInTime' /\ OthersVote'
  BY <1>5 DEF HInv, DrawnInTime, OthersVote, Active
<1> QED
  BY <1>3, <1>4, <1>6 DEF HInv

LEMMA LobbyHearsAsks == ASSUME SInv, HInv, NEW u \in Users, LobbyHears(u)  PROVE HInv'
<1> USE DEF LobbyHears, vars
<1> DEFINE s == Head(feed[u])
<1>0. /\ Now' = Now /\ ~ hasVoted[u] /\ buttons[u] = "hidden" /\ screen[u] = "lobby"
      /\ s \in State /\ seen'[u] = s
      /\ screen'[u] = "game" => s.phase = "submitting"
      /\ screen'[u] # "splash"
      /\ \A v \in Users \ {u} : seen'[v] = seen[v] /\ screen'[v] = screen[v]
  BY NextEvent DEF Now, SInv, Screens, Types
<1> HIDE DEF s
<1>1. Unbroken'
  BY <1>0, HearingGoesOn DEF SInv, HInv, Unbroken
<1>2. Cleared' /\ Sent'
  BY <1>0 DEF HInv, Cleared, Sent
<1>3. ASSUME NEW v \in Users
      PROVE  /\ screen'[v] = "game" /\ Asks(v, seen[v], hasVoted[v])' => buttons'[v] = "shown"
             /\ buttons'[v] = "tapped" => hasVoted'[v]
  <2>1. CASE v = u
    BY <2>1, <1>0 DEF Asks
  <2>2. CASE v # u
    BY <2>2, <1>0 DEF HInv, DrawnInTime, Asks
  <2> QED
    BY <2>1, <2>2
<1>4. DrawnInTime' /\ OthersVote'
  BY <1>3 DEF HInv, DrawnInTime, OthersVote, Active
<1> QED
  BY <1>1, <1>2, <1>4 DEF HInv

LEMMA GameHearsAsks == ASSUME SInv, HInv, NEW u \in Users, GameHears(u)  PROVE HInv'
<1> USE DEF GameHears, vars
<1> DEFINE s == Head(feed[u])
<1>0. /\ Now' = Now /\ screen[u] = "game" /\ s \in State /\ seen'[u] = s /\ screen'[u] # "splash"
      /\ hasVoted'[u] = VotedAfter(u, s) /\ buttons'[u] = Drawn(u, s, VotedAfter(u, s))
      /\ \A v \in Users \ {u} : /\ seen'[v] = seen[v] /\ screen'[v] = screen[v]
                                /\ hasVoted'[v] = hasVoted[v] /\ buttons'[v] = buttons[v]
  BY NextEvent DEF Now, SInv, Screens, Types, VotedAfter
<1>1. Unbroken' /\ (u \notin missed => Follows(seen[u], s))
  BY <1>0, HearingGoesOn DEF SInv, HInv, Unbroken
<1> HIDE DEF s
<1>3. hasVoted'[u] => hasVoted[u] /\ ~ (s.phase = "submitting" /\ seen[u].phase # "submitting")
  BY <1>0 DEF VotedAfter
<1>4. hasVoted[u] => seen[u].phase # "submitting"
  BY DEF HInv, Cleared
<1>5. Cleared'
  BY <1>0, <1>3, <1>4 DEF HInv, Cleared
<1>6. ASSUME u \notin missed, hasVoted'[u], s = Now, phase = "voting"
      PROVE  u \notin pending \/ \E c \in calls : c.by = u
  <2>1. seen[u] = s
    BY <1>1, <1>3, <1>4, <1>6 DEF Follows, Now
  <2> QED
    BY <2>1, <1>3, <1>6 DEF HInv, Sent
<1>7. Sent'
  BY <1>0, <1>6 DEF HInv, Sent
<1>8. ASSUME NEW v \in Users
      PROVE  /\ screen'[v] = "game" /\ Asks(v, seen[v], hasVoted[v])' => buttons'[v] = "shown"
             /\ buttons'[v] = "tapped" => hasVoted'[v]
  <2>1. CASE v = u
    BY <2>1, <1>0 DEF Drawn, Asks
  <2>2. CASE v # u
    BY <2>2, <1>0 DEF HInv, DrawnInTime, Asks
  <2> QED
    BY <2>1, <2>2
<1>9. DrawnInTime' /\ OthersVote'
  BY <1>8 DEF HInv, DrawnInTime, OthersVote, Active
<1> QED
  BY <1>1, <1>5, <1>7, <1>9 DEF HInv

LEMMA RedrawAsks == ASSUME SInv, HInv, NEW u \in Users, Redraw(u)  PROVE HInv'
<1> USE DEF Redraw, vars
<1>0. /\ Now' = Now /\ buttons'[u] = Drawn(u, seen[u], hasVoted[u])
      /\ \A v \in Users \ {u} : buttons'[v] = buttons[v]
  BY DEF Now, SInv, Types
<1>1. Unbroken'
  BY <1>0 DEF HInv, Unbroken, HearsAll, Line
<1>2. Cleared' /\ Sent'
  BY <1>0 DEF HInv, Cleared, Sent
<1>3. DrawnInTime' /\ OthersVote'
  BY <1>0 DEF HInv, DrawnInTime, OthersVote, Active, Asks, Drawn
<1> QED
  BY <1>1, <1>2, <1>3 DEF HInv

LEMMA TapAsks == ASSUME SInv, HInv, NEW u \in Users, Tap(u)  PROVE HInv'
<1> USE DEF Tap, vars
<1>0. /\ Now' = Now /\ hasVoted'[u] /\ buttons'[u] = "tapped" /\ calls \subseteq calls'
      /\ \A v \in Users \ {u} : hasVoted'[v] = hasVoted[v] /\ buttons'[v] = buttons[v]
  BY DEF Now, SInv, Types
<1>1. \E c \in calls' : c.by = u
  <2>1. [by |-> u, turn |-> seen[u].turn, again |-> buttons[u] = "tapped"] \in calls'
    OBVIOUS
  <2> QED
    BY <2>1
<1>2. Unbroken'
  <2>1. Unbroken /\ UNCHANGED <<joined, screen, seen, feed, missed, Now>>
    BY <1>0 DEF HInv
  <2> QED
    BY <2>1 DEF Unbroken, HearsAll, Line
<1>3. seen[u].phase # "submitting"
  <2>1. CASE buttons[u] = "shown"
    BY <2>1 DEF SInv, Shown, Concerns
  <2>2. CASE buttons[u] = "tapped"
    BY <2>2 DEF HInv, DrawnInTime, Cleared
  <2> QED
    BY <2>1, <2>2
<1>4. Cleared' /\ Sent'
  BY <1>0, <1>1, <1>3 DEF HInv, Cleared, Sent
<1>5. DrawnInTime' /\ OthersVote'
  BY <1>0 DEF HInv, DrawnInTime, OthersVote, Active, Asks
<1> QED
  BY <1>2, <1>4, <1>5 DEF HInv

\* A phone that loses an event or a call is no longer spoken of.
LEMMA LossAsks ==
  ASSUME SInv, HInv, NEW u \in Users, Reconnect(u) \/ \E c \in calls : c.by = u /\ CallFails(c)
  PROVE  HInv'
<1> USE DEF Reconnect, CallFails, vars, phones
<1>0. /\ Now' = Now /\ missed' = missed \cup {u} /\ calls' \subseteq calls
      /\ \A c \in calls : c.by # u => c \in calls'
      /\ UNCHANGED <<vars, joined, screen, seen, hasVoted, buttons>>
      /\ \A v \in Users \ {u} : feed'[v] = feed[v]
  BY DEF Now, SInv, Types
<1>1. \A v \in Users \ {u} : HearsAll(v) => HearsAll(v)'
  BY <1>0 DEF HearsAll, Line
<1>2. Unbroken'
  BY <1>0, <1>1 DEF HInv, Unbroken
<1>3. Cleared'
  BY <1>0 DEF HInv, Cleared
<1>4. Sent'
  BY <1>0 DEF HInv, Sent
<1>5. DrawnInTime' /\ OthersVote'
  BY <1>0 DEF HInv, DrawnInTime, OthersVote, Active, Asks
<1> QED
  BY <1>2, <1>3, <1>4, <1>5 DEF HInv

----------------------------------------------------------------------------
(******************************* The backend *******************************)

\* Nobody is asked before the start.
LEMMA NobodyAsked ==
  ASSUME SInv, phase = "gathering", NEW u \in Users
  PROVE  seen[u].phase # "voting"
<1>1. Rank(Now) = 0 /\ Now \in State
  BY DEF SInv, Table, Rank, PhaseNo, Now, State, Types
<1>2. seen[u] \in State /\ Rank(seen[u]) <= 0
  BY <1>1 DEF SInv, InOrder, Heard, Types
<1>3. seen[u] = Now
  BY <1>1, <1>2, RankIsNat, RankTells
<1> QED
  BY <1>3 DEF Now

LEMMA JoinAsks == ASSUME SInv, HInv, NEW p \in Seats, Join(p)  PROVE HInv'
<1> USE DEF Join, vars, phones
<1>1. Now' = Now /\ \A v \in Users : HearsAll(v)' = HearsAll(v)
  BY DEF Now, HearsAll, Line
<1>2. Unbroken' /\ Cleared' /\ Sent'
  BY <1>1 DEF HInv, Unbroken, Cleared, Sent
<1>3. DrawnInTime' /\ OthersVote'
  BY DEF HInv, DrawnInTime, OthersVote, Active, Asks
<1> QED
  BY <1>2, <1>3 DEF HInv

\* A commit that does not begin a vote: what the phones show is not disturbed.
LEMMA CommitAsks ==
  ASSUME SInv, HInv, Publish, Follows(Now, Now'), seating' = seating \/ phase = "gathering",
         \A u \in Users \ missed : hasVoted[u] /\ seen[u] = Now' /\ phase' = "voting" =>
                                     u \notin pending' \/ \E c \in calls' : c.by = u,
         OthersVote'
  PROVE  HInv'
<1>0. UNCHANGED <<joined, screen, seen, hasVoted, buttons, missed>>
  BY DEF Publish
<1>1. Unbroken'
  BY <1>0, AnnouncingGoesOn DEF SInv, HInv, Unbroken
<1>2. Cleared'
  BY <1>0 DEF HInv, Cleared
<1>3. Sent'
  BY <1>0 DEF Sent
<1>4. DrawnInTime'
  <2>1. CASE seating' = seating
    BY <2>1, <1>0 DEF HInv, DrawnInTime, Asks
  <2>2. CASE phase = "gathering"
    <3>1. \A u \in Users : ~ Asks(u, seen[u], hasVoted[u])'
      BY <2>2, <1>0, NobodyAsked DEF Asks
    <3> QED
      BY <3>1, <1>0 DEF HInv, DrawnInTime
  <2> QED
    BY <2>1, <2>2
<1> QED
  BY <1>1, <1>2, <1>3, <1>4 DEF HInv

LEMMA StartGameAsks ==
  ASSUME SInv, HInv, NEW r \in Rounds, NEW order \in [1..Cardinality(joined) -> joined], StartGame(order, r)
  PROVE  HInv'
<1>1. phase = "gathering" /\ phase' = "submitting" /\ Publish
  BY DEF StartGame, Start
<1>2. Follows(Now, Now') /\ OthersVote'
  BY <1>1 DEF Follows, Now, OthersVote
<1> QED
  BY <1>1, <1>2, CommitAsks

LEMMA DecideAsks == ASSUME SInv, HInv, Decide, Publish  PROVE HInv'
<1>1. phase' # "voting" /\ seating' = seating
  BY DEF Decide
<1>2. Follows(Now, Now') /\ OthersVote'
  BY <1>1 DEF Follows, Now, OthersVote
<1> QED
  BY <1>1, <1>2, CommitAsks

LEMMA PutToVoteAsks == ASSUME SInv, HInv, PutToVote, Publish  PROVE HInv'
<1>1. /\ phase = "submitting" /\ phase' = "voting" /\ turn' = turn /\ turn \in Nat /\ seating' = seating
      /\ pending' = Seated \ {Active}
  BY DEF PutToVote, SInv, Types
<1>2. Follows(Now, Now')
  BY <1>1 DEF Follows, Now
<1>3. OthersVote'
  BY <1>1 DEF OthersVote, Active
<1>4. ASSUME NEW u \in Users  PROVE seen[u] # Now'
  <2>1. seen[u] \in Heard(u)
    BY DEF Heard
  <2>2. Rank(seen[u]) <= Rank(Now)
    BY <2>1 DEF SInv, InOrder
  <2>3. Rank(Now') = Rank(Now) + 1 /\ Rank(Now) \in Nat
    BY <1>1 DEF Rank, PhaseNo, Now
  <2> QED
    BY <2>2, <2>3
<1> QED
  BY <1>1, <1>2, <1>3, <1>4, CommitAsks

LEMMA WordArrivesAsks == ASSUME SInv, HInv, WordArrives  PROVE HInv'
  BY DecideAsks, PutToVoteAsks DEF WordArrives, Hit

\* The vote of p is counted; no other user's call is taken away.
LEMMA VoteAsks ==
  ASSUME SInv, HInv, NEW p, CastVotes({p}), Publish, \A c \in calls : c.by # p => c \in calls'
  PROVE  HInv'
<1>1. CASE pending = {p}
  BY <1>1, DecideAsks DEF CastVotes
<1>2. CASE pending # {p}
  <2>1. phase = "voting" /\ pending' = pending \ {p} /\ UNCHANGED <<phase, seating, turn>>
    BY <1>2 DEF CastVotes
  <2>2. Now' = Now
    BY <2>1 DEF Now
  <2>3. Follows(Now, Now')
    BY <2>2 DEF Follows
  <2>4. OthersVote'
    BY <2>1 DEF HInv, OthersVote, Active
  <2>5. ASSUME NEW u \in Users \ missed, hasVoted[u], seen[u] = Now', phase' = "voting"
        PROVE  u \notin pending' \/ \E c \in calls' : c.by = u
    <3>1. u \notin pending \/ \E c \in calls : c.by = u
      BY <2>1, <2>2, <2>5 DEF HInv, Sent
    <3> QED
      BY <2>1, <3>1
  <2> QED
    BY <2>1, <2>3, <2>4, <2>5, CommitAsks
<1> QED
  BY <1>1, <1>2

LEMMA VoteArrivesAsks == ASSUME SInv, HInv, NEW c \in calls, VoteArrives(c)  PROVE HInv'
<1>0. calls' = calls \ {c}
  BY DEF VoteArrives
<1>1. CASE phase = "voting" /\ c.by \in pending
  BY <1>0, <1>1, VoteAsks DEF VoteArrives
<1>2. CASE ~ (phase = "voting" /\ c.by \in pending)
  <2>0. UNCHANGED <<vars, joined, phones, missed>>
    BY <1>2 DEF VoteArrives
  <2>1. Now' = Now /\ \A v \in Users : HearsAll(v)' = HearsAll(v)
    BY <2>0 DEF Now, HearsAll, Line, vars, phones
  <2>2. Unbroken' /\ Cleared'
    BY <2>0, <2>1 DEF HInv, Unbroken, Cleared, vars, phones
  <2>3. Sent'
    BY <1>0, <1>2, <2>0, <2>1 DEF HInv, Sent, vars, phones
  <2>4. DrawnInTime' /\ OthersVote'
    BY <2>0 DEF HInv, DrawnInTime, OthersVote, Active, Asks, vars, phones
  <2> QED
    BY <2>2, <2>3, <2>4 DEF HInv
<1> QED
  BY <1>1, <1>2

----------------------------------------------------------------------------
(******************************** The theorem ******************************)

LEMMA NextHInv == ASSUME SInv, HInv, [SNext]_svars  PROVE HInv'
<1>1. CASE UNCHANGED svars
  <2>1. Now' = Now /\ \A v \in Users : HearsAll(v)' = HearsAll(v)
    BY <1>1 DEF Now, HearsAll, Line, svars, vars, phones
  <2>2. Unbroken' /\ Cleared' /\ Sent'
    BY <1>1, <2>1 DEF HInv, Unbroken, Cleared, Sent, svars, vars, phones
  <2>3. DrawnInTime' /\ OthersVote'
    BY <1>1 DEF HInv, DrawnInTime, OthersVote, Active, Asks, svars, vars, phones
  <2> QED
    BY <2>2, <2>3 DEF HInv
<1>2. CASE \E p \in Seats : Join(p)
  BY <1>2, JoinAsks
<1>3. CASE \E r \in Rounds : \E order \in [1..Cardinality(joined) -> joined] : StartGame(order, r)
  BY <1>3, StartGameAsks
<1>4. CASE WordArrives
  BY <1>4, WordArrivesAsks
<1>5. CASE \E b \in Bots : BotVote(b)
  BY <1>5, VoteAsks DEF BotVote
<1>6. CASE \E c \in calls : VoteArrives(c)
  BY <1>6, VoteArrivesAsks
<1>7. ASSUME NEW c \in calls, CallFails(c)  PROVE HInv'
  <2>1. c.by \in Users
    BY DEF SInv, Types
  <2> QED
    BY <1>7, <2>1, LossAsks
<1>8. ASSUME NEW u \in Users, OpenLobby(u) \/ LobbyHears(u) \/ GameHears(u)
      PROVE  HInv'
  BY <1>8, OpenLobbyAsks, LobbyHearsAsks, GameHearsAsks
<1>9. ASSUME NEW u \in Users, Redraw(u) \/ Tap(u) \/ Reconnect(u)
      PROVE  HInv'
  BY <1>9, RedrawAsks, TapAsks, LossAsks
<1> QED
  BY <1>1, <1>2, <1>3, <1>4, <1>5, <1>6, <1>7, <1>8, <1>9 DEF SNext

\* A phone on the game screen that lost nothing shows the buttons of every
\* vote the backend waits for (GameScreenVC's listeners and its table).
THEOREM EveryVoteIsAskedFor == ScreenSpec => []AskedWhenMissing
<1>1. ASSUME HInv  PROVE AskedWhenMissing
  <2> SUFFICES ASSUME NEW u \in Users \ missed, screen[u] = "game", Missing(u)
               PROVE  buttons[u] = "shown"
    BY DEF AskedWhenMissing
  <2>1. HearsAll(u) /\ Len(feed[u]) = 0
    BY <1>1 DEF HInv, Unbroken, Missing
  <2>2. seen[u] = Now
    BY <2>1 DEF HearsAll, Line
  <2>3. phase = "voting" /\ u \in pending /\ ~ hasVoted[u]
    BY <1>1, <2>2 DEF HInv, Sent, Missing
  <2>4. Active # u
    BY <1>1, <2>3 DEF HInv, OthersVote
  <2>5. Asks(u, seen[u], hasVoted[u])
    BY <2>2, <2>3, <2>4 DEF Asks, Now, Active
  <2> QED
    BY <1>1, <2>5 DEF HInv, DrawnInTime
<1>2. SInv /\ HInv /\ [SNext]_svars => HInv'
  BY NextHInv
<1>3. SInit => HInv
  BY InitHInv
<1> QED
  BY <1>1, <1>2, <1>3, ScreensInvariant, PTL DEF ScreenSpec
=============================================================================
