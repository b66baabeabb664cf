------------------------ MODULE LobbyDirectoryProofs ------------------------
(***************************************************************************)
(* Proofs about LobbyDirectory, for any number of users, lobbies, codes    *)
(* and calls under way: what a code, a lobby and a screen are to each      *)
(* other however the writes of createLobby and joinLobby are interleaved,  *)
(* fail or never happen.                                                   *)
(***************************************************************************)
EXTENDS LobbyDirectory, TLAPS

Unmapped(l) == \A c \in Codes : lobbyCodeMap[c] # l

\* What the writes a call has still to do say about its lobby: nothing is there
\* before the push and the host's seat comes after it; a call that failed
\* before the push failed to get its code, and one that did not fail has it.
GoodCall(k) ==
  /\ "push" \in k.todo => /\ k.kind = "create" /\ "update" \in k.todo
                          /\ lobbies[k.lobby] = Absent
                          /\ k.failed => Unmapped(k.lobby) /\ "code" \notin k.todo
  /\ "code" \in k.todo => k.kind = "create" /\ Unmapped(k.lobby)
  /\ k.kind = "create" /\ "push" \notin k.todo => lobbies[k.lobby].status # "absent"
  /\ "update" \notin k.todo /\ ~ k.failed => k.user \in lobbies[k.lobby].players
  /\ k.answered => k.failed
  /\ "code" \notin k.todo /\ ~ k.failed => ~ Unmapped(k.lobby)

GoodCalls == \A k \in calls : GoodCall(k)

\* A key is handed out once.
OneCreator == \A j, k \in calls : j.kind = "create" /\ k.kind = "create" /\ j.lobby = k.lobby => j = k

Pushing(k, l) == k.kind = "create" /\ k.lobby = l /\ "push" \in k.todo /\ "code" \notin k.todo /\ ~ k.failed

\* A code leads to a lobby that is there, or whose push is on its way.
CodesLead ==
  \A c \in Codes : lobbyCodeMap[c] # None =>
    \/ lobbies[lobbyCodeMap[c]].status # "absent"
    \/ \E k \in calls : Pushing(k, lobbyCodeMap[c])

DInv == TypeOK /\ GoodCalls /\ OneCreator /\ CodesLead /\ ScreenIsSeated /\ OneCodePerLobby

----------------------------------------------------------------------------
\* A call one of whose writes is done, or has failed, is otherwise the same.
LEMMA WriteDone ==
  ASSUME NEW k \in Call, NEW w
  PROVE  LET d == [k EXCEPT !.todo = @ \ {w}]
         IN  /\ d \in Call /\ d.todo = k.todo \ {w} /\ d.failed = k.failed
             /\ d.kind = k.kind /\ d.user = k.user /\ d.lobby = k.lobby
             /\ d.answered = k.answered
  BY DEF Call

LEMMA WriteFailed ==
  ASSUME NEW k \in Call, NEW w
  PROVE  LET d == [k EXCEPT !.todo = @ \ {w}, !.failed = TRUE]
         IN  /\ d \in Call /\ d.todo = k.todo \ {w} /\ d.failed
             /\ d.kind = k.kind /\ d.user = k.user /\ d.lobby = k.lobby
             /\ d.answered = k.answered
  BY DEF Call

LEMMA CallAnswered ==
  ASSUME NEW k \in Call
  PROVE  LET d == [k EXCEPT !.answered = TRUE]
         IN  /\ d \in Call /\ d.todo = k.todo /\ d.failed = k.failed
             /\ d.kind = k.kind /\ d.user = k.user /\ d.lobby = k.lobby
             /\ d.answered
  BY DEF Call

\* A call that goes on keeps its key to itself.
LEMMA StillOneCreator ==
  ASSUME TypeOK, OneCreator, NEW k \in calls, NEW d \in Call,
         d.kind = k.kind, d.lobby = k.lobby, Replace(k, d)
  PROVE  OneCreator'
  BY DEF OneCreator, Replace

\* In the beginning there are no calls and no codes.
LEMMA InitDInv == Init => DInv
  BY DirectoryAssumption
     DEF Init, DInv, TypeOK, GoodCalls, OneCreator, CodesLead, ScreenIsSeated, OneCodePerLobby, Absent

\* A new call: a fresh key is nobody's and no code leads to it.
LEMMA NewCallDInv ==
  ASSUME DInv, NEW u \in Users,
         \/ \E l \in Lobbies : CreateLobby(u, l)
         \/ \E c \in Codes : JoinLobby(u, c)
  PROVE  DInv'
<1> USE DEF DInv
<1>1. CASE \E l \in Lobbies : CreateLobby(u, l)
  <2> PICK l \in Lobbies : CreateLobby(u, l)
    BY <1>1
  <2> DEFINE n == NewCall("create", u, l, Writes)
  <2>1. /\ n \in Call /\ n.todo = Writes /\ n.kind = "create" /\ n.lobby = l
        /\ ~ n.failed /\ ~ n.answered
    BY DEF NewCall, Call
  <2>2. /\ calls' = calls \cup {n} /\ UNCHANGED <<lobbies, lobbyCodeMap, playerLobbyMap, screen>>
        /\ lobbies[l] = Absent /\ \A k \in calls : k.lobby # l
    BY DEF CreateLobby, FreshKeys
  <2> HIDE DEF n
  <2>3. Unmapped(l)
    BY <2>2, DirectoryAssumption DEF CodesLead, Unmapped, Pushing, Absent
  <2>4. GoodCall(n)'
    BY <2>1, <2>2, <2>3 DEF GoodCall, Unmapped, Writes
  <2>5. TypeOK'
    BY <2>1, <2>2 DEF TypeOK
  <2>6. GoodCalls'
    BY <2>2, <2>4 DEF GoodCalls, GoodCall, Unmapped
  <2>7. OneCreator'
    BY <2>1, <2>2 DEF OneCreator
  <2>8. CodesLead'
    BY <2>2 DEF CodesLead, Pushing
  <2>9. ScreenIsSeated' /\ OneCodePerLobby'
    BY <2>2 DEF ScreenIsSeated, OneCodePerLobby
  <2> QED
    BY <2>5, <2>6, <2>7, <2>8, <2>9
<1>2. CASE \E c \in Codes : JoinLobby(u, c)
  <2> PICK c \in Codes : JoinLobby(u, c)
    BY <1>2
  <2>1. NewCall("join", u, lobbyCodeMap[c], {"update", "mapping"}) \in Call
    BY DEF NewCall, Call, Writes, JoinLobby, TypeOK
  <2>2. PICK n \in Call : /\ n.todo = {"update", "mapping"} /\ n.kind = "join"
                         /\ n.lobby = lobbyCodeMap[c] /\ ~ n.failed /\ ~ n.answered /\ calls' = calls \cup {n}
    BY <2>1 DEF NewCall, JoinLobby
  <2>3. UNCHANGED <<lobbies, lobbyCodeMap, playerLobbyMap, screen>>
    BY DEF JoinLobby
  <2>4. GoodCall(n)'
    BY <2>2, <2>3 DEF GoodCall, Unmapped
  <2>5. TypeOK'
    BY <2>2, <2>3 DEF TypeOK
  <2>6. GoodCalls'
    BY <2>2, <2>3, <2>4 DEF GoodCalls, GoodCall, Unmapped
  <2>7. OneCreator'
    BY <2>2, <2>3 DEF OneCreator
  <2>8. CodesLead'
    BY <2>2, <2>3 DEF CodesLead, Pushing
  <2>9. ScreenIsSeated' /\ OneCodePerLobby'
    BY <2>3 DEF ScreenIsSeated, OneCodePerLobby
  <2> QED
    BY <2>5, <2>6, <2>7, <2>8, <2>9
<1> QED
  BY <1>1, <1>2

----------------------------------------------------------------------------
\* The lobby is pushed: nobody was seated in it, and nobody else pushes it.
LEMMA PushDInv ==
  ASSUME DInv, NEW k \in calls, PushLobby(k)
  PROVE  DInv'
<1> USE DEF DInv
<1> DEFINE d == [k EXCEPT !.todo = @ \ {"push"}]
<1>1. /\ d \in Call /\ d.todo = k.todo \ {"push"} /\ d.failed = k.failed
      /\ d.kind = k.kind /\ d.user = k.user /\ d.lobby = k.lobby /\ d.answered = k.answered
  BY WriteDone DEF TypeOK
<1>2. /\ "push" \in k.todo /\ Replace(k, d) /\ UNCHANGED <<lobbyCodeMap, playerLobbyMap, screen>>
  BY DEF PushLobby, Done
<1>3. k \in Call /\ GoodCall(k) /\ k.kind = "create" /\ lobbies[k.lobby] = Absent
  BY <1>2 DEF TypeOK, GoodCalls, GoodCall
<1> HIDE DEF d
<1>4. /\ lobbies' \in [Lobbies -> [status: {"absent", "LOBBY", "SUBMISSION"},
                                  host: Users \cup {None}, players: SUBSET Users]]
      /\ k.lobby \in Lobbies /\ lobbies'[k.lobby].status = "LOBBY"
      /\ \A l \in Lobbies : l # k.lobby => lobbies'[l] = lobbies[l]
  BY <1>3 DEF PushLobby, TypeOK, Call
<1>5. lobbies[k.lobby].players = {} /\ lobbies[k.lobby].status = "absent"
  BY <1>3 DEF Absent
<1>6. TypeOK'
  BY <1>1, <1>2, <1>4 DEF TypeOK, Replace
<1>7. GoodCall(d)'
  BY <1>1, <1>2, <1>3, <1>4 DEF GoodCall, Unmapped
<1>8. ASSUME NEW j \in calls, j # k  PROVE GoodCall(j)'
  <2>1. j \in Call /\ GoodCall(j)
    BY DEF TypeOK, GoodCalls
  <2>2. CASE j.lobby = k.lobby
    <3>1. j.kind # "create"
      BY <1>3, <1>8, <2>2 DEF OneCreator
    <3>2. "update" \in j.todo \/ j.failed
      BY <1>5, <2>1, <2>2 DEF GoodCall
    <3> QED
      BY <1>2, <2>1, <3>1, <3>2 DEF GoodCall, Unmapped
  <2>3. CASE j.lobby # k.lobby
    BY <1>2, <1>4, <2>1, <2>3 DEF GoodCall, Unmapped, Call
  <2> QED
    BY <2>2, <2>3
<1>9. GoodCalls'
  BY <1>2, <1>7, <1>8 DEF GoodCalls, Replace
<1>10. OneCreator'
  BY <1>1, <1>2, StillOneCreator
<1>11. CodesLead'
  <2> SUFFICES ASSUME NEW c \in Codes, lobbyCodeMap[c] # None
               PROVE  \/ lobbies'[lobbyCodeMap[c]].status # "absent"
                      \/ \E j \in calls' : Pushing(j, lobbyCodeMap[c])
    BY <1>2 DEF CodesLead, Pushing
  <2>1. CASE lobbyCodeMap[c] = k.lobby
    BY <1>4, <2>1
  <2>2. CASE lobbyCodeMap[c] # k.lobby
    BY <1>2, <1>4, <2>2 DEF CodesLead, Pushing, Replace, TypeOK
  <2> QED
    BY <2>1, <2>2
<1>12. ScreenIsSeated'
  BY <1>2, <1>4, <1>5 DEF ScreenIsSeated, TypeOK
<1>13. OneCodePerLobby'
  BY <1>2 DEF OneCodePerLobby
<1> QED
  BY <1>6, <1>9, <1>10, <1>11, <1>12, <1>13

\* A player is seated, in a lobby that is open, or refused: seats are only added.
LEMMA UpdateDInv ==
  ASSUME DInv, NEW k \in calls, UpdateLobby(k)
  PROVE  DInv'
<1> USE DEF DInv
<1>0. k \in Call /\ GoodCall(k) /\ "push" \notin k.todo
  BY DEF TypeOK, GoodCalls, UpdateLobby, Adding
<1>1. CASE Open(k.lobby)
  <2> DEFINE d == [k EXCEPT !.todo = @ \ {"update"}]
  <2>1. /\ d \in Call /\ d.todo = k.todo \ {"update"} /\ d.failed = k.failed
        /\ d.kind = k.kind /\ d.user = k.user /\ d.lobby = k.lobby /\ d.answered = k.answered
    BY <1>0, WriteDone
  <2>2. Replace(k, d) /\ UNCHANGED <<lobbyCodeMap, playerLobbyMap, screen>>
    BY <1>1 DEF UpdateLobby, Done
  <2> HIDE DEF d
  <2>3. lobbies' \in [Lobbies -> [status: {"absent", "LOBBY", "SUBMISSION"},
                                 host: Users \cup {None}, players: SUBSET Users]]
    BY <1>0, <1>1 DEF UpdateLobby, TypeOK, Call
  <2>4. k.lobby \in Lobbies /\ k.user \in lobbies'[k.lobby].players
    BY <1>0, <1>1 DEF UpdateLobby, TypeOK, Call
  <2>5. \A l \in Lobbies : l # k.lobby => lobbies'[l] = lobbies[l]
    BY <1>1 DEF UpdateLobby, TypeOK
  <2>6. \A l \in Lobbies : lobbies'[l].status = lobbies[l].status
    BY <1>1 DEF UpdateLobby, TypeOK
  <2>7. \A l \in Lobbies : lobbies[l].players \subseteq lobbies'[l].players
    BY <1>1 DEF UpdateLobby, TypeOK
  <2>8. lobbies[k.lobby] # Absent
    BY <1>1 DEF Open, Absent
  <2>9. TypeOK'
    BY <2>1, <2>2, <2>3 DEF TypeOK, Replace
  <2>10. GoodCall(d)'
    BY <1>0, <2>1, <2>2, <2>4, <2>6 DEF GoodCall, Unmapped
  <2>11. ASSUME NEW j \in calls  PROVE GoodCall(j)'
    <3>1. j \in Call /\ GoodCall(j)
      BY DEF TypeOK, GoodCalls
    <3>2. j.lobby \in Lobbies /\ (lobbies[j.lobby] = Absent => lobbies'[j.lobby] = Absent)
      BY <2>5, <2>8, <3>1 DEF Call
    <3> QED
      BY <2>2, <2>6, <2>7, <3>1, <3>2 DEF GoodCall, Unmapped
  <2>12. GoodCalls'
    BY <2>2, <2>10, <2>11 DEF GoodCalls, Replace
  <2>13. OneCreator'
    BY <2>1, <2>2, StillOneCreator
  <2>14. CodesLead'
    BY <1>0, <2>2, <2>6 DEF CodesLead, Pushing, Replace, TypeOK
  <2>15. ScreenIsSeated' /\ OneCodePerLobby'
    BY <2>2, <2>7 DEF ScreenIsSeated, OneCodePerLobby, TypeOK
  <2> QED
    BY <2>9, <2>12, <2>13, <2>14, <2>15
<1>2. CASE ~ Open(k.lobby)
  <2> DEFINE d == [k EXCEPT !.todo = @ \ {"update"}, !.failed = TRUE]
  <2>1. /\ d \in Call /\ d.todo = k.todo \ {"update"} /\ d.failed
        /\ d.kind = k.kind /\ d.user = k.user /\ d.lobby = k.lobby /\ d.answered = k.answered
    BY <1>0, WriteFailed
  <2>2. Replace(k, d) /\ UNCHANGED <<lobbies, lobbyCodeMap, playerLobbyMap, screen>>
    BY <1>2 DEF UpdateLobby, Failed
  <2> HIDE DEF d
  <2>3. TypeOK'
    BY <2>1, <2>2 DEF TypeOK, Replace
  <2>4. GoodCall(d)'
    BY <1>0, <2>1, <2>2 DEF GoodCall, Unmapped
  <2>5. GoodCalls'
    BY <2>2, <2>4 DEF GoodCalls, GoodCall, Unmapped, Replace
  <2>6. OneCreator'
    BY <2>1, <2>2, StillOneCreator
  <2>7. CodesLead'
    BY <1>0, <2>2 DEF CodesLead, Pushing, Replace
  <2>8. ScreenIsSeated' /\ OneCodePerLobby'
    BY <2>2 DEF ScreenIsSeated, OneCodePerLobby
  <2> QED
    BY <2>3, <2>5, <2>6, <2>7, <2>8
<1> QED
  BY <1>1, <1>2

\* The mapping of a player matters to nobody here.
LEMMA MapPlayerDInv ==
  ASSUME DInv, NEW k \in calls, MapPlayer(k)
  PROVE  DInv'
<1> USE DEF DInv
<1> DEFINE d == [k EXCEPT !.todo = @ \ {"mapping"}]
<1>1. k \in Call /\ GoodCall(k) /\ "push" \notin k.todo
  BY DEF TypeOK, GoodCalls, MapPlayer, Adding
<1>2. /\ d \in Call /\ d.todo = k.todo \ {"mapping"} /\ d.failed = k.failed
      /\ d.kind = k.kind /\ d.user = k.user /\ d.lobby = k.lobby /\ d.answered = k.answered
  BY <1>1, WriteDone
<1>3. Replace(k, d) /\ UNCHANGED <<lobbies, lobbyCodeMap, screen>>
  BY DEF MapPlayer, Done
<1> HIDE DEF d
<1>4. TypeOK'
  BY <1>1, <1>2, <1>3 DEF TypeOK, Replace, MapPlayer, Call
<1>5. GoodCall(d)'
  BY <1>1, <1>2, <1>3 DEF GoodCall, Unmapped
<1>6. GoodCalls'
  BY <1>3, <1>5 DEF GoodCalls, GoodCall, Unmapped, Replace
<1>7. OneCreator'
  BY <1>2, <1>3, StillOneCreator
<1>8. CodesLead'
  BY <1>1, <1>3 DEF CodesLead, Pushing, Replace
<1>9. ScreenIsSeated' /\ OneCodePerLobby'
  BY <1>3 DEF ScreenIsSeated, OneCodePerLobby
<1> QED
  BY <1>4, <1>6, <1>7, <1>8, <1>9

\* A code is mapped to a lobby no other code leads to, or the call fails.
LEMMA MapCodeDInv ==
  ASSUME DInv, NEW k \in calls, NEW c \in Codes, MapCode(k, c)
  PROVE  DInv'
<1> USE DEF DInv
<1>0. /\ k \in Call /\ GoodCall(k) /\ k.lobby \in Lobbies /\ "code" \in k.todo /\ k.kind = "create"
      /\ Unmapped(k.lobby)
  BY DEF TypeOK, GoodCalls, GoodCall, MapCode, Call
<1>1. CASE Unused(c)
  <2> DEFINE d == [k EXCEPT !.todo = @ \ {"code"}]
  <2>1. /\ d \in Call /\ d.todo = k.todo \ {"code"} /\ d.failed = k.failed
        /\ d.kind = k.kind /\ d.user = k.user /\ d.lobby = k.lobby /\ d.answered = k.answered
    BY <1>0, WriteDone
  <2>2. Replace(k, d) /\ UNCHANGED <<lobbies, playerLobbyMap, screen>>
    BY <1>1 DEF MapCode, Done
  <2>3. /\ lobbyCodeMap' \in [Codes -> Lobbies \cup {None}] /\ lobbyCodeMap'[c] = k.lobby
        /\ \A x \in Codes : x # c => lobbyCodeMap'[x] = lobbyCodeMap[x]
    BY <1>0, <1>1 DEF MapCode, TypeOK
  <2> HIDE DEF d
  <2>4. TypeOK'
    BY <2>1, <2>2, <2>3 DEF TypeOK, Replace
  <2>5. GoodCall(d)'
    BY <1>0, <2>1, <2>2, <2>3 DEF GoodCall, Unmapped
  <2>6. ASSUME NEW j \in calls, j # k  PROVE GoodCall(j)'
    <3>1. GoodCall(j) /\ (j.kind = "create" => j.lobby # k.lobby) /\ j.lobby \in Lobbies
      BY <1>0, <2>6 DEF GoodCalls, OneCreator, TypeOK, Call
    <3>2. ~ Unmapped(j.lobby) => ~ Unmapped(j.lobby)'
      BY <1>1, <2>3, <3>1, DirectoryAssumption DEF Unmapped, Unused
    <3>3. j.kind = "create" /\ Unmapped(j.lobby) => Unmapped(j.lobby)'
      BY <2>3, <3>1 DEF Unmapped
    <3> QED
      BY <2>2, <3>1, <3>2, <3>3 DEF GoodCall
  <2>7. GoodCalls'
    BY <2>2, <2>5, <2>6 DEF GoodCalls, Replace
  <2>8. OneCreator'
    BY <2>1, <2>2, StillOneCreator
  <2>9. "push" \in k.todo => Pushing(d, k.lobby)
    BY <1>0, <2>1 DEF Pushing, GoodCall
  <2>10. "push" \notin k.todo => lobbies[k.lobby].status # "absent"
    BY <1>0 DEF GoodCall
  <2>11. ASSUME NEW x \in Codes, lobbyCodeMap'[x] # None
         PROVE  \/ lobbies[lobbyCodeMap'[x]].status # "absent"
                \/ \E j \in calls' : Pushing(j, lobbyCodeMap'[x])
    <3>1. CASE x = c
      BY <2>2, <2>3, <2>9, <2>10, <3>1 DEF Replace
    <3>2. CASE x # c
      BY <1>0, <2>2, <2>3, <2>11, <3>2 DEF CodesLead, Pushing, Replace
    <3> QED
      BY <3>1, <3>2
  <2>12. CodesLead'
    BY <2>2, <2>11 DEF CodesLead, Pushing
  <2>13. ScreenIsSeated'
    BY <2>2 DEF ScreenIsSeated
  <2>14. OneCodePerLobby'
    BY <1>0, <2>3 DEF OneCodePerLobby, Unmapped
  <2> QED
    BY <2>4, <2>7, <2>8, <2>12, <2>13, <2>14
<1>2. CASE ~ Unused(c)
  <2> DEFINE d == [k EXCEPT !.todo = @ \ {"code"}, !.failed = TRUE]
  <2>1. /\ d \in Call /\ d.todo = k.todo \ {"code"} /\ d.failed
        /\ d.kind = k.kind /\ d.user = k.user /\ d.lobby = k.lobby /\ d.answered = k.answered
    BY <1>0, WriteFailed
  <2>2. Replace(k, d) /\ UNCHANGED <<lobbies, lobbyCodeMap, playerLobbyMap, screen>>
    BY <1>2 DEF MapCode, Failed
  <2> HIDE DEF d
  <2>3. TypeOK'
    BY <2>1, <2>2 DEF TypeOK, Replace
  <2>4. GoodCall(d)'
    BY <1>0, <2>1, <2>2 DEF GoodCall, Unmapped
  <2>5. GoodCalls'
    BY <2>2, <2>4 DEF GoodCalls, GoodCall, Unmapped, Replace
  <2>6. OneCreator'
    BY <2>1, <2>2, StillOneCreator
  <2>7. CodesLead'
    BY <1>0, <2>2 DEF CodesLead, Pushing, Replace
  <2>8. ScreenIsSeated' /\ OneCodePerLobby'
    BY <2>2 DEF ScreenIsSeated, OneCodePerLobby
  <2> QED
    BY <2>3, <2>5, <2>6, <2>7, <2>8
<1> QED
  BY <1>1, <1>2

\* A call ends, or is answered: a success has seated its user, and a call that
\* failed holds no code.
LEMMA EndOfCallDInv ==
  ASSUME DInv, NEW k \in calls, Succeed(k) \/ Fail(k) \/ Abandon(k)
  PROVE  DInv'
<1> USE DEF DInv
<1>0. k \in Call /\ GoodCall(k)
  BY DEF TypeOK, GoodCalls
<1>1. CASE Succeed(k)
  <2>1. /\ calls' = calls \ {k} /\ UNCHANGED <<lobbies, lobbyCodeMap, playerLobbyMap>>
        /\ k.todo = {} /\ screen' = [screen EXCEPT ![k.user] = k.lobby]
        /\ k.user \in lobbies[k.lobby].players
    BY <1>0, <1>1 DEF Succeed, GoodCall
  <2>2. TypeOK'
    BY <1>0, <2>1 DEF TypeOK, Call
  <2>3. GoodCalls' /\ OneCreator'
    BY <2>1 DEF GoodCalls, GoodCall, Unmapped, OneCreator
  <2>4. CodesLead'
    BY <2>1 DEF CodesLead, Pushing
  <2>5. ScreenIsSeated' /\ OneCodePerLobby'
    BY <1>0, <2>1 DEF ScreenIsSeated, OneCodePerLobby, TypeOK, Call
  <2> QED
    BY <2>2, <2>3, <2>4, <2>5
<1>2. CASE Fail(k)
  <2> DEFINE d == [k EXCEPT !.answered = TRUE]
  <2>1. /\ d \in Call /\ d.todo = k.todo /\ d.failed = k.failed
        /\ d.kind = k.kind /\ d.user = k.user /\ d.lobby = k.lobby /\ d.answered
    BY <1>0, CallAnswered
  <2>2. k.failed /\ Replace(k, d) /\ UNCHANGED <<lobbies, lobbyCodeMap, playerLobbyMap, screen>>
    BY <1>2 DEF Fail
  <2> HIDE DEF d
  <2>3. TypeOK'
    BY <2>1, <2>2 DEF TypeOK, Replace
  <2>4. GoodCall(d)'
    BY <1>0, <2>1, <2>2 DEF GoodCall, Unmapped
  <2>5. GoodCalls'
    BY <2>2, <2>4 DEF GoodCalls, GoodCall, Unmapped, Replace
  <2>6. OneCreator'
    BY <2>1, <2>2, StillOneCreator
  <2>7. CodesLead'
    BY <2>2 DEF CodesLead, Pushing, Replace
  <2>8. ScreenIsSeated' /\ OneCodePerLobby'
    BY <2>2 DEF ScreenIsSeated, OneCodePerLobby
  <2> QED
    BY <2>3, <2>5, <2>6, <2>7, <2>8
<1>3. CASE Abandon(k)
  <2>1. /\ calls' = calls \ {k} /\ k.failed
        /\ UNCHANGED <<lobbies, lobbyCodeMap, playerLobbyMap, screen>>
    BY <1>0, <1>3 DEF Abandon, GoodCall
  <2>2. TypeOK' /\ GoodCalls' /\ OneCreator'
    BY <2>1 DEF TypeOK, GoodCalls, GoodCall, Unmapped, OneCreator
  <2>3. CodesLead'
    BY <2>1 DEF CodesLead, Pushing
  <2>4. ScreenIsSeated' /\ OneCodePerLobby'
    BY <2>1 DEF ScreenIsSeated, OneCodePerLobby
  <2> QED
    BY <2>2, <2>3, <2>4
<1> QED
  BY <1>1, <1>2, <1>3

\* Leaving a screen, and starting a lobby: the lobby is there and keeps its players.
LEMMA ScreenDInv ==
  ASSUME DInv, NEW u \in Users, LeaveScreen(u) \/ StartGame(u)
  PROVE  DInv'
<1> USE DEF DInv
<1>1. CASE LeaveScreen(u)
  <2>1. /\ screen' = [screen EXCEPT ![u] = None]
        /\ UNCHANGED <<lobbies, lobbyCodeMap, playerLobbyMap, calls>>
    BY <1>1 DEF LeaveScreen
  <2>2. TypeOK' /\ ScreenIsSeated'
    BY <2>1 DEF TypeOK, ScreenIsSeated
  <2>3. GoodCalls' /\ OneCreator' /\ CodesLead' /\ OneCodePerLobby'
    BY <2>1 DEF GoodCalls, GoodCall, Unmapped, OneCreator, CodesLead, Pushing, OneCodePerLobby
  <2> QED
    BY <2>2, <2>3
<1>2. CASE StartGame(u)
  <2>1. PICK l \in Lobbies : /\ lobbies[l].status = "LOBBY"
                            /\ lobbies' = [lobbies EXCEPT ![l].status = "SUBMISSION"]
    BY <1>2 DEF StartGame, TypeOK
  <2>2. UNCHANGED <<lobbyCodeMap, playerLobbyMap, calls, screen>>
    BY <1>2 DEF StartGame
  <2>3. lobbies' \in [Lobbies -> [status: {"absent", "LOBBY", "SUBMISSION"},
                                 host: Users \cup {None}, players: SUBSET Users]]
    BY <2>1 DEF TypeOK
  <2>4. \A m \in Lobbies : lobbies'[m].players = lobbies[m].players
    BY <2>1 DEF TypeOK
  <2>5. \A m \in Lobbies : lobbies[m].status # "absent" => lobbies'[m].status # "absent"
    BY <2>1 DEF TypeOK
  <2>6. ASSUME NEW m \in Lobbies, lobbies[m] = Absent  PROVE lobbies'[m] = Absent
    <3>1. m # l
      BY <2>1, <2>6 DEF Absent
    <3> QED
      BY <2>1, <2>6, <3>1 DEF TypeOK
  <2>7. TypeOK'
    BY <2>2, <2>3 DEF TypeOK
  <2>8. ASSUME NEW j \in calls  PROVE GoodCall(j)'
    <3>1. j.lobby \in Lobbies /\ GoodCall(j)
      BY DEF TypeOK, Call, GoodCalls
    <3> QED
      BY <2>2, <2>4, <2>5, <2>6, <3>1 DEF GoodCall, Unmapped
  <2>9. GoodCalls' /\ OneCreator'
    BY <2>2, <2>8 DEF GoodCalls, OneCreator
  <2>10. CodesLead'
    BY <2>2, <2>5 DEF CodesLead, Pushing, TypeOK
  <2>11. ScreenIsSeated' /\ OneCodePerLobby'
    BY <2>2, <2>4 DEF ScreenIsSeated, OneCodePerLobby, TypeOK
  <2> QED
    BY <2>7, <2>9, <2>10, <2>11
<1> QED
  BY <1>1, <1>2

----------------------------------------------------------------------------
(******************************** Theorems *********************************)

LEMMA NextDInv == DInv /\ [Next]_vars => DInv'
<1> SUFFICES ASSUME DInv, [Next]_vars  PROVE DInv'
  OBVIOUS
<1>1. CASE AppSteps
  BY <1>1, NewCallDInv, ScreenDInv DEF AppSteps
<1>2. CASE \E k \in calls : CallStep(k) \/ Abandon(k)
  BY <1>2, PushDInv, UpdateDInv, MapPlayerDInv, MapCodeDInv, EndOfCallDInv DEF CallStep
<1>3. CASE UNCHANGED vars
  BY <1>3 DEF vars, DInv, TypeOK, GoodCalls, GoodCall, Unmapped, OneCreator, CodesLead, Pushing,
              ScreenIsSeated, OneCodePerLobby
<1> QED
  BY <1>1, <1>2, <1>3 DEF Next

\* The invariant of the directory.
THEOREM DirectoryInvariant == Spec => []DInv
  BY InitDInv, NextDInv, PTL DEF Spec

\* The database's maps, the calls and the screens keep their types.
THEOREM TypeCorrect == Spec => []TypeOK
<1>1. DInv => TypeOK
  BY DEF DInv
<1> QED
  BY <1>1, DirectoryInvariant, PTL

\* Whoever sees a lobby plays in it: createLobby and joinLobby answer only when
\* the seat is taken, and no later push wipes it out.
THEOREM ScreensAreSeated == Spec => []ScreenIsSeated
<1>1. DInv => ScreenIsSeated
  BY DEF DInv
<1> QED
  BY <1>1, DirectoryInvariant, PTL

\* No two codes lead to one lobby: a call that failed holds no code, and its key
\* is not handed out again while a code leads to it.
THEOREM CodesAreUnique == Spec => []OneCodePerLobby
<1>1. DInv => OneCodePerLobby
  BY DEF DInv
<1> QED
  BY <1>1, DirectoryInvariant, PTL

\* A seat taken is kept: nobody sits in a lobby before its push is done, and
\* afterwards players are only added.
THEOREM SeatsStay == Spec => SeatsAreKept
<1>1. DInv /\ [Next]_vars => [\A l \in Lobbies : lobbies[l].players \subseteq lobbies'[l].players]_vars
  <2> SUFFICES ASSUME DInv, [Next]_vars, NEW l \in Lobbies
               PROVE  lobbies[l].players \subseteq lobbies'[l].players
    OBVIOUS
  <2>1. ASSUME NEW k \in calls, PushLobby(k)  PROVE lobbies[l].players \subseteq lobbies'[l].players
    <3>1. lobbies[k.lobby].players = {}
      BY <2>1 DEF PushLobby, DInv, GoodCalls, GoodCall, Absent
    <3> QED
      BY <2>1, <3>1 DEF PushLobby, DInv, TypeOK
  <2>2. ASSUME NEW k \in calls, UpdateLobby(k)  PROVE lobbies[l].players \subseteq lobbies'[l].players
    BY <2>2 DEF UpdateLobby, DInv, TypeOK
  <2>3. ASSUME NEW u \in Users, StartGame(u)  PROVE lobbies[l].players \subseteq lobbies'[l].players
    BY <2>3 DEF StartGame, DInv, TypeOK
  <2> QED
    BY <2>1, <2>2, <2>3 DEF Next, AppSteps, CallStep, CreateLobby, JoinLobby, LeaveScreen, MapCode,
                            MapPlayer, Succeed, Fail, Abandon, vars
<1> QED
  BY <1>1, DirectoryInvariant, PTL DEF Spec, SeatsAreKept

\* Only a call that succeeded shows a lobby, and then a code leads there.
THEOREM HostsHaveCodes == Spec => HostHasCode
<1>1. ASSUME DInv, [Next]_vars, NEW u \in Users, screen'[u] \notin {screen[u], None}
      PROVE  \E c \in Codes : lobbyCodeMap[c] = screen'[u]
  <2>1. ASSUME NEW k \in calls, Succeed(k)  PROVE \E c \in Codes : lobbyCodeMap[c] = screen'[u]
    <3>1. screen'[u] = k.lobby
      BY <1>1, <2>1 DEF Succeed, DInv, TypeOK
    <3>2. ~ Unmapped(k.lobby)
      BY <1>1, <2>1 DEF Succeed, DInv, GoodCalls, GoodCall
    <3> QED
      BY <3>1, <3>2 DEF Unmapped
  <2>2. ASSUME NEW v \in Users, LeaveScreen(v)  PROVE FALSE
    BY <1>1, <2>2 DEF LeaveScreen, DInv, TypeOK
  <2> QED
    BY <1>1, <2>1, <2>2 DEF Next, AppSteps, CallStep, CreateLobby, JoinLobby, StartGame, PushLobby,
                            UpdateLobby, MapCode, MapPlayer, Fail, Abandon, vars
<1>2. DInv /\ [Next]_vars =>
        [\A u \in Users : screen'[u] \notin {screen[u], None} /\ lobbies[screen'[u]].host = u
                            => \E c \in Codes : lobbyCodeMap[c] = screen'[u]]_vars
  BY <1>1
<1> QED
  BY <1>2, DirectoryInvariant, PTL DEF Spec, HostHasCode

\* A lobby that started is as it was: no join, no second start, and no push
\* that is still on its way reaches it.
THEOREM ClosedStaysClosed == Spec => ClosedMeansClosed
<1>1. DInv /\ [Next]_vars => [\A l \in Lobbies : lobbies[l].status = "SUBMISSION" => lobbies'[l] = lobbies[l]]_vars
  <2> SUFFICES ASSUME DInv, [Next]_vars, NEW l \in Lobbies, lobbies[l].status = "SUBMISSION"
               PROVE  lobbies'[l] = lobbies[l]
    BY DEF vars
  <2>1. ASSUME NEW k \in calls, PushLobby(k)  PROVE lobbies'[l] = lobbies[l]
    <3>1. lobbies[k.lobby] = Absent
      BY <2>1 DEF PushLobby, DInv, GoodCalls, GoodCall
    <3>2. k.lobby # l
      BY <3>1 DEF Absent
    <3> QED
      BY <2>1, <3>2 DEF PushLobby, DInv, TypeOK
  <2>2. ASSUME NEW k \in calls, UpdateLobby(k)  PROVE lobbies'[l] = lobbies[l]
    BY <2>2 DEF UpdateLobby, Open, DInv, TypeOK
  <2>3. ASSUME NEW u \in Users, StartGame(u)  PROVE lobbies'[l] = lobbies[l]
    BY <2>3 DEF StartGame, DInv, TypeOK
  <2> QED
    BY <2>1, <2>2, <2>3 DEF Next, AppSteps, CallStep, CreateLobby, JoinLobby, LeaveScreen, MapCode,
                            MapPlayer, Succeed, Fail, Abandon, vars
<1> QED
  BY <1>1, DirectoryInvariant, PTL DEF Spec, ClosedMeansClosed
=============================================================================
