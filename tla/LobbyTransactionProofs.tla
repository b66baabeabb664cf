----------------------- MODULE LobbyTransactionProofs -----------------------
(***************************************************************************)
(* updateLobby is one atomic step, for any number of calls, of any kind,   *)
(* with any chat beside them and any number of retries.                    *)
(***************************************************************************)
EXTENDS LobbyTransaction, FiniteSetTheorems, TLAPS

\* The put of a call: nothing for nothing, or its update of the guess.
GoodPut(c, r) ==
  \/ r.basis = NoLobby /\ r.out = NoLobby /\ r.err = "not-found"
  \/ /\ r.basis \in Lobby /\ ~ Refuses(r.basis, c) /\ ~ Throws(r.basis, c)
     /\ r.out = Applied(r.basis, c) /\ r.err = "none"

Applies(r) == r.at = "committed" /\ r.out # NoLobby

\* A call that was told something was told what the server decided.
GoodAnswer(c) ==
  LET r == req[c]
  IN  /\ r.at = "idle" => r = NoRequest
      /\ r.at \in {"sent", "committed"} => GoodPut(c, r)
      /\ r.told \in {"ok", "not-found"} => r.at = "committed" /\ r.told = Outcome(r)
      /\ r.told = "refused" => r.at = "stale" /\ Decided(c) = "refused"

\* The lobby's log holds the calls that committed, each once.
GoodLog ==
  /\ \A c \in Callers : Applies(req[c]) <=> lobby # NoLobby /\ Times(c) # {}
  /\ lobby # NoLobby => \A i, j \in DOMAIN lobby.log : lobby.log[i] = lobby.log[j] => i = j

TInv == TypeOK /\ (\A c \in Callers : GoodAnswer(c)) /\ GoodLog

USE CallsAssumption, RetriesAssumption

\* An update adds one entry at the end and keeps the type.
LEMMA AppliedType ==
  ASSUME NEW l \in Lobby, NEW c \in Callers
  PROVE  /\ Applied(l, c) \in Lobby /\ Applied(l, c) # NoLobby
         /\ Applied(l, c).log = Append(l.log, c)
<1>1. Leaves[Kind[c]] \in Status
  BY DEF Leaves, Kinds, Status
<1>2. Append(l.log, c) \in Seq(Callers)
  BY DEF Lobby
<1>3. Applied(l, c) \in Lobby
  BY <1>1, <1>2 DEF Applied, Lobby
<1> QED
  BY <1>2, <1>3 DEF Applied, Lobby

\* A new lobby is one.
LEMMA NewLobbyType == NewLobby \in Lobby /\ NewLobby # NoLobby
<1>1. NewLobby \in Lobby
  BY DEF NewLobby, Lobby, Status
<1> QED
  BY <1>1

\* The callback, case by case.
LEMMA CallbackOK ==
  ASSUME NEW c \in Callers, NEW l \in Lobby \cup {NoLobby}
  PROVE  /\ l = NoLobby => Callback(c, l) = [abort |-> FALSE, err |-> "not-found", out |-> NoLobby]
         /\ l # NoLobby /\ Refuses(l, c) => Callback(c, l) = [abort |-> TRUE, err |-> "refused", out |-> l]
         /\ l # NoLobby /\ ~ Refuses(l, c) /\ Throws(l, c) =>
              Callback(c, l) = [abort |-> TRUE, err |-> "failed", out |-> l]
         /\ l # NoLobby /\ ~ Refuses(l, c) /\ ~ Throws(l, c) =>
              Callback(c, l) = [abort |-> FALSE, err |-> "none", out |-> Applied(l, c)]
  BY DEF Callback

\* The lobbies on which the callback aborts, and its answer then.
Bad(l, c) == Refuses(l, c) \/ Throws(l, c)
Why(l, c) == IF Refuses(l, c) THEN "refused" ELSE "failed"

\* What an attempt leaves of the request.
LEMMA AttemptOK ==
  ASSUME NEW c \in Callers, NEW l \in Lobby \cup {NoLobby}, TypeOK, Attempt(c, l)
  PROVE  /\ req' \in [Callers -> Request]
         /\ \A d \in Callers \ {c} : req'[d] = req[d]
         /\ l # NoLobby /\ Bad(l, c) =>
              req'[c] = [req[c] EXCEPT !.err = Why(l, c), !.told = Why(l, c)]
         /\ l = NoLobby \/ ~ Bad(l, c) =>
              /\ req'[c].at = "sent" /\ GoodPut(c, req'[c])
              /\ req'[c].basis = l /\ req'[c].told = req[c].told
              /\ req'[c].tries = req[c].tries + 1
<1>1. req \in [Callers -> Request] /\ req[c] \in Request
  BY DEF TypeOK
<1>2. CASE l # NoLobby /\ Bad(l, c)
  <2>1. Callback(c, l).abort /\ Callback(c, l).err = Why(l, c)
    BY <1>2, CallbackOK DEF Bad, Why
  <2>2. req' = [req EXCEPT ![c] = [req[c] EXCEPT !.err = Why(l, c), !.told = Why(l, c)]]
    BY <2>1 DEF Attempt
  <2>3. [req[c] EXCEPT !.err = Why(l, c), !.told = Why(l, c)] \in Request
    BY <1>1 DEF Request, Why
  <2> QED
    BY <1>1, <1>2, <2>2, <2>3
<1>3. CASE l = NoLobby \/ ~ Bad(l, c)
  <2> DEFINE run == Callback(c, l)
             r == Put(req[c], l, run)
  <2>1. /\ ~ run.abort /\ run.err \in {"none", "not-found"}
        /\ run.out \in Lobby \cup {NoLobby}
    <3>1. CASE l = NoLobby
      BY <3>1, CallbackOK
    <3>2. CASE l # NoLobby
      BY <1>3, <3>2, CallbackOK, AppliedType DEF Bad
    <3> QED
      BY <3>1, <3>2
  <2>2. \/ l = NoLobby /\ run.err = "not-found" /\ run.out = NoLobby
        \/ /\ l \in Lobby /\ ~ Refuses(l, c) /\ ~ Throws(l, c)
           /\ run.err = "none" /\ run.out = Applied(l, c)
    <3>1. CASE l = NoLobby
      BY <3>1, CallbackOK
    <3>2. CASE l # NoLobby
      BY <1>3, <3>2, CallbackOK DEF Bad
    <3> QED
      BY <3>1, <3>2
  <2>3. req' = [req EXCEPT ![c] = r]
    BY <2>1 DEF Attempt
  <2> HIDE DEF run
  <2>4. r \in Request
    BY <1>1, <2>1 DEF Put, Request
  <2>5. /\ r.at = "sent" /\ r.basis = l /\ r.told = req[c].told /\ r.tries = req[c].tries + 1
        /\ r.out = run.out /\ r.err = run.err
    BY DEF Put
  <2> HIDE DEF r
  <2>6. GoodPut(c, r)
    BY <2>2, <2>5 DEF GoodPut
  <2> QED
    BY <1>1, <1>3, <2>3, <2>4, <2>5, <2>6
<1> QED
  BY <1>2, <1>3

----------------------------------------------------------------------------
(********************************* Types ***********************************)

\* Every step keeps the types.
LEMMA NextTypeOK == TypeOK /\ [TNext]_tvars => TypeOK'
<1> SUFFICES ASSUME TypeOK, [TNext]_tvars
             PROVE  TypeOK'
  OBVIOUS
<1>1. CASE Push
  BY <1>1, NewLobbyType DEF Push, TypeOK
<1>2. ASSUME NEW m \in Messages, SendChat(m)
      PROVE  TypeOK'
  <2>1. lobby \in Lobby
    BY <1>2 DEF TypeOK, SendChat
  <2> QED
    BY <1>2, <2>1 DEF TypeOK, SendChat, Lobby
<1>3. ASSUME NEW c \in Callers, Call(c) \/ Rerun(c)
      PROVE  TypeOK'
  <2>1. /\ req[c].read \in Lobby \cup {NoLobby} /\ UNCHANGED lobby
        /\ Attempt(c, NoLobby) \/ Attempt(c, req[c].read)
    BY <1>3 DEF Call, Rerun, TypeOK, Request
  <2>2. req' \in [Callers -> Request]
    BY <2>1, AttemptOK
  <2> QED
    BY <2>1, <2>2 DEF TypeOK
<1>4. ASSUME NEW c \in Callers, Serve(c)
      PROVE  TypeOK'
  BY <1>4 DEF Serve, TypeOK, Request
<1>5. ASSUME NEW c \in Callers, Resolve(c) \/ GiveUp(c) \/ CutOff(c)
      PROVE  TypeOK'
  <2>1. CASE Resolve(c)
    <3>1. Outcome(req[c]) \in {"none", "ok", "not-found", "refused", "failed"}
      BY DEF Outcome, TypeOK, Request
    <3> QED
      BY <2>1, <3>1 DEF Resolve, TypeOK, Request
  <2>2. CASE GiveUp(c) \/ CutOff(c)
    BY <2>2 DEF GiveUp, CutOff, Fail, TypeOK, Request
  <2> QED
    BY <1>5, <2>1, <2>2
<1>6. CASE UNCHANGED tvars
  BY <1>6 DEF TypeOK, tvars
<1> QED
  BY <1>1, <1>2, <1>3, <1>4, <1>5, <1>6 DEF TNext

----------------------------------------------------------------------------
(************************ Each call, and the log ***************************)

\* A step that leaves the log and the request of c alone keeps c's share.
LEMMA OthersKeep ==
  ASSUME NEW c \in Callers, req'[c] = req[c], GoodAnswer(c)
  PROVE  GoodAnswer(c)' /\ (Applies(req'[c]) <=> Applies(req[c])) /\ Decided(c)' = Decided(c)
<1>1. Decided(c)' = Decided(c)
  BY DEF Decided
<1> QED
  BY <1>1 DEF GoodAnswer, Applies, GoodPut, Outcome

\* A step of c on its request: the others, and the log, are left alone.
LEMMA OwnStep ==
  ASSUME TInv, NEW c \in Callers, TypeOK', UNCHANGED lobby,
         \A d \in Callers \ {c} : req'[d] = req[d],
         GoodAnswer(c)', Applies(req'[c]) <=> Applies(req[c])
  PROVE  TInv'
<1>1. \A d \in Callers : GoodAnswer(d)' /\ (Applies(req'[d]) <=> Applies(req[d]))
  BY OthersKeep DEF TInv
<1>2. \A d \in Callers : Times(d)' = Times(d)
  BY DEF Times
<1>3. GoodLog'
  BY <1>1, <1>2 DEF GoodLog, TInv
<1> QED
  BY <1>1, <1>3 DEF TInv

\* A first run guesses null: it always sends a put.
LEMMA CallTInv == ASSUME TInv, TypeOK', NEW c \in Callers, Call(c) PROVE TInv'
<1>1. TypeOK /\ GoodAnswer(c)
  BY DEF TInv
<1>2. req[c] = NoRequest
  BY <1>1 DEF Call, GoodAnswer
<1>3. /\ req'[c].at = "sent" /\ GoodPut(c, req'[c]) /\ req'[c].told = "none"
      /\ \A d \in Callers \ {c} : req'[d] = req[d]
  <2>1. Attempt(c, NoLobby)
    BY DEF Call
  <2>2. req[c].told = "none"
    BY <1>2 DEF NoRequest
  <2> QED
    BY <1>1, <2>1, <2>2, AttemptOK
<1>4. GoodAnswer(c)'
  BY <1>3 DEF GoodAnswer
<1> QED
  BY <1>2, <1>3, <1>4, OwnStep DEF Call, Applies, NoRequest

\* Running the callback again keeps an answer for what the lobby refused.
LEMMA RerunTInv == ASSUME TInv, TypeOK', NEW c \in Callers, Rerun(c) PROVE TInv'
<1> DEFINE l == req[c].read
<1>1. TypeOK /\ GoodAnswer(c) /\ req[c] \in Request
  BY DEF TInv, TypeOK
<1>2. /\ req[c].at = "stale" /\ req[c].told = "none" /\ req[c].tries < MaxRetries
      /\ l \in Lobby \cup {NoLobby} /\ Attempt(c, l) /\ UNCHANGED lobby
  BY <1>1 DEF Rerun, Waits, Request
<1>3. CASE l # NoLobby /\ Bad(l, c)
  <2>1. /\ req'[c] = [req[c] EXCEPT !.err = Why(l, c), !.told = Why(l, c)]
        /\ \A d \in Callers \ {c} : req'[d] = req[d]
    BY <1>1, <1>2, <1>3, AttemptOK
  <2>2. /\ req'[c].at = "stale" /\ req'[c].told = Why(l, c) /\ req'[c].read = l
        /\ req'[c].tries = req[c].tries
    BY <1>1, <1>2, <2>1 DEF Request
  <2>3. Decided(c)' = Why(l, c)
    BY <1>2, <1>3, <2>2 DEF Decided, Bad, Why
  <2>4. GoodAnswer(c)'
    BY <2>2, <2>3 DEF GoodAnswer, Why
  <2> QED
    BY <1>2, <2>1, <2>2, <2>4, OwnStep DEF Applies
<1>4. CASE l = NoLobby \/ ~ Bad(l, c)
  <2>1. /\ req'[c].at = "sent" /\ GoodPut(c, req'[c]) /\ req'[c].told = "none"
        /\ \A d \in Callers \ {c} : req'[d] = req[d]
    BY <1>1, <1>2, <1>4, AttemptOK
  <2>2. GoodAnswer(c)'
    BY <2>1 DEF GoodAnswer
  <2> QED
    BY <1>2, <2>1, <2>2, OwnStep DEF Applies
<1> QED
  BY <1>3, <1>4

\* A promise that ends keeps what the server decided.
LEMMA EndsTInv ==
  ASSUME TInv, TypeOK', NEW c \in Callers, Resolve(c) \/ GiveUp(c) \/ CutOff(c) PROVE TInv'
<1>1. TypeOK /\ GoodAnswer(c) /\ req \in [Callers -> Request] /\ req[c] \in Request
  BY DEF TInv, TypeOK
<1>2. PICK v : /\ req' = [req EXCEPT ![c].told = v] /\ UNCHANGED lobby /\ req[c].at # "idle"
               /\ v = "failed" \/ (req[c].at = "committed" /\ v = Outcome(req[c]))
  BY DEF Resolve, GiveUp, CutOff, Fail
<1>3. /\ req'[c].at = req[c].at /\ req'[c].out = req[c].out /\ req'[c].err = req[c].err
      /\ req'[c].basis = req[c].basis /\ req'[c].told = v
      /\ \A d \in Callers \ {c} : req'[d] = req[d]
  BY <1>1, <1>2 DEF Request
<1>4. GoodPut(c, req[c]) => GoodPut(c, req'[c])
  BY <1>3 DEF GoodPut
<1>5. req[c].at = "committed" => Outcome(req[c]) \in {"ok", "not-found"}
  BY <1>1, AppliedType DEF GoodAnswer, GoodPut, Outcome
<1>6. Outcome(req[c])  = Outcome(req'[c])
  BY <1>3 DEF Outcome
<1>7. GoodAnswer(c)'
  BY <1>1, <1>2, <1>3, <1>4, <1>5, <1>6 DEF GoodAnswer
<1> QED
  BY <1>2, <1>3, <1>7, OwnStep DEF Applies

\* The server's compare-and-set: an update is added to the lobby it was made for.
LEMMA ServeTInv == ASSUME TInv, TypeOK', NEW c \in Callers, Serve(c) PROVE TInv'
<1>1. /\ TypeOK /\ GoodLog /\ (\A d \in Callers : GoodAnswer(d))
      /\ req \in [Callers -> Request] /\ req[c] \in Request
      /\ lobby \in Lobby \cup {NoLobby}
  BY DEF TInv, TypeOK
<1>2. /\ req[c].at = "sent" /\ GoodPut(c, req[c]) /\ ~ Applies(req[c])
      /\ req[c].told \in {"none", "failed"}
  BY <1>1 DEF Serve, GoodAnswer, Applies, Request
<1>3. CASE Same(lobby, req[c].basis)
  <2>1. /\ lobby' = req[c].out /\ req' = [req EXCEPT ![c].at = "committed"]
        /\ lobby = req[c].basis
    BY <1>3 DEF Serve, Same
  <2>2. /\ req'[c] = [req[c] EXCEPT !.at = "committed"]
        /\ req'[c].at = "committed" /\ req'[c].out = req[c].out /\ req'[c].told = req[c].told
        /\ req'[c].basis = req[c].basis /\ req'[c].err = req[c].err
        /\ \A d \in Callers \ {c} : req'[d] = req[d]
    BY <1>1, <2>1 DEF Request
  <2>3. GoodAnswer(c)'
    BY <1>2, <2>2 DEF GoodAnswer, GoodPut
  <2>4. CASE req[c].out = NoLobby
    <3>1. UNCHANGED lobby
      BY <1>2, <2>1, <2>4, AppliedType DEF GoodPut
    <3> QED
      BY <1>2, <2>2, <2>3, <2>4, <3>1, OwnStep DEF Applies
  <2>5. CASE req[c].out # NoLobby
    <3>1. lobby \in Lobby /\ lobby' = Applied(lobby, c)
      BY <1>2, <2>1, <2>5 DEF GoodPut
    <3>2. /\ lobby # NoLobby /\ lobby' # NoLobby
          /\ lobby'.log = Append(lobby.log, c) /\ lobby.log \in Seq(Callers)
      BY <3>1, AppliedType DEF Lobby
    <3>3. Times(c) = {}
      BY <1>1, <1>2, <3>2 DEF GoodLog
    <3>4. /\ DOMAIN lobby'.log = DOMAIN lobby.log \cup {Len(lobby.log) + 1}
          /\ lobby'.log[Len(lobby.log) + 1] = c
          /\ \A i \in DOMAIN lobby.log : lobby'.log[i] = lobby.log[i] /\ lobby.log[i] # c
      BY <3>2, <3>3 DEF Times
    <3>5. Times(c)' # {} /\ \A d \in Callers \ {c} : Times(d)' = Times(d)
      BY <3>4 DEF Times
    <3>6. \A i, j \in DOMAIN lobby'.log : lobby'.log[i] = lobby'.log[j] => i = j
      BY <1>1, <3>2, <3>4 DEF GoodLog
    <3>7. \A d \in Callers \ {c} : GoodAnswer(d)' /\ (Applies(req'[d]) <=> Applies(req[d]))
      BY <1>1, <2>2, OthersKeep
    <3>8. Applies(req'[c])
      BY <2>2, <2>5 DEF Applies
    <3>9. GoodLog'
      BY <1>1, <3>2, <3>5, <3>6, <3>7, <3>8 DEF GoodLog
    <3> QED
      BY <2>3, <3>7, <3>9 DEF TInv
  <2> QED
    BY <2>4, <2>5
<1>4. CASE ~ Same(lobby, req[c].basis)
  <2>1. /\ UNCHANGED lobby /\ req' = [req EXCEPT ![c].at = "stale", ![c].read = lobby]
    BY <1>4 DEF Serve
  <2>2. /\ req'[c].at = "stale" /\ req'[c].told = req[c].told
        /\ \A d \in Callers \ {c} : req'[d] = req[d]
    BY <1>1, <2>1 DEF Request
  <2>3. GoodAnswer(c)'
    BY <1>2, <2>2 DEF GoodAnswer
  <2> QED
    BY <1>2, <2>1, <2>2, <2>3, OwnStep DEF Applies
<1> QED
  BY <1>3, <1>4

\* Writes beside the transactions leave the log alone.
LEMMA WritesTInv ==
  ASSUME TInv, TypeOK', Push \/ \E m \in Messages : SendChat(m) PROVE TInv'
<1>1. UNCHANGED req
  BY DEF Push, SendChat
<1>2. \A c \in Callers : GoodAnswer(c)' /\ (Applies(req'[c]) <=> Applies(req[c]))
  BY <1>1, OthersKeep DEF TInv
<1>3. lobby' # NoLobby
  <2>1. Push => lobby' # NoLobby
    BY NewLobbyType DEF Push
  <2>2. ASSUME NEW m \in Messages, SendChat(m)
        PROVE  lobby' \in Lobby
    BY <2>2 DEF SendChat, TInv, TypeOK, Lobby
  <2> QED
    BY <2>1, <2>2
<1>4. GoodLog'
  <2>1. CASE Push
    <3>1. lobby' = NewLobby /\ DOMAIN lobby'.log = {}
      BY <2>1 DEF Push, NewLobby
    <3>2. \A c \in Callers : Times(c)' = {} /\ ~ Applies(req[c])
      BY <2>1, <3>1 DEF Times, Push, TInv, GoodLog
    <3> QED
      BY <1>2, <3>1, <3>2 DEF GoodLog
  <2>2. CASE \E m \in Messages : SendChat(m)
    <3>1. lobby'.log = lobby.log /\ lobby # NoLobby
      BY <2>2 DEF SendChat, TInv, TypeOK, Lobby
    <3>2. \A c \in Callers : Times(c)' = Times(c)
      BY <3>1 DEF Times
    <3> QED
      BY <1>2, <1>3, <3>1, <3>2 DEF GoodLog, TInv
  <2> QED
    BY <2>1, <2>2
<1> QED
  BY <1>2, <1>4 DEF TInv

\* The invariant is inductive.
LEMMA NextTInv == TInv /\ [TNext]_tvars => TInv'
<1> SUFFICES ASSUME TInv, [TNext]_tvars
             PROVE  TInv'
  OBVIOUS
<1>1. TypeOK'
  BY NextTypeOK DEF TInv
<1>2. CASE UNCHANGED tvars
  <2>1. \A c \in Callers : Times(c)' = Times(c) /\ req'[c] = req[c]
    BY <1>2 DEF tvars, Times
  <2>2. \A c \in Callers : GoodAnswer(c)' /\ (Applies(req'[c]) <=> Applies(req[c]))
    BY <2>1, OthersKeep DEF TInv
  <2> QED
    BY <1>1, <1>2, <2>1, <2>2 DEF TInv, GoodLog, tvars
<1>3. CASE TNext
  BY <1>1, <1>3, CallTInv, RerunTInv, EndsTInv, ServeTInv, WritesTInv DEF TNext
<1> QED
  BY <1>2, <1>3

LEMMA InitTInv == TInit => TInv
<1> SUFFICES ASSUME TInit
             PROVE  TInv
  OBVIOUS
<1>1. \A c \in Callers : req[c] = NoRequest
  BY DEF TInit
<1>2. NoRequest \in Request
  BY DEF NoRequest, Request
<1>3. TypeOK
  BY <1>2 DEF TInit, TypeOK
<1>4. \A c \in Callers : GoodAnswer(c) /\ ~ Applies(req[c])
  <2> SUFFICES ASSUME NEW c \in Callers
               PROVE  GoodAnswer(c) /\ ~ Applies(req[c])
    OBVIOUS
  <2>1. req[c] = NoRequest /\ req[c].at = "idle" /\ req[c].told = "none"
    BY <1>1 DEF NoRequest
  <2> QED
    BY <2>1 DEF GoodAnswer, Applies
<1> QED
  BY <1>3, <1>4 DEF TInv, GoodLog, TInit

\* The types hold, with any calls, messages and retries.
THEOREM TypeCorrect == Spec => []TypeOK
<1>1. TInv => TypeOK
  BY DEF TInv
<1> QED
  BY <1>1, InitTInv, NextTInv, PTL DEF Spec

THEOREM InvariantHolds == Spec => []TInv
  BY InitTInv, NextTInv, PTL DEF Spec

\* What the invariant says of an answer.
LEMMA TInvAnswers == TInv => AnswersTrue
<1> SUFFICES ASSUME TInv, NEW c \in Callers
             PROVE  /\ req[c].told = "ok" => lobby # NoLobby /\ Cardinality(Times(c)) = 1
                    /\ req[c].told \in {"refused", "not-found"} /\ lobby # NoLobby => Times(c) = {}
                    /\ lobby # NoLobby => Cardinality(Times(c)) <= 1
  BY DEF AnswersTrue
<1>1. GoodAnswer(c) /\ GoodLog
  BY DEF TInv
<1>2. lobby # NoLobby /\ Times(c) # {} => Cardinality(Times(c)) = 1
  <2> SUFFICES ASSUME lobby # NoLobby, Times(c) # {}
               PROVE  Cardinality(Times(c)) = 1
    OBVIOUS
  <2>1. PICK i \in Times(c) : TRUE
    OBVIOUS
  <2>2. Times(c) = {i}
    BY <1>1, <2>1 DEF Times, GoodLog
  <2> QED
    BY <2>2, FS_Singleton
<1>3. Cardinality({}) = 0
  BY FS_EmptySet
<1>4. req[c].told = "ok" => Applies(req[c])
  <2>1. req[c].told = "ok" => req[c].at = "committed" /\ Outcome(req[c]) = "ok" /\ GoodPut(c, req[c])
    BY <1>1 DEF GoodAnswer
  <2> QED
    BY <2>1, AppliedType DEF Outcome, GoodPut, Applies
<1>5. req[c].told \in {"refused", "not-found"} => ~ Applies(req[c])
  BY <1>1 DEF GoodAnswer, Outcome, Applies
<1>6. Applies(req[c]) <=> lobby # NoLobby /\ Times(c) # {}
  BY <1>1 DEF GoodLog
<1>7. lobby # NoLobby => Cardinality(Times(c)) <= 1
  <2>1. CASE Times(c) = {}
    BY <1>3, <2>1
  <2>2. CASE Times(c) # {}
    BY <1>2, <2>2
  <2> QED
    BY <2>1, <2>2
<1> QED
  BY <1>2, <1>4, <1>5, <1>6, <1>7

\* Every answer is true: a success is in the lobby once, a refused or not
\* found call never, a failed one at most once.
THEOREM EveryAnswerTrue == Spec => []AnswersTrue
<1> QED
  BY InvariantHolds, TInvAnswers, PTL

----------------------------------------------------------------------------
(************************* The refinement mapping **************************)

ADecided == [c \in Callers |-> Decided(c)]
ATold    == [c \in Callers |-> req[c].told]

\* A step of c is seen by the atomic lobby as a step on c alone.
LEMMA Elsewhere ==
  ASSUME NEW c \in Callers, \A d \in Callers \ {c} : req'[d] = req[d]
  PROVE  /\ ADecided' = [ADecided EXCEPT ![c] = Decided(c)']
         /\ ATold' = [ATold EXCEPT ![c] = req'[c].told]
<1>1. \A d \in Callers \ {c} : Decided(d)' = Decided(d)
  BY DEF Decided
<1> QED
  BY <1>1 DEF ADecided, ATold

\* A step that decides and answers nothing is none.
LEMMA Unseen ==
  ASSUME NEW c \in Callers, \A d \in Callers \ {c} : req'[d] = req[d],
         UNCHANGED lobby, Decided(c)' = Decided(c), req'[c].told = req[c].told
  PROVE  UNCHANGED Atomic!avars
<1>1. \A d \in Callers : Decided(d)' = Decided(d) /\ req'[d].told = req[d].told
  BY DEF Decided
<1> QED
  BY <1>1 DEF Atomic!avars

\* A promise that ends tells what was decided, or of a failure.
LEMMA EndIsAnswer ==
  ASSUME NEW c \in Callers, NEW v, \A d \in Callers \ {c} : req'[d] = req[d],
         UNCHANGED lobby, Decided(c)' = Decided(c), req[c].told = "none",
         req'[c].told = v, v \in {Decided(c), "failed"} \ {"no"}
  PROVE  Atomic!Answer(c)
<1>1. ADecided' = ADecided /\ ATold' = [ATold EXCEPT ![c] = v]
  BY Elsewhere DEF ADecided
<1> QED
  BY <1>1 DEF Atomic!Answer, ADecided, ATold

LEMMA CallIsUnseen == ASSUME TInv, NEW c \in Callers, Call(c) PROVE UNCHANGED Atomic!avars
<1>1. TypeOK /\ GoodAnswer(c)
  BY DEF TInv
<1>2. req[c].at = "idle" /\ Attempt(c, NoLobby) /\ UNCHANGED lobby
  BY DEF Call
<1>3. /\ req'[c].at = "sent" /\ req'[c].told = req[c].told
      /\ \A d \in Callers \ {c} : req'[d] = req[d]
  BY <1>1, <1>2, AttemptOK
<1>4. Decided(c) = "no" /\ Decided(c)' = "no"
  BY <1>2, <1>3 DEF Decided
<1> QED
  BY <1>2, <1>3, <1>4, Unseen

LEMMA RerunIsAnswer ==
  ASSUME TInv, NEW c \in Callers, Rerun(c) PROVE Atomic!Answer(c) \/ UNCHANGED Atomic!avars
<1> DEFINE l == req[c].read
<1>1. TypeOK /\ req[c] \in Request
  BY DEF TInv, TypeOK
<1>2. /\ req[c].at = "stale" /\ req[c].told = "none" /\ req[c].tries < MaxRetries
      /\ l \in Lobby \cup {NoLobby} /\ Attempt(c, l) /\ UNCHANGED lobby
  BY <1>1 DEF Rerun, Waits, Request
<1>3. CASE l # NoLobby /\ Bad(l, c)
  <2>1. /\ req'[c] = [req[c] EXCEPT !.err = Why(l, c), !.told = Why(l, c)]
        /\ \A d \in Callers \ {c} : req'[d] = req[d]
    BY <1>1, <1>2, <1>3, AttemptOK
  <2>2. /\ req'[c].at = "stale" /\ req'[c].told = Why(l, c) /\ req'[c].read = l
        /\ req'[c].tries = req[c].tries
    BY <1>1, <1>2, <2>1 DEF Request
  <2>3. Decided(c)' = Why(l, c) /\ Decided(c) = Why(l, c) /\ Why(l, c) # "no"
    BY <1>2, <1>3, <2>2 DEF Decided, Bad, Why
  <2> QED
    BY <1>2, <2>1, <2>2, <2>3, EndIsAnswer
<1>4. CASE l = NoLobby \/ ~ Bad(l, c)
  <2>1. /\ req'[c].at = "sent" /\ req'[c].told = req[c].told
        /\ \A d \in Callers \ {c} : req'[d] = req[d]
    BY <1>1, <1>2, <1>4, AttemptOK
  <2>2. Decided(c) = "no" /\ Decided(c)' = "no"
    BY <1>2, <1>4, <2>1 DEF Decided, Bad
  <2> QED
    BY <1>2, <2>1, <2>2, Unseen
<1> QED
  BY <1>3, <1>4

LEMMA EndsAreAnswers ==
  ASSUME TInv, NEW c \in Callers, Resolve(c) \/ GiveUp(c) \/ CutOff(c) PROVE Atomic!Answer(c)
<1>1. TypeOK /\ GoodAnswer(c) /\ req \in [Callers -> Request] /\ req[c] \in Request
  BY DEF TInv, TypeOK
<1>2. PICK v : /\ req' = [req EXCEPT ![c].told = v] /\ UNCHANGED lobby /\ req[c].told = "none"
               /\ v = "failed" \/ (req[c].at = "committed" /\ v = Outcome(req[c]))
  BY DEF Resolve, GiveUp, CutOff, Fail, Waits
<1>3. /\ req'[c].at = req[c].at /\ req'[c].out = req[c].out /\ req'[c].read = req[c].read
      /\ req'[c].tries = req[c].tries /\ req'[c].told = v
      /\ \A d \in Callers \ {c} : req'[d] = req[d]
  BY <1>1, <1>2 DEF Request
<1>4. Decided(c)' = Decided(c)
  BY <1>3 DEF Decided
<1>5. req[c].at = "committed" => Outcome(req[c]) = Decided(c) /\ Decided(c) # "no"
  BY <1>1, AppliedType DEF GoodAnswer, GoodPut, Outcome, Decided
<1> QED
  BY <1>2, <1>3, <1>4, <1>5, EndIsAnswer

\* The server's reply is the moment of decision.
LEMMA ServeDecides ==
  ASSUME TInv, NEW c \in Callers, Serve(c) PROVE Atomic!Decide(c) \/ UNCHANGED Atomic!avars
<1>1. /\ TypeOK /\ req \in [Callers -> Request] /\ req[c] \in Request
      /\ req[c].at = "sent" /\ GoodPut(c, req[c])
      /\ lobby \in Lobby \cup {NoLobby} /\ req[c].tries \in Nat
  BY DEF TInv, TypeOK, Serve, GoodAnswer, Request
<1>2. Decided(c) = "no"
  BY <1>1 DEF Decided
<1>3. ASSUME \A d \in Callers \ {c} : req'[d] = req[d], req'[c].told = req[c].told,
             Decided(c)' = Atomic!Verdict(c),
             lobby' = IF Decided(c)' = "ok" THEN Applied(lobby, c) ELSE lobby
      PROVE  Atomic!Decide(c)
  <2>1. ADecided' = [ADecided EXCEPT ![c] = Decided(c)'] /\ ATold' = ATold
    BY <1>3, Elsewhere DEF ATold
  <2> QED
    BY <1>2, <1>3, <2>1 DEF Atomic!Decide, ADecided, ATold, Atomic!Applied, Applied, Atomic!Leaves, Leaves
<1>4. CASE Same(lobby, req[c].basis)
  <2>1. /\ lobby' = req[c].out /\ req' = [req EXCEPT ![c].at = "committed"]
        /\ lobby = req[c].basis
    BY <1>4 DEF Serve, Same
  <2>2. /\ req'[c].at = "committed" /\ req'[c].out = req[c].out /\ req'[c].told = req[c].told
        /\ \A d \in Callers \ {c} : req'[d] = req[d]
    BY <1>1, <2>1 DEF Request
  <2>3. Decided(c)' = IF req[c].out = NoLobby THEN "not-found" ELSE "ok"
    BY <2>2 DEF Decided
  <2>4. CASE lobby = NoLobby
    <3>1. req[c].out = NoLobby
      BY <1>1, <2>1, <2>4 DEF GoodPut
    <3>2. Atomic!Verdict(c) = "not-found"
      BY <2>4 DEF Atomic!Verdict
    <3> QED
      BY <1>3, <2>1, <2>2, <2>3, <2>4, <3>1, <3>2
  <2>5. CASE lobby # NoLobby
    <3>1. /\ req[c].out = Applied(lobby, c) /\ req[c].out # NoLobby
          /\ ~ Refuses(lobby, c) /\ ~ Throws(lobby, c)
      BY <1>1, <2>1, <2>5, AppliedType DEF GoodPut
    <3>2. Atomic!Verdict(c) = "ok"
      BY <2>5, <3>1 DEF Atomic!Verdict, Atomic!Refuses, Refuses, Atomic!Needs, Needs, Atomic!Status, Status,
                       Atomic!Throws, Throws, Atomic!Joined, Joined
    <3> QED
      BY <1>3, <2>1, <2>2, <2>3, <3>1, <3>2
  <2> QED
    BY <2>4, <2>5
<1>5. CASE ~ Same(lobby, req[c].basis)
  <2>1. /\ UNCHANGED lobby /\ req' = [req EXCEPT ![c].at = "stale", ![c].read = lobby]
    BY <1>5 DEF Serve
  <2>2. /\ req'[c].at = "stale" /\ req'[c].read = lobby /\ req'[c].told = req[c].told
        /\ req'[c].tries = req[c].tries
        /\ \A d \in Callers \ {c} : req'[d] = req[d]
    BY <1>1, <2>1 DEF Request
  <2>3. CASE lobby # NoLobby /\ req[c].tries < MaxRetries /\ Bad(lobby, c)
    <3>1. Decided(c)' = Why(lobby, c) /\ Why(lobby, c) # "ok"
      BY <2>1, <2>2, <2>3 DEF Decided, Bad, Why
    <3>2. Atomic!Verdict(c) = Why(lobby, c)
      BY <2>3 DEF Bad, Why, Atomic!Verdict, Atomic!Refuses, Refuses, Atomic!Needs, Needs, Atomic!Status, Status,
                      Atomic!Throws, Throws, Atomic!Joined, Joined
    <3> QED
      BY <1>3, <2>1, <2>2, <3>1, <3>2
  <2>4. CASE ~ (lobby # NoLobby /\ req[c].tries < MaxRetries /\ Bad(lobby, c))
    <3>1. Decided(c)' = "no"
      BY <2>1, <2>2, <2>4 DEF Decided, Bad
    <3> QED
      BY <1>2, <2>1, <2>2, <3>1, Unseen
  <2> QED
    BY <2>3, <2>4
<1> QED
  BY <1>4, <1>5

\* updateLobby implements the atomic lobby: one moment of effect or refusal per
\* call, and an answer that tells of it.
THEOREM TransactionIsAtomic == Spec => ActsAtomically
<1>1. TInit => Atomic!AInit
  BY DEF TInit, Atomic!AInit, NoRequest, Decided
<1>2. TInv /\ [TNext]_tvars => [Atomic!ANext]_(Atomic!avars)
  <2> SUFFICES ASSUME TInv, [TNext]_tvars
               PROVE  Atomic!ANext \/ UNCHANGED Atomic!avars
    OBVIOUS
  <2>1. ASSUME UNCHANGED req
        PROVE  ADecided' = ADecided /\ ATold' = ATold
    BY <2>1 DEF ADecided, ATold, Decided
  <2>2. CASE Push
    BY <2>1, <2>2 DEF Push, Atomic!ANext, Atomic!Push, ADecided, ATold, Atomic!NewLobby, NewLobby
  <2>3. ASSUME NEW m \in Messages, SendChat(m)
        PROVE  Atomic!ANext
    BY <2>1, <2>3 DEF SendChat, Atomic!ANext, Atomic!Chat, ADecided, ATold
  <2>4. ASSUME NEW c \in Callers,
               Call(c) \/ Serve(c) \/ Resolve(c) \/ Rerun(c) \/ GiveUp(c) \/ CutOff(c)
        PROVE  Atomic!ANext \/ UNCHANGED Atomic!avars
    BY <2>4, CallIsUnseen, RerunIsAnswer, EndsAreAnswers, ServeDecides DEF Atomic!ANext
  <2>5. CASE UNCHANGED tvars
    BY <2>1, <2>5 DEF tvars, Atomic!avars, ADecided, ATold
  <2> QED
    BY <2>2, <2>3, <2>4, <2>5 DEF TNext
<1> QED
  BY <1>1, <1>2, InvariantHolds, PTL DEF Spec, ActsAtomically, Atomic!ASpec

----------------------------------------------------------------------------
(******************************* Retries ***********************************)

\* l came out of k by further changes, or is k.
Descends(l, k) ==
  \/ k = NoLobby
  \/ /\ l # NoLobby /\ k.chat \subseteq l.chat /\ Len(k.log) <= Len(l.log)
     /\ Len(k.log) = Len(l.log) => k.log = l.log /\ k.status = l.status

Finite(l) == l # NoLobby => IsFiniteSet(l.chat)

\* Every put sent again has a guess that is newer than the one before.
RInv ==
  /\ Finite(lobby)
  /\ \A c \in Callers :
       LET r == req[c]
       IN  /\ r.at = "sent" => /\ Finite(r.basis) /\ Descends(lobby, r.basis)
                               /\ Changes(r.basis) >= r.tries - 1
           /\ r.at = "stale" => /\ Finite(r.read) /\ Descends(lobby, r.read)
                                /\ Changes(r.read) >= r.tries
           /\ r.at = "idle" => r.tries = 0

LEMMA ChangesType == ASSUME NEW l \in Lobby \cup {NoLobby}, Finite(l) PROVE Changes(l) \in Nat
<1>1. CASE l = NoLobby
  BY <1>1 DEF Changes
<1>2. CASE l # NoLobby
  <2>1. Cardinality(l.chat) \in Nat /\ Len(l.log) \in Nat
    BY <1>2, FS_CardinalityType DEF Finite, Lobby
  <2> QED
    BY <1>2, <2>1 DEF Changes
<1> QED
  BY <1>1, <1>2

\* A lobby that changed has more changes.
LEMMA ChangesGrow ==
  ASSUME NEW l \in Lobby \cup {NoLobby}, NEW k \in Lobby \cup {NoLobby},
         Finite(l), Finite(k), Descends(l, k), l # k
  PROVE  Changes(l) >= Changes(k) + 1
<1>1. Changes(l) \in Nat /\ Changes(k) \in Nat
  BY ChangesType
<1>2. CASE k = NoLobby
  <2>1. Cardinality(l.chat) \in Nat /\ Len(l.log) \in Nat
    BY <1>2, FS_CardinalityType DEF Finite, Lobby
  <2> QED
    BY <1>2, <2>1 DEF Changes
<1>3. CASE k # NoLobby
  <2>1. /\ l # NoLobby /\ k.chat \subseteq l.chat /\ Len(k.log) <= Len(l.log)
        /\ IsFiniteSet(l.chat) /\ Len(l.log) \in Nat /\ Len(k.log) \in Nat
    BY <1>3 DEF Descends, Finite, Lobby
  <2>2. /\ Cardinality(k.chat) \in Nat /\ Cardinality(l.chat) \in Nat
        /\ Cardinality(k.chat) <= Cardinality(l.chat)
        /\ Cardinality(k.chat) = Cardinality(l.chat) => k.chat = l.chat
    BY <2>1, FS_Subset, FS_CardinalityType
  <2>3. Len(k.log) = Len(l.log) => k.chat # l.chat
    BY <1>3, <2>1 DEF Descends, Lobby
  <2>4. /\ Changes(l) = 1 + Len(l.log) + Cardinality(l.chat)
        /\ Changes(k) = 1 + Len(k.log) + Cardinality(k.chat)
    BY <1>3, <2>1 DEF Changes
  <2>5. Len(k.log) < Len(l.log) \/ Cardinality(k.chat) < Cardinality(l.chat)
    BY <2>1, <2>2, <2>3
  <2> QED
    BY <2>1, <2>2, <2>4, <2>5
<1> QED
  BY <1>2, <1>3

LEMMA DescendsTransitive ==
  ASSUME NEW k, NEW l \in Lobby \cup {NoLobby}, NEW m \in Lobby \cup {NoLobby},
         k \in Lobby \cup {NoLobby}, Descends(l, k), Descends(m, l)
  PROVE  Descends(m, k)
<1>1. CASE k = NoLobby
  BY <1>1 DEF Descends
<1>2. CASE k # NoLobby
  <2>1. Len(k.log) \in Nat /\ (l # NoLobby => Len(l.log) \in Nat) /\ (m # NoLobby => Len(m.log) \in Nat)
    BY <1>2 DEF Lobby
  <2> QED
    BY <1>2, <2>1 DEF Descends
<1> QED
  BY <1>1, <1>2

\* Whatever a step does to the lobby, the lobby descends from what it was.
LEMMA LobbyDescends ==
  ASSUME TInv, RInv, [TNext]_tvars, TypeOK'
  PROVE  Descends(lobby', lobby) /\ Finite(lobby')
<1>1. TypeOK /\ lobby \in Lobby \cup {NoLobby} /\ lobby' \in Lobby \cup {NoLobby}
  BY DEF TInv, TypeOK
<1>2. CASE UNCHANGED lobby
  BY <1>2 DEF Descends, RInv
<1>3. CASE Push
  <2>1. lobby = NoLobby /\ lobby' = NewLobby /\ lobby'.chat = {}
    BY <1>3 DEF Push, NewLobby
  <2> QED
    BY <2>1, FS_EmptySet DEF Descends, Finite
<1>4. ASSUME NEW m \in Messages, SendChat(m)
      PROVE  Descends(lobby', lobby) /\ Finite(lobby')
  <2>1. /\ lobby # NoLobby /\ lobby'.chat = lobby.chat \cup {m}
        /\ lobby'.log = lobby.log /\ lobby'.status = lobby.status /\ Len(lobby.log) \in Nat
        /\ lobby' # NoLobby
    <3>1. lobby \in Lobby /\ lobby' = [lobby EXCEPT !.chat = @ \cup {m}]
      BY <1>1, <1>4 DEF SendChat
    <3>2. lobby' \in Lobby
      BY <3>1 DEF Lobby
    <3> QED
      BY <3>1, <3>2 DEF Lobby
  <2>2. IsFiniteSet(lobby'.chat)
    BY <2>1, FS_AddElement DEF RInv, Finite
  <2> QED
    BY <2>1, <2>2 DEF Descends, Finite
<1>5. ASSUME NEW c \in Callers, Serve(c), lobby' # lobby
      PROVE  Descends(lobby', lobby) /\ Finite(lobby')
  <2>1. lobby' = req[c].out /\ lobby = req[c].basis /\ req[c].at = "sent"
    BY <1>5 DEF Serve, Same
  <2>2. lobby \in Lobby /\ lobby' = Applied(lobby, c)
    BY <1>5, <2>1 DEF TInv, GoodAnswer, GoodPut
  <2>3. /\ lobby' # NoLobby /\ lobby'.log = Append(lobby.log, c) /\ lobby.log \in Seq(Callers)
        /\ lobby'.chat = lobby.chat
    BY <2>2, AppliedType DEF Applied, Lobby
  <2>4. Len(lobby'.log) = Len(lobby.log) + 1 /\ Len(lobby.log) \in Nat
    BY <2>3
  <2>5. IsFiniteSet(lobby.chat)
    BY <2>2 DEF RInv, Finite
  <2> QED
    BY <2>3, <2>4, <2>5 DEF Descends, Finite
<1> QED
  BY <1>2, <1>3, <1>4, <1>5 DEF TNext, tvars, Call, Resolve, Rerun, GiveUp, CutOff, Fail

LEMMA NextRInv == TInv /\ RInv /\ [TNext]_tvars => RInv'
<1> SUFFICES ASSUME TInv, RInv, [TNext]_tvars
             PROVE  RInv'
  OBVIOUS
<1> USE DEF TypeOK
<1>1. TypeOK /\ TypeOK' /\ Descends(lobby', lobby) /\ Finite(lobby')
  <2>1. TypeOK /\ TypeOK'
    BY NextTypeOK DEF TInv
  <2> QED
    BY <2>1, LobbyDescends
<1>2. /\ req \in [Callers -> Request] /\ lobby \in Lobby \cup {NoLobby}
      /\ lobby' \in Lobby \cup {NoLobby}
  BY <1>1
<1> DEFINE Good(r, l) ==
      /\ r.at = "sent" => /\ Finite(r.basis) /\ Descends(l, r.basis)
                          /\ Changes(r.basis) >= r.tries - 1
      /\ r.at = "stale" => /\ Finite(r.read) /\ Descends(l, r.read)
                           /\ Changes(r.read) >= r.tries
      /\ r.at = "idle" => r.tries = 0
<1>3. \A c \in Callers : Good(req[c], lobby)
  BY DEF RInv
<1>4. ASSUME NEW c \in Callers
      PROVE  Good(req[c], lobby')
  <2>1. /\ req[c].basis \in Lobby \cup {NoLobby} /\ req[c].read \in Lobby \cup {NoLobby}
    BY <1>2 DEF Request
  <2> QED
    BY <1>1, <1>2, <1>3, <2>1, DescendsTransitive
<1>5. ASSUME NEW c \in Callers, NEW l \in Lobby \cup {NoLobby}, Attempt(c, l), UNCHANGED lobby,
             Finite(l), Descends(lobby, l), Changes(l) >= req[c].tries, req[c].at # "sent"
      PROVE  \A d \in Callers : Good(req'[d], lobby')
  <2>1. \A d \in Callers \ {c} : req'[d] = req[d]
    BY <1>1, <1>5, AttemptOK
  <2>2. CASE l # NoLobby /\ Bad(l, c)
    <3>1. req'[c] = [req[c] EXCEPT !.err = Why(l, c), !.told = Why(l, c)]
      BY <1>1, <1>5, <2>2, AttemptOK
    <3>2. /\ req'[c].at = req[c].at /\ req'[c].read = req[c].read
          /\ req'[c].basis = req[c].basis /\ req'[c].tries = req[c].tries
      BY <1>2, <3>1 DEF Request
    <3> QED
      BY <1>4, <2>1, <3>2
  <2>3. CASE l = NoLobby \/ ~ Bad(l, c)
    <3>1. /\ req'[c].at = "sent" /\ req'[c].basis = l /\ req'[c].tries = req[c].tries + 1
      BY <1>1, <1>5, <2>3, AttemptOK
    <3>2. Changes(l) \in Nat /\ req[c].tries \in Nat
      BY <1>2, <1>5, ChangesType DEF Request
    <3>3. Good(req'[c], lobby')
      BY <1>5, <3>1, <3>2
    <3> QED
      BY <1>4, <2>1, <3>3
  <2> QED
    BY <2>2, <2>3
<1>6. ASSUME NEW c \in Callers, Call(c)
      PROVE  \A d \in Callers : Good(req'[d], lobby')
  <2>1. /\ Attempt(c, NoLobby) /\ UNCHANGED lobby /\ req[c].at = "idle" /\ req[c].tries = 0
        /\ Finite(NoLobby) /\ Descends(lobby, NoLobby) /\ Changes(NoLobby) = 0
    BY <1>3, <1>6 DEF Call, Finite, Descends, Changes
  <2> QED
    BY <1>5, <2>1
<1>7. ASSUME NEW c \in Callers, Rerun(c)
      PROVE  \A d \in Callers : Good(req'[d], lobby')
  <2>1. /\ Attempt(c, req[c].read) /\ UNCHANGED lobby /\ req[c].at = "stale"
        /\ req[c].read \in Lobby \cup {NoLobby}
    BY <1>2, <1>7 DEF Rerun, Request
  <2> QED
    BY <1>3, <1>5, <2>1
<1>8. ASSUME NEW c \in Callers, Serve(c)
      PROVE  \A d \in Callers : Good(req'[d], lobby')
  <2>1. CASE Same(lobby, req[c].basis)
    <3>1. req'[c].at = "committed" /\ \A d \in Callers \ {c} : req'[d] = req[d]
      BY <1>2, <1>8, <2>1 DEF Serve, Request
    <3> QED
      BY <1>4, <3>1
  <2>2. CASE ~ Same(lobby, req[c].basis)
    <3>1. /\ req[c].at = "sent" /\ req[c].basis \in Lobby \cup {NoLobby} /\ lobby # req[c].basis
          /\ req[c].tries \in Nat /\ UNCHANGED lobby
      BY <1>2, <1>8, <2>2 DEF Serve, Request, Same
    <3>2. /\ req'[c].at = "stale" /\ req'[c].read = lobby /\ req'[c].tries = req[c].tries
          /\ \A d \in Callers \ {c} : req'[d] = req[d]
      BY <1>2, <1>8, <2>2 DEF Serve, Request
    <3>3. Finite(lobby) /\ Finite(req[c].basis) /\ Descends(lobby, req[c].basis)
      BY <1>3, <3>1 DEF RInv
    <3>4. /\ Changes(lobby) >= Changes(req[c].basis) + 1 /\ Changes(req[c].basis) \in Nat
          /\ Changes(lobby) \in Nat
      BY <1>2, <3>1, <3>3, ChangesGrow, ChangesType
    <3>5. Descends(lobby, lobby)
      BY DEF Descends
    <3>6. Changes(lobby) >= req[c].tries
      BY <1>3, <3>1, <3>4
    <3>7. Good(req'[c], lobby')
      BY <3>1, <3>2, <3>3, <3>5, <3>6
    <3> QED
      BY <1>4, <3>2, <3>7
  <2> QED
    BY <2>1, <2>2
<1>9. ASSUME NEW c \in Callers, Resolve(c) \/ GiveUp(c) \/ CutOff(c)
      PROVE  \A d \in Callers : Good(req'[d], lobby')
  <2>1. PICK v : req' = [req EXCEPT ![c].told = v]
    BY <1>9 DEF Resolve, GiveUp, CutOff, Fail
  <2>2. /\ req'[c].at = req[c].at /\ req'[c].read = req[c].read
        /\ req'[c].basis = req[c].basis /\ req'[c].tries = req[c].tries
        /\ \A d \in Callers \ {c} : req'[d] = req[d]
    BY <1>2, <2>1 DEF Request
  <2> QED
    BY <1>4, <2>2
<1>10. CASE UNCHANGED req
  BY <1>4, <1>10, <1>1 DEF RInv
<1>11. \A d \in Callers : Good(req'[d], lobby')
  BY <1>4, <1>6, <1>7, <1>8, <1>9, <1>10 DEF TNext, Push, SendChat, tvars
<1> QED
  BY <1>1, <1>11 DEF RInv

\* A call is made to try again, and in the end gives up, only by changes of others:
\* the lobby a stale reply brings has changed at least as often as was tried.
THEOREM RetriesArePaidFor == Spec => []RetriesPaidFor
<1>1. TInit => RInv
  <2> SUFFICES ASSUME TInit
               PROVE  RInv
    OBVIOUS
  <2>1. \A c \in Callers : req[c].at = "idle" /\ req[c].tries = 0
    BY DEF TInit, NoRequest
  <2> QED
    BY <2>1 DEF RInv, TInit, Finite
<1>2. RInv => RetriesPaidFor
  BY DEF RInv, RetriesPaidFor
<1> QED
  BY <1>1, <1>2, InvariantHolds, NextRInv, PTL DEF Spec
=============================================================================
