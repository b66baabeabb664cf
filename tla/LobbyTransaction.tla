-------------------------- MODULE LobbyTransaction --------------------------
(***************************************************************************)
(* The loop of updateLobby: every function that changes a lobby runs a     *)
(* callback on its guess of the lobby and asks the server to replace the   *)
(* guess by the result.  The server does so if the lobby still is the      *)
(* guess, else sends the lobby, and the callback is run again on that.     *)
(*                                                                         *)
(* The first guess is null: a function instance has read nothing.  So the  *)
(* callback cannot tell a missing lobby from one it has not seen, returns  *)
(* null, and the answer decides (comment in updateLobby).  A first run     *)
(* therefore asks to replace nothing by nothing.                           *)
(*                                                                         *)
(* Messages of a connection keep their order: the lobby as the server saw  *)
(* it comes with the reply "stale".                                        *)
(***************************************************************************)
EXTENDS LobbyCalls, FiniteSets

CONSTANT MaxRetries   \* times the SDK sends a transaction before it gives up

ASSUME RetriesAssumption == MaxRetries \in Nat \ {0}

VARIABLES lobby,  \* /lobbies/$id
          req     \* the transaction of each call

tvars == <<lobby, req>>

\* at: the put is not yet sent, on its way to the server, or on its way back
\* as committed or stale; basis and out: the guess and its replacement; err:
\* transactionError; read: the lobby a stale reply brings; tries: puts sent;
\* told: how the promise ended.
Request == [at: {"idle", "sent", "committed", "stale"},
            basis: Lobby \cup {NoLobby}, out: Lobby \cup {NoLobby}, read: Lobby \cup {NoLobby},
            err: {"none", "not-found", "refused", "failed"}, tries: Nat,
            told: {"none", "ok", "not-found", "refused", "failed"}]

NoRequest == [at |-> "idle", basis |-> NoLobby, out |-> NoLobby, read |-> NoLobby,
              err |-> "none", tries |-> 0, told |-> "none"]

TInit == lobby = NoLobby /\ req = [c \in Callers |-> NoRequest]

----------------------------------------------------------------------------
\* Mutant: a null lobby aborts, as a missing one.
NullAborts(c, l) ==
  IF l = NoLobby THEN [abort |-> TRUE, err |-> "not-found", out |-> NoLobby]
  ELSE IF Refuses(l, c) THEN [abort |-> TRUE, err |-> "refused", out |-> l]
  ELSE IF Throws(l, c) THEN [abort |-> TRUE, err |-> "failed", out |-> l]
  ELSE [abort |-> FALSE, err |-> "none", out |-> Applied(l, c)]

\* The callback: its error, and the lobby it returns unless it aborts.  A throw
\* of updateLobbyFn ends the transaction too, in a failure of the call.
Callback(c, l) ==
  IF l = NoLobby THEN [abort |-> FALSE, err |-> "not-found", out |-> NoLobby]
  ELSE IF Refuses(l, c) THEN [abort |-> TRUE, err |-> "refused", out |-> l]
  ELSE IF Throws(l, c) THEN [abort |-> TRUE, err |-> "failed", out |-> l]
  ELSE [abort |-> FALSE, err |-> "none", out |-> Applied(l, c)]

\* The put that asks to replace a guess by what the callback returned.
Put(r, guess, run) ==
  [at |-> "sent", basis |-> guess, out |-> run.out, read |-> NoLobby, err |-> run.err,
   tries |-> r.tries + 1, told |-> r.told]

\* Run the callback on a guess, and send its result or reject the promise.
Attempt(c, guess) ==
  LET run == Callback(c, guess)
  IN  \/ run.abort /\ req' = [req EXCEPT ![c].err = run.err, ![c].told = run.err]
      \/ ~ run.abort /\ req' = [req EXCEPT ![c] = Put(@, guess, run)]

\* A function calls updateLobby.
Call(c) == req[c].at = "idle" /\ Attempt(c, NoLobby) /\ UNCHANGED lobby

\* Mutant: only the existence of the lobby is compared.
SameIfPresent(l, basis) == (l = NoLobby) = (basis = NoLobby)

Same(l, basis) == l = basis

\* The server compares the lobby with the guess.
Serve(c) ==
  /\ req[c].at = "sent"
  /\ IF Same(lobby, req[c].basis)
       THEN lobby' = req[c].out /\ req' = [req EXCEPT ![c].at = "committed"]
       ELSE UNCHANGED lobby /\ req' = [req EXCEPT ![c].at = "stale", ![c].read = lobby]

Waits(c) == req[c].told = "none"

\* Mutant: a committed transaction is a success.
CommittedIsOk(r) == "ok"

\* A transaction that committed a lobby that exists is a success.
Outcome(r) == IF r.out = NoLobby THEN r.err ELSE "ok"

Resolve(c) ==
  /\ req[c].at = "committed" /\ Waits(c)
  /\ req' = [req EXCEPT ![c].told = Outcome(req[c])]
  /\ UNCHANGED lobby

\* Mutant: the callback is run again on the old guess.
RerunOnOld(c) ==
  /\ req[c].at = "stale" /\ Waits(c) /\ req[c].tries < MaxRetries
  /\ Attempt(c, req[c].basis) /\ UNCHANGED lobby

\* Mutant: a lobby that refuses is waited for to change.
WaitsForBetter(c) ==
  /\ req[c].at = "stale" /\ Waits(c) /\ req[c].tries < MaxRetries
  /\ ~ Callback(c, req[c].read).abort
  /\ Attempt(c, req[c].read) /\ UNCHANGED lobby

Rerun(c) ==
  /\ req[c].at = "stale" /\ Waits(c) /\ req[c].tries < MaxRetries
  /\ Attempt(c, req[c].read) /\ UNCHANGED lobby

Fail(c) == req' = [req EXCEPT ![c].told = "failed"] /\ UNCHANGED lobby

GiveUp(c) == req[c].at = "stale" /\ Waits(c) /\ req[c].tries >= MaxRetries /\ Fail(c)

\* The connection or the instance is lost.  A put on its way arrives or not.
CutOff(c) == req[c].at # "idle" /\ Waits(c) /\ Fail(c)

----------------------------------------------------------------------------
\* createLobby pushes the lobby: a friend with the code may be earlier.
Push == lobby = NoLobby /\ lobby' = NewLobby /\ UNCHANGED req

\* A phone writes a chat message, into the lobby and beside all transactions.
SendChat(m) == /\ lobby # NoLobby /\ m \notin lobby.chat
               /\ lobby' = [lobby EXCEPT !.chat = @ \cup {m}]
               /\ UNCHANGED req

TNext == \/ Push
         \/ \E m \in Messages : SendChat(m)
         \/ \E c \in Callers : \/ Call(c) \/ Serve(c) \/ Resolve(c) \/ Rerun(c)
                               \/ GiveUp(c) \/ CutOff(c)

\* The database answers, and the SDK goes on with the answer.
TFairness == \A c \in Callers : /\ WF_tvars(Serve(c)) /\ WF_tvars(Resolve(c))
                                /\ WF_tvars(Rerun(c)) /\ WF_tvars(GiveUp(c))

Spec == TInit /\ [][TNext]_tvars /\ TFairness

----------------------------------------------------------------------------
(******************************* Properties ********************************)

\* The types of the lobby and of the requests.
TypeOK == lobby \in Lobby \cup {NoLobby} /\ req \in [Callers -> Request]

\* What became of a call: decided by the server's reply, except that a stale
\* reply decides nothing when the callback will be run to a new put.
Decided(c) ==
  LET r == req[c]
  IN  CASE r.at = "committed" -> IF r.out = NoLobby THEN "not-found" ELSE "ok"
        [] r.at = "stale" /\ r.read # NoLobby /\ r.tries < MaxRetries ->
             IF Refuses(r.read, c) THEN "refused"
             ELSE IF Throws(r.read, c) THEN "failed" ELSE "no"
        [] OTHER -> "no"

Atomic == INSTANCE AtomicLobby WITH decided <- [c \in Callers |-> Decided(c)],
                                    told <- [c \in Callers |-> req[c].told]

\* The atomic step every other module takes updateLobby for: one moment of
\* effect or refusal per call, nobody's update or chat message overwritten.
ActsAtomically == Atomic!ASpec

Times(c) == {i \in DOMAIN lobby.log : lobby.log[i] = c}

\* What a caller is told is true: a success is in the lobby once, a refused or
\* not found call is not in it, and one that failed is in it at most once.
AnswersTrue ==
  \A c \in Callers :
    LET told == req[c].told
    IN  /\ told = "ok" => lobby # NoLobby /\ Cardinality(Times(c)) = 1
        /\ told \in {"refused", "not-found"} /\ lobby # NoLobby => Times(c) = {}
        /\ lobby # NoLobby => Cardinality(Times(c)) <= 1

Changes(l) == IF l = NoLobby THEN 0 ELSE 1 + Len(l.log) + Cardinality(l.chat)

\* Every further try is paid for by a change somebody else made: a call is
\* never turned away, and gives up never, but for the progress of others.
RetriesPaidFor == \A c \in Callers : req[c].at = "stale" => Changes(req[c].read) >= req[c].tries

\* Every call of updateLobby comes to an end.
CallsEnd == \A c \in Callers : req[c].at # "idle" ~> ~ Waits(c)
=============================================================================
