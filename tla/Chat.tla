-------------------------------- MODULE Chat --------------------------------
(***************************************************************************)
(* The chat of the game screen.  A phone writes its message straight into  *)
(* /public/chat, under a key made of the number of messages it lists: two  *)
(* phones that have not heard of each other's message pick the same key,   *)
(* and the later write takes the place of the earlier one.                 *)
(*                                                                         *)
(* The database SDK shows a phone its own write at once, keeps it until it *)
(* is acknowledged, and writes it again after a lost connection.  The app  *)
(* listens for added keys only: what comes under a key it knows is not     *)
(* listed.                                                                 *)
(***************************************************************************)
EXTENDS Integers, Sequences, FiniteSets

CONSTANTS Phones,
          Base,      \* of the numerals in the keys: 10
          MaxSends,  \* bound: messages sent
          MaxDrops   \* bound: connections lost

ASSUME ChatAssumption == Base \in Nat \ {0, 1} /\ MaxSends \in Nat /\ MaxDrops \in Nat

VARIABLES
  chat,     \* /public/chat: key -> message
  open,     \* the phones whose game screen is open
  unacked,  \* the SDK's outstanding writes, in the order they were made
  served,   \* how many of them the database has taken already
  down,     \* what is on its way to a phone: a message, and whether it
            \* acknowledges the phone's first outstanding write
  known,    \* the keys the SDK of a phone holds data under
  raised,   \* childAdded events raised, the listener has still to run
  messages, \* the list the screen shows, without its sorting by time
  drops,
  sent      \* history: every message ever sent

vars == <<chat, open, unacked, served, down, known, raised, messages, drops, sent>>

\* A message: id and heard are history, the ids its sender listed when it sent.
Message == [id: 1..MaxSends, by: Phones, key: 0..MaxSends, heard: SUBSET (1..MaxSends)]

Init ==
  /\ chat = <<>> /\ open = {} /\ sent = {} /\ drops = 0
  /\ unacked = [p \in Phones |-> <<>>] /\ served = [p \in Phones |-> 0]
  /\ down = [p \in Phones |-> <<>>] /\ known = [p \in Phones |-> {}]
  /\ raised = [p \in Phones |-> <<>>] /\ messages = [p \in Phones |-> <<>>]

----------------------------------------------------------------------------
\* Mutant: one less.
LastListed(p) == IF messages[p] = <<>> THEN 0 ELSE Len(messages[p]) - 1

\* The key of the next message: "message\(messages.count)".
NextKey(p) == Len(messages[p])

\* Mutant: a changed message is listed like an added one.
AlwaysRaised(p, m) == <<m>>

\* The event for data under a key: childAdded, or none the app listens to.
Raised(p, m) == IF m.key \in known[p] THEN <<>> ELSE <<m>>

Learn(p, m) == /\ known' = [known EXCEPT ![p] = @ \cup {m.key}]
               /\ raised' = [raised EXCEPT ![p] = @ \o Raised(p, m)]

\* Keys are compared as strings: message10 comes before message2, and only
\* numerals of one digit are in the order of their numbers.
Numeral[k \in Nat] == IF k < Base THEN <<k>> ELSE Append(Numeral[k \div Base], k % Base)
InStringOrder(s, t) ==
  \E k \in 0..Len(s) : /\ k < Len(t) /\ \A j \in 1..k : s[j] = t[j]
                       /\ k < Len(s) => s[k + 1] < t[k + 1]
Precedes(k, l) == IF k < Base /\ l < Base THEN k < l ELSE InStringOrder(Numeral[k], Numeral[l])

\* What the database tells a phone that begins to listen: all there is, in
\* the order of the keys.
Ascending(S) ==
  CHOOSE f \in [1..Cardinality(S) -> S] : \A i, j \in DOMAIN f : i < j => Precedes(f[i], f[j])
Snapshot == [i \in 1..Cardinality(DOMAIN chat) |->
               [msg |-> chat[Ascending(DOMAIN chat)[i]], ack |-> FALSE]]

\* viewDidLoad: the listeners are attached.
OpenScreen(p) ==
  /\ p \notin open /\ open' = open \cup {p}
  /\ down' = [down EXCEPT ![p] = Snapshot]
  /\ UNCHANGED <<chat, unacked, served, known, raised, messages, drops, sent>>

\* submitButton in the chat: the SDK raises the event of the phone's own write
\* before the database has it.
Send(p) ==
  /\ p \in open /\ Cardinality(sent) < MaxSends
  /\ LET m == [id |-> Cardinality(sent) + 1, by |-> p, key |-> NextKey(p),
               heard |-> {messages[p][i].id : i \in DOMAIN messages[p]}]
     IN  /\ sent' = sent \cup {m}
         /\ unacked' = [unacked EXCEPT ![p] = Append(@, m)]
         /\ Learn(p, m)
  /\ UNCHANGED <<chat, open, served, down, messages, drops>>

\* The database takes a write, over whatever is there, and tells everybody.
Serve(p) ==
  /\ served[p] < Len(unacked[p])
  /\ LET m == unacked[p][served[p] + 1]
     IN  /\ chat' = [k \in DOMAIN chat \cup {m.key} |-> IF k = m.key THEN m ELSE chat[k]]
         /\ down' = [q \in Phones |->
              IF q \in open THEN Append(down[q], [msg |-> m, ack |-> q = p]) ELSE down[q]]
  /\ served' = [served EXCEPT ![p] = @ + 1]
  /\ UNCHANGED <<open, unacked, known, raised, messages, drops, sent>>

\* Mutant: the count of writes taken is not adjusted.
CountStays(p) == unacked' = [unacked EXCEPT ![p] = Tail(@)] /\ UNCHANGED served

Acknowledged(p) == /\ unacked' = [unacked EXCEPT ![p] = Tail(@)]
                   /\ served' = [served EXCEPT ![p] = @ - 1]

\* A phone hears of a message: of its own, or of somebody else's.
Receive(p) ==
  /\ down[p] # <<>> /\ down' = [down EXCEPT ![p] = Tail(@)]
  /\ IF Head(down[p]).ack
       THEN Acknowledged(p)
       ELSE UNCHANGED <<unacked, served>>
  /\ Learn(p, Head(down[p]).msg)
  /\ UNCHANGED <<chat, open, messages, drops, sent>>

\* The childAdded listener lists the message.
ChildAdded(p) ==
  /\ raised[p] # <<>> /\ raised' = [raised EXCEPT ![p] = Tail(@)]
  /\ messages' = [messages EXCEPT ![p] = Append(@, Head(raised[p]))]
  /\ UNCHANGED <<chat, open, unacked, served, down, known, drops, sent>>

Lost(p) == /\ p \in open /\ drops < MaxDrops /\ drops' = drops + 1
           /\ down' = [down EXCEPT ![p] = Snapshot]
           /\ served' = [served EXCEPT ![p] = 0]

\* Mutant: the new connection listens again and forgets the writes.
ForgetsWrites(p) ==
  /\ Lost(p) /\ unacked' = [unacked EXCEPT ![p] = <<>>]
  /\ UNCHANGED <<chat, open, known, raised, messages, sent>>

\* A connection is lost with all that is under way on it.  The new one listens
\* again and repeats every outstanding write, the ones that arrived included.
Reconnect(p) ==
  /\ Lost(p)
  /\ unacked[p] # <<>> \/ down[p] # <<>>
  /\ UNCHANGED <<chat, open, unacked, known, raised, messages, sent>>

Next == \E p \in Phones : \/ OpenScreen(p) \/ Send(p) \/ Serve(p) \/ Receive(p)
                          \/ ChildAdded(p) \/ Reconnect(p)

\* Messages travel and listeners run; nobody has to write, or to look.
Fairness == \A p \in Phones : /\ WF_vars(Serve(p)) /\ WF_vars(Receive(p))
                              /\ WF_vars(ChildAdded(p))

Spec == Init /\ [][Next]_vars /\ Fairness

----------------------------------------------------------------------------
(******************************* Properties ********************************)

\* The types, and each list of outstanding writes as long as the database's
\* share of it says.
TypeOK ==
  /\ DOMAIN chat \subseteq 0..MaxSends /\ \A k \in DOMAIN chat : chat[k] \in Message
  /\ open \subseteq Phones /\ sent \subseteq Message
  /\ \A p \in Phones : /\ served[p] \in 0..Len(unacked[p])
                       /\ known[p] \subseteq 0..MaxSends
                       /\ \A i \in DOMAIN messages[p] : messages[p][i] \in sent

\* What follows is promised of a chat whose keys have one digit: as long as no
\* more than Base messages were sent, ten in the app.  A phone that begins to
\* listen to a longer chat hears of message10 before message2; sending in the
\* midst of that, it may write over a message it lists.
OneDigit == Cardinality(sent) <= Base

\* A message of such a chat is only ever written over by one whose sender could
\* not know of it: no two messages with one key, of which one had been heard.
CollisionsAreConcurrent ==
  OneDigit => \A m, n \in sent : m.key = n.key => m.id \notin n.heard

Quiet == \A p \in Phones : unacked[p] = <<>> /\ down[p] = <<>> /\ raised[p] = <<>>
Alone(m) == \A n \in sent : n.key = m.key => n = m
Lists(p, m) == \E i \in DOMAIN messages[p] : messages[p][i] = m

\* When nothing is under way in such a chat all phones list one message for
\* every key, so the next message of any of them gets a new key, and a message
\* that was not written over is listed by all.
SettledChatAgrees ==
  OneDigit /\ Quiet =>
    \A p \in open : /\ Len(messages[p]) = Cardinality(DOMAIN chat)
                    /\ NextKey(p) \notin DOMAIN chat
                    /\ \A m \in sent : Alone(m) => Lists(p, m)

\* A message nobody writes over is listed by every open phone in the end,
\* lost connections or not.
MessageArrives ==
  \A i \in 1..MaxSends :
    (\E m \in sent : m.id = i) ~>
      \A m \in sent : m.id = i /\ Alone(m) => \A p \in open : Lists(p, m)
=============================================================================
